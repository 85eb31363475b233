# Verification of cexample

`cexample` is a collection of independent C programs: small servers, data
structures, protocol tools, a game and a few language front ends.  This
directory holds TLA+ models of the programs that carry logic of their own, the
TLC configurations that check them, and the TLAPS proofs of what matters most.

## 1. Inventory

Every program is a process of its own; programs do not talk to each other.  The
table names the state each keeps, what changes it, and what makes it hard.

| Component | State | Operations | Hard part | Correct when |
|---|---|---|---|---|
| `timer/list_timer.c` | sorted singly linked list, one mutex | insert, take the first expired, free | two adders and two readers, insertion by content swap, use and free after unlock | sorted, FIFO among equals, never early, nothing lost, no dangling link |
| `server/echo_server.c` | connection pool, event structures, epoll set, sockets | accept, read, echo, close, epoll wait | edge-triggered events, stale events in one batch, reuse of pool entries, EAGAIN handling | no connection in use twice, no event handled for another connection, every message answered (but of EAGAIN bytes) |
| `ds/hashtable/redis/dict.c` | two hash tables, rehash index, pause count | add, replace, find, delete, unlink, resize, rehash, iterate, scan | incremental rehash interleaved with everything else | behaves as a map; iterators and scan see what they promise |
| `lang_parser/ccalculator/mpool.c` | chain of blocks, list of large allocations, cleanups | alloc, nalloc, calloc, memalign, free, reset, destroy | current-block heuristics, alignment, reuse of large slots | allocations disjoint and inside their block |
| `game/2048.c` | board, score | move (merge/part edge), spawn, draw, SIGINT | merge order, full board, random placement | tiles and score consistent, an edge is reduced by the rule |
| `ds/hashtable/hash_table.c` | array of chains | insert, search, delete, free | the head of a chain is part of the array and never compared | a key is found with its latest value (true behind the first node of a bucket only) |
| `ds/skip_list/skip_list.c` | levels of nodes | insert, delete (find is unfinished) | the search goes down levels; deletion does not unlink | every level ordered and complete; what is deleted is gone (it is not) |
| `ds/sort/quick_sort.c` | array, bounds of each call | two scans with a moving pivot | equal values, where the scans meet | sorted permutation |
| `lang_parser/ccalculator/{token,parser,calculator,type}.c` | token list, parse tree | lex, recursive descent, evaluate | types of literals, precedence and repetition | C's tokens and types; the grammar's trees and values |
| `lang_parser/calculator/calculator.c` | current token, last number | three priorities, line by line | brackets, division, stale number | value of the expression, operands as the comment has them, blank lines skipped |
| `network/ping/packet_ping2.c` | sockets, tries, request frame | set up, send, receive with timeout and retry | late, lost and foreign frames, checksums | ends; silence is reported only if it is true |
| `network/probe_network.c` | socket per host and port, record per host | connect, epoll wait, read | edges of many sockets on one record, unsigned range | reports only and the last that spoke |
| `other/eventfd/eventfd.c` | eventfd counter, start flag | write, read | two threads without synchronisation, edge-triggered | no wake-up lost |
| `linux_module/loopback/loopback.c` | queue state, skb | xmit | use after free of the skb | reply delivered |
| `lang_parser/ast/main.cpp` | token, syntax tree | recursive descent | precedence climbing | the grammar's trees, recovery after errors |
| others (see section 8) | little or none | calls into libraries | | |

## 2. Plan

The programs are independent, so the modules are too; the order follows the
amount of logic and of interleaving.

| Order | Modules | Status |
|---|---|---|
| 1 | `TimerQueue` (abstract), `ListTimer`, `ListTimerProofs` | done |
| 2 | `KeyValueMap` (abstract), `Dict`, `DictIterator`, `DictGrowth`, `DictScan`, `DictProofs`, `DictUseProofs` | done |
| 3 | `EchoServer`, `EchoServerProofs` | done |
| 4 | `MPool`, `MPoolProofs` | done |
| 5 | `Game2048`, `Game2048Proofs` | done |
| 6 | `HashTable`, `SkipList`, `QuickSort`, `SequentialProofs` | done |
| 7 | `CLexer`, `CParser`, `Calculator`, `AstParser` | modelled and checked; recursive over sequences, so not for proofs |
| 8 | `Ping`, `Probe`, `EventFd`, `NetworkProofs` | done |

How modules compose: `ListTimer` is an instance of `TimerQueue` under a
refinement mapping (`ImplementsTimerQueue`), `Dict` one of `KeyValueMap`
(`ActsAsMap`).  `DictGrowth` extends `Dict` with a history variable, `calm`;
`DictIterator` and `DictScan` extend it with a walker and the walker's user.
`MCDict` extends `DictGrowth`; `MCDictWalk` extends both, so that the two
walkers stand side by side; the variable `walk` says which of them a behaviour
has, and the other one rests.  `MCSequential` and `MCWaiting` hold several
independent programs: a variable `program` says which of them a behaviour runs,
and the others keep their initial state.  The first extends `CParser`,
`QuickSort`, `HashTable`, `SkipList`, `MPool` and `Game2048` and has instances
of `Calculator`, `CLexer` and `AstParser`, whose names would collide; the second
extends `EventFd`, `Ping` and `Probe`, has instances of `ListTimer` and
`EchoServer`, and states the fairness of all five.  The `MC...` modules give
constants their values.  A module of proofs extends the models it is about.

## 3. The models and the code

### ListTimer (`timer/list_timer.c`)

`first`, `next`, `time` and `cb` are the fields of the list and of its nodes;
`alloc` is what malloc handed out, so freed addresses come back; `mutex` is
`list->mutex`; `node`, `new` and `pc` are the locals and the place of each
thread.  `AddLock`, `InsertFirst`, `InsertBegin`, `InsertHead`, `InsertSwap`,
`InsertAdvance`, `InsertTail` and `AddUnlock` are `add_timer_handler` and
`list_timer_insert`: an iteration of the walk is a step of its own, and
`InsertSwap` is the content swap of lines 93-102.  `ReadLock`, `FindLatest`,
`ReadUnlock`, `Fire` and `Free` are `read_timer_handler`; `Fire` and `Free`
happen after the unlock, as in the code.  `Offset` is what
`true_random() % 10` adds to the clock: it includes a negative number, because
`abs(INT_MIN)` is negative.  Every timer of the program has the same callback;
here timer i carries callback i, so that properties can tell timers apart.

`TimerQueue` is the promise without list, lock and threads: a queue in order of
expiry, first come first served among equals, of which a timer is taken only
when it has expired.  The refinement mapping reads the queue off the list:
`Queue` is what the nodes of `Chain` hold, and `Chain` the sequence of nodes
that the links spell; `TakenTimers` are those a reader holds between taking and
freeing, `Added` is the number of timers that got a place in the list.  An
insertion takes effect where its node is linked, a removal where
`list_timer_find_latest` unlinks the first node.

### Dict, DictGrowth, DictIterator, DictScan (`ds/hashtable/redis/dict.c`, `dict.h`)

`d` is the dict: two tables of chains (sets of entries), their sizes and used
counts, `rehashidx` and `pauserehash`.  A size stands for its exponent.  Calls
that the caller makes are one action each, with the rehashing step they begin
with: `dictAdd`, `dictReplace`, `dictAddOrFind`, `dictFind`, `dictDelete`
(unlink is the same change), `dictGetRandomKey`, `dictEmpty`, `dictExpand`,
`dictResize`, the switch of `dict_can_resize`, pause and resume.
`dictRehashMilliseconds` and `dictGetSomeKeys` have loops and are steps
(`RehashLoop`, `RehashExit`, `SampleLoop`), the first with its limit of empty
buckets.  The constants that the source fixes (initial size 4, ratio 5, 10
empty visits per round) are parameters and keep their role.

`DictIterator` adds a safe iterator with the entry it returned, the saved next
entry and the part of the chain behind it, and its user; `DictScan` adds the
reversed-bit cursor.  The user of an iterator deletes the entry returned only,
which is what the comment at lines 615-616 allows.  `DictGrowth` remembers in
`calm` that no caller has paused the rehashing, switched resizing off or asked
for a size.  `KeyValueMap` is the plain
map whose answers every call of `Dict` must give.

Not modelled: `dictRelease`, unsafe iterators with their fingerprint, the
callbacks of a scan beyond the keys they get, which keys `dictGetSomeKeys`
returns, the statistics, and failed allocations.

### EchoServer (`server/echo_server.c`)

One process and a kernel.  `conn` is the array of connections together with
their read events, `free` and `free_n` the free list, `cur` and `n` the running
handler and the result of its recv, `pc` the place in the loop.  The kernel's
side (`sock`, `backlog`, `epoll`, `rdllist`) is external: it is modelled from
how the calls are used, with edge-triggered readiness, `batch` being the events
one `epoll_wait` reported and the loop has not reached.  `AcceptFails`,
`Refuse`, `Accepting` and `AcceptGivesUp` are the branches of
`echo_event_accept`; `ngx_unix_recv`, `AgainBranch`, `CloseBranch`,
`EchoBranch` and `ngx_unix_sned` those of the echo handler.  Clients connect,
write, shut down and reset whenever they like.  Closing a connection keeps its
descriptor open, as the code does, so sockets are named by their client.

What the model shows the server does not do, and no comment says it does: with
several connections in the backlog, or more bytes than one buffer, one accept
and one recv per edge leave the rest waiting for the next edge; a FIN that
arrives with data is not seen until something else arrives; descriptors are
never closed; sending to a client that has reset kills the process by SIGPIPE.
These are listed as hazards, and are the reason for the switch `Orderly`: with
it clients connect one by one, wait for each answer, and write no more than a
buffer at once.  What an orderly client still meets is in `ClientsServed` as an
exception: a message of exactly `EAGAIN` bytes is dropped (section 7), and a
client that comes after `MaxFd` descriptors were used waits in the backlog.
Events of writing are never added by the code, so the branch for them is absent.

### MPool (`lang_parser/ccalculator/mpool.c`, `mpool.h`)

`pool` is the chain of blocks (`last`, `failed`, `current`), the list `large`
of big allocations, and what the program holds: `live`, the regions cut off
the blocks, and `heap`, the results of malloc.  An address is a block and an
offset.  `mpool_alloc` is `mpool_alloc`, `mpool_nalloc` and `mpool_calloc`
(with and without alignment), small or large; `mpool_memalign`, `mpool_free`,
`mpool_cleanup_add`, `mpool_reset` and `mpool_destroy` are theirs.  When malloc
refuses (no `Ptr` left, `MaxBlocks` reached) the branch of the code for NULL is
taken, including the one in which the node cannot be allocated after the
memory was.  Room that `mpool_alloc_small` compares is a `size_t` and wraps
at `SizeT`.

### Game2048 (`game/2048.c`)

`board` maps cells to tiles; the four lists of nodes of an edge become `Edge`.
`gb_merge_node`, `gb_merge_part_edge`, `gb_merge_edge` and `gb_merge` are
operators with the names of the source, `gb_update` puts a two on any free cell
(which covers the three random tries and the walk that follows them), and
`process_signal`, `Move`, `OtherKey` and `console_handler` are the loop of
`main`, its keys and SIGINT.

### HashTable (`ds/hashtable/hash_table.c`)

`chain` has the nodes of every bucket, the first of them the one inside the
bucket array.  `map_insert`, `map_search`, `map_delete` and `map_free` are
theirs.  `plain` is history: the map a reader of the comments expects.  The
loops look at `node->next`, so the first node is never compared.  `FindsLatest`
says that a search finds what the plain map has, which the comment of line 54
and the calls of `main` expect and which does not hold (section 7);
`FoundBehindFirst` says it of all keys but the first one of their bucket.

### SkipList (`ds/skip_list/skip_list.c`, `skip_list.h`)

`next[l][n]` is the link of node n on level l; score and element are one rank.
`update` is the array of the search, `NewLinks` the loop that links a node, and
`_skip_list_del` does what the code does, which leaves every link as it was:
line 113 assigns a local.  `DeletedIsUnlinked` is what the deletion is for, and
does not hold (section 7).  When the caller had the node freed, two things may
follow.  The next search that passes it reads freed memory (`UsesFreed`); or
`calloc` hands its address out for the next node (`skip_list_insert` takes a
fresh address or one of `freed`), which is then linked in two places.  Either
sets `wild`, and the model follows the program no further: from there a search
may find any order or go round in a circle.  `ListIntact` speaks about the time
before a node was freed.

### QuickSort (`ds/sort/quick_sort.c`)

An iteration of either scan is a step; the recursion is the stack `parts`, `lo`,
`hi`, `i`, `j` and `pivot` are the locals of the running call, and `input` is
the array as the caller gave it.  The numbers are `Element`, `MaxLen` bounds
the arrays.

### CLexer and CParser (`lang_parser/ccalculator/`)

`Scan` is the loop of `tokenize`, with `convert_int`, `TypeOf` (the type of a
literal from base, suffix and size, over an `int` and a `long` of parameter
width), `NumberEnd` and `read_punct`; strtoul and strtold are external.  Its
outcomes include what goes wrong: an unfinished comment, an invalid number, and
the loop over a line comment that leaves a text without a newline.  Some things
it takes or refuses are not C's, and `LexesAsC` speaks only of whole numbers
that are C's: a second `0x` is accepted, `08` becomes a floating number, `5LL`
and some mixtures of cases are no suffixes.  `strtoul` skips blanks, takes a
sign, and reads as many digits as come, whether they belong to the token or not.
Behind a prefix that is followed by a digit this is of no consequence; but a
lone 0 is a prefix too, so that in `0+7` or `0` and `7` on two lines the 0 is no
integer any more, and `0x+7` ends the program (section 7).  `LexesAsC` excepts
the value and type of such a 0 (`ReadsOn`).

`CParser` has one level per function of the descent: `once` for those whose loop
has no `continue` (shift to logor), `more` for the two that loop, `unary`,
`primary`, `conditional` and `expr`.  `compute` and its division by zero, shifts
and truncation of literals to `int` (`new_num`) are modelled at parameter
widths.  `Derive` is the grammar in the comment (lines 36-80), as far as there
is code for it.  The code differs from it in three ways (section 7): an operator
below the sums is taken once per level, in the order of the code (`ChainsParse`,
which does not hold); a prefix `+` recurses for ever; and the other prefixes
take a whole product.  `a ? : b` is not supported.  `FollowsTheGrammar` says
what holds: all that is accepted is of the grammar, all that does not run into
the first two is accepted, and all that does not run into the third has its
value.

### Calculator (`lang_parser/calculator/calculator.c`)

A line is a sequence of tokens and blanks.  A state of the parser is the place in
the line, `obj.value` and the value so far; `next` passes over blanks, and
`first_priority` to `third_priority` are theirs.  `Skipped` looks at the first
characters, blanks among them, as `main` does.  A character that is no token
becomes an index into `tokens` behind its end (`ReadBehindTable`): what is found
there is not followed.  A closing bracket where an operand is due is taken for
the number read last.  That contradicts the rules of lines 16-22
(`OperandFollows`, which does not hold, section 7); and a line of blanks ends the
program.  `PrintsTheValue` is about the lines in
which no bracket closes before its operand.

### AstParser (`lang_parser/ast/main.cpp`)

One operator per parse function, and `MainLoop` with the three handlers, which
skip a token after an error.  `gettok` is reduced to the kinds of tokens.

### Ping (`network/ping/packet_ping2.c`)

`stage` is the place in `main`; `queue` is the packet socket, open from before
the first request, which every frame of the interface reaches.  The network is
external: replies come late, twice or never, and foreign frames at any time.
The frame that is sent is built byte by byte with the two checksums, because a
wrong sum is indistinguishable from silence.  The reply of any host, to any
request, is taken for the answer; each ignored frame, and each signal, starts
the timeout anew, so that the wait of line 313 is not bounded by `timeout`
(section 7).

### Probe (`network/probe_network.c`)

`fd` has the sockets in the order they are connected, `datas` the record of each
host, shared by its ports.  Hosts and epoll are external.  `subnet_range` is
unsigned and wraps for a prefix of all bits, as in the code; a range that does
not fit the arrays ends in `Overruns`, since what follows is undefined.  Of a
host several of whose ports answer only the last one is printed, and what the
others sent is lost: `ReportsWhatSpoke` says that what is printed is true, and
complete for the last ports only.

### EventFd (`other/eventfd/eventfd.c`)

`counter` and `edge` are the eventfd and its place in epoll's ready list,
`reader` and `writer` the two threads.  `start_flag` is neither atomic nor
locked, so a build may read it once before the loop of `main` or in every round:
`rereads` is chosen at the start, and without it `main` may never write.

## 4. Runs

| Run | Bounds | What it shows |
|---|---|---|
| `list_timer` | 2 adders, 2 readers, 3 addresses, 3 timers, clock to 3 | `SortedList`, `NoDanglingLink`, `NeverEarly`, `FireInOrder`, and the refinement of `TimerQueue` |
| `dict` | 3 keys, 2 values, tables of 1, 2 and 4 buckets | `KeysInPlace`, `CountsMatch`, `RehashFrontier`, `GrowthKeepsUp`, `RehashProgress`, and the refinement of `KeyValueMap` |
| `dict_walk` | 3 keys, 1 value, one iterator or one scan at a time | `IteratesOnce`, `IteratorInPlace` (with the pause count), `ScanComplete`, `CursorGoesUp` |
| `dict_iterator_empty` | as above, with `dictEmpty` during an iteration | a violation of `PauseNotNegative` (section 7) |
| `echo_server` | 3 clients, 3 connections (the listener has one), messages of 3 bytes against a buffer of 2 | `PoolExact`, `ActiveIsRegistered`, `EchoesNoMore`, `OwnEvents` |
| `echo_server_again` | 1 client, EAGAIN = 1 | a violation of `ReadyClearedOnAgain` (section 7) |
| `sequential_programs` | 3 keys in 4 buckets; 4 nodes on 2 levels, 2 ranks, 2 deletions; arrays of up to 5 of 3 numbers; lines of up to 5 tokens and blanks; texts of up to 5 of 11 characters, `int` of 3 and `long` of 6 bits; two operators and more, and spoiled expressions; programs of two items; a pool of up to 4 blocks of 6 units with headers of 4 and 2, 2 results of malloc, 1 cleanup; a board of 3 by 3, score to 24 | `FoundBehindFirst`, `ListIntact`, `Sorts`, `TypeOK`, `Disjoint`, `LargeOwned`, `CurrentFirst`, `Accounting`, `MovesReduce`, `NeverDead`, `PrintsTheValue`, `LexesAsC`, `FollowsTheGrammar`, `ParsesTheGrammar` |
| `hash_update`, `skip_delete`, `calc_operand`, `parser_chain` | as above, each with one of the programs | violations of `FindsLatest`, `DeletedIsUnlinked`, `OperandFollows`, `ChainsParse` (section 7) |
| `waiting_programs` | 3 tries of 2 ticks, a queue of 2 frames; addresses of 3 bits, 2 ports, 6 array entries, 3 waits; an eventfd that holds 3; 2 adders, 2 readers, 2 addresses, 2 timers, clock to 2; 3 orderly clients, 1 connection for them, 2 descriptors, EAGAIN = 1, a buffer of 2, messages of 1 and 2 bytes | `SilenceIsTrue`, `ReportsWhatSpoke`, `WakeupsExact`, and under fairness `PingEnds`, `EveryWriteRead`, `EveryTimerFires`, `ClientsServed` |

Why these bounds are enough to be of interest.  In `list_timer` three nodes
are the fewest that have a middle, which the content swap needs, and a fourth
timer would only reuse addresses once more; offsets include a negative one, so
a timer may go in front of all others.  In `dict` the keys collide in tables of
one and two buckets and come apart in four, with an empty bucket between, so
every rehashing both splits chains and skips buckets (the limit of empty
buckets is 2); tables grow and shrink.  In `dict_walk` one key is alone and two
share a bucket, so an iterator has a saved next entry to lose.  In
`echo_server` two clients fill the pool and the third is refused or gets an
entry that was freed earlier in the same batch; a message takes two reads.

In `sequential_programs` a block of the pool has room for one or two
allocations, so blocks fill, fail more often than `FailLimit` and are passed
over, and the two nodes of large allocations are scanned, missed and reused.  An
edge of three holds every combination of equal, unequal and missing neighbours,
and boards get full and stuck.  Two keys share a bucket and one is alone; a node
of two levels lies among others of the same rank; arrays of five leave both
parts of a split something to sort, with equal values; words of 3 and 6 bits put
every boundary of a literal's type within three digits; and expressions have two
operators of every pair of levels, with brackets, prefixes and choices around
them.

In `waiting_programs` a reply can be late for its own try and for the next one,
the queue can be full, both ports of two hosts speak in any order, the largest
subnets overrun the arrays and the smallest wrap, and the eventfd can be full.
Both timers may get the same address.  A client of the echo server is
refused or gets the connection that another one gave back, sends several
messages, of `EAGAIN` bytes and of a full buffer among them, while the next one
connects, and the third may find no descriptor.  Clients are alike, so they
connect in the order of their names (`InTurn`), and the pool starts with one of
its entries.

`SYMMETRY` is used for threads, addresses and values that the definitions do
not tell apart, and only in runs without liveness.  `CHECK_DEADLOCK FALSE`
stands where the system may stop: a server that was killed or gave up at its
start, a destroyed pool, a game that was left, a program that has ended.

Each property of a passing run has a mutant of a mapped definition (defined
above it, marked `mutant:`) under which the run fails.

## 5. Fairness

Only `MCWaiting` assumes fairness; it says of each program what its loops and
the scheduler give.

The timers: the clock advances; a thread that is past the lock keeps running;
and of the readers, which come back to the mutex forever, some one gets it in
the end (strong fairness of the readers together, because adders compete).
Nothing makes an adder add.  It is not assumed that each reader gets its turn.

The echo server: weak fairness of the server as a whole, which is one loop.
Clients are never obliged to do anything; `ClientsServed` speaks about what
they have done, with the two exceptions of section 3.  The events of epoll come
in the order of its ready list, so no further assumption is made about them.

Ping is one process that keeps running, its clock advances while nothing is in
the queue, and the reading thread of eventfd is scheduled (weak fairness of
each).  Nothing is assumed of the network, of signals, or of the writing thread.
`PingEnds` (`EndsUnlessBusy`) therefore has an exception for frames or signals
that never cease, which the code has too.

## 6. Proofs

The theorems of a module follow from its inductive invariant, which was checked
with TLC on the instances of section 4 before it was proved.  The assumptions
are those named in the modules of the models; TLC evaluates them in every run.

**ListTimerProofs** proves, for any number of threads, addresses and timers,
`Spec => []IInv` and from it `TypeOK`, `SortedList`, `NoDanglingLink` and
`NeverEarly`.  Assumptions: adders and readers are disjoint, `NULL` is no
address, offsets are integers.  Sortedness is not inductive by itself.  The
invariant adds who owns the mutex (`MutexOwner`: only one thread is between
lock and unlock), what the locals of a thread say about its place
(`LocalsMatchPC`), that no address is in two hands (`SingleOwner`), that the
list has no dangling or shared link (`NoDanglingLink`), and that a walking
adder has only passed timers that expire no later (`WalkedPast`): without this
the swap would put a timer in front of an earlier one.  There is one lemma per
action that touches the heap, and each says which links changed.

On top of it `OrderInv` says that some sequence of nodes is spelled by the
links, holds exactly the linked nodes, and is in the order of expiry and, among
equals, of insertion; that there is only one such sequence makes `Chain` a
function of the state.  From it follow `FiresInOrder` (`FireInOrder`: when a
timer fires, no timer added before it that expires no later is in the list) and
`Implements`, the refinement of `TimerQueue`: the step that links a node inserts
its timer behind all that expire no later, the removal takes the head,
everything else stutters.

**DictProofs** proves for every set of keys, hash function, table sizes, ratio,
batch and limit of empty buckets that `Dict` refines `KeyValueMap`
(`ImplementsMap`), and `KeysInPlace`, `CountsMatch`, `RehashFrontier`,
`RehashProgress` and `TypeOK`.  The invariant is `Good(d)`: both tables hold
entries in their own buckets and count them, no key has two entries, and table
0 is empty below `rehashidx`, which stays inside the table while an entry is
left.  The operators have one lemma each that says what they do to the fields
(`MoveIs`, `ExpandIs`, `InsertIs`, ...) and one that they keep the dict good and
what becomes of its contents (`RoundOK`, `ExpandOKs`, `InsertOK`, ...); the map
is a function of the contents only (`MapOf`), so all rehashing is a stutter of
it.  That the search of `dictRehash` finds a least bucket is the
well-foundedness of the naturals (`Least`).  `RoomAssumption`, some table size is
above the number of keys, makes every expansion succeed (`NeverFails`); without
it `dictAdd` fails for want of room as if the key were there, which the map does
not do.

**DictUseProofs** proves `IteratesOnce` and `IteratorInPlace` for a dict
with a safe iterator (`WalkAssumption`: `None` is no key, one pause is allowed).
A pause freezes places (`Stays`): every call that the user may make between two
steps leaves the entries it does not delete in their table and bucket, because
no bucket is moved while `pauserehash` is not 0, and the new table of an
expansion is empty.  The invariant (`Walked`) orders places by table, then
bucket: what was returned is not ahead of the iterator, what stayed and is not
ahead was returned or is still pending in the saved chain, and what is pending
is in the bucket the iterator stands in.  The iterator holds exactly one of the
pauses while it is under way.

It also proves `GrowthKeepsUp`.  Powers of two double
(`PowerDoubles`, by counting the subsets of a set and of one with an element
more), so a growing table at least doubles (`Doubling`).  While `calm` holds, a
rehashing has at most `ht_size[0] + 1 + rehashidx` entries: each call that may
add one moves `rehashidx` first, so each bucket that was moved pays for one
entry that came in, and there are only `ht_size[0]` buckets.

Last it proves `ScanComplete` (`ReportsAll`) and `CursorGoesUp`
(`CursorAdvances`) of `dictScan`, from `CursorAssumption`: every size is a power
of two and the cursor has the bits of every mask.  `Num(v, n)` is the number
made of the lowest n bits of v in reversed order, `Rest(v, n)` what is left of v
(`LowBits`, `NextBits`, `TwiceReversed`).  In the order of reversed numbers the
keys of one bucket of a table of 2^e are a block of `Stride(e)` numbers, and a
block of a smaller table consists of blocks of a larger one (`BlocksOfBlocks`).
A step without a rehashing reports the block of the cursor and goes on to the
start of the next (`AdvanceStarts`); the loop of a rehashing goes from block to
block of the larger table and stops where the block of the smaller one ends
(`RoundCovers`, `LoopCovers`).  So every call reports the keys from its cursor
to the next one in reversed order, whatever the sizes are (`ScanReports`), and
the invariant needs no memory of earlier sizes: a key that stayed and lies
before the cursor has been reported (`ScanIInv`).  The recursive functions
`Shifts` and `Expansions` are handled by building them step by step
(`RoundsExist`) and by a least counterexample (`Climbing`).

**EchoServerProofs** proves, for any number of clients and connections and any
sizes, `TypeOK`, `PoolExact`, `ActiveIsRegistered`, `EchoesNoMore` and
`OwnEvents`, whatever clients send, whichever calls fail and whatever the value
of EAGAIN is.  Assumptions: connections are finitely many, names differ, the
sizes are natural numbers.  What the invariant adds: handlers fit their sockets
(`HandlerFits`), backlog and edges have no duplicates (`BacklogExact`,
`EdgesExact`), the bytes of a running handler are not answered yet
(`ReadNotEchoed`), and `BatchFresh`: every event left in a batch is about the
connection now registered for its socket.  That last part is a result of its
own: the check of the instance bit in line 557 never finds a stale event in this
server, since a connection is closed only by the handler of its own event.

**SequentialProofs** is about the three programs that keep data in order.

Quick sort, for arrays of integers of any length: every step keeps the numbers
and splits between the parts (`Sorts`), and a sort that has returned leaves the
array sorted (`ReturnsSorted`, `Sorted`).  Assumption: `Element` is a set of
integers.  The invariant: the parts to come and the running one lie side by side
(`PartsApart`, `CallFits`); two places that are in no common part are in order
(`InOrder`), which at the end is every two places; outside of the scans the
running part is on the right side of the pivot, whose place one of the scans
holds (`Scanned`); and each number occurs as often as at the start
(`SameNumbers`), an exchange being a bijection of its places (`SwapKeepsCount`).

The hash table, for any keys, values and hash function and more than one bucket
asked for: `FoundBehindFirst` (`SearchFinds`).  The invariant says of each
bucket what its chain is (`ChainOK`): its keys belong to the bucket; behind the
first node every key occurs at most once and holds the value last given, the key
of the first node too if it occurs again; and the map has no key of the bucket
that is not in the chain.

The skip list, for any ranks, number of nodes and levels: `ListIntact`
(`LevelsIntact`).  The invariant (`SkipIInv`) says that until a deletion has
freed its node, some numbering of the nodes spells every level: each link leads
to the next number that is on the level, and higher numbers have no lower rank
(`Placed`, `Linked`).  An insertion numbers the nodes anew; a deletion leaves
the numbering as it is.  The links backwards are only those of the order until
the first deletion (`LinkedBack`).  That time ends for good: a freed node, or a
wild program, never lets it begin again (`AllKept`).  Assumption: ranks are
integers.

**MPoolProofs** proves `TypeOK /\ Disjoint /\ LargeOwned` inductive, for every
block size, alignment, header, limit and number of blocks, and `CurrentFirst`
on top of it.  Assumptions, all stated in `MPool`: the alignment is positive, a
block has room for its header and a node, and sizes and headers are multiples
of the alignment.  The last one the code does not ask of the size given to
`mpool_create`; without it the aligned address may lie behind the end of the
block, and the unsigned difference is then huge.  `Disjoint` needs that `last`
never passes the end (the type invariant) and that an allocation starts at
`last` or above (`AlignmentArithmetic`, `AddRegion`, `CutSound`); `LargeOwned`
needs `Disjoint`, because nodes of the list are regions of the pool: two nodes
are different because two regions do not overlap.

**NetworkProofs** is about the three programs that wait.

The eventfd: `EfdSpec => []WakeupsExact` for any capacity, with no assumption:
together with `counter \in Nat` the property is inductive, and each thread has
its lemma.  The type (`EfdTypeOK`) needs a natural capacity.

The probe: `ReportsWhatSpoke`, for any prefix, number of ports and array size,
all positive (`ReportsTruly`).  The invariant says where the place in the
program puts the sockets and the records: sockets are in the order of hosts and
ports (`InOrderOfPorts`), the record of a host holds its last socket
(`RecordsLatest`), what is printed has spoken (`PrintedSpoke`), what the last
port of a host has said is printed or its event is still to come
(`LastPortPending`), and the waiting is over only when no event is left
(`Drained`).

Ping: `SilenceIsTrue` (`SilenceProved`), for any number of tries, any timeout
and queue and any payload of bytes, odd or even.  Since a frame with a wrong
checksum would be lost in silence, the theorem rests on two lemmas about the
sums: a header or message in which the computed sum is filled in sums up to all
ones (`HeaderVerifies`, `MessageVerifies`).  The rest of the invariant is that
the frame sent is one whose sums verify (`FrameMade`), that requests and tries
agree (`TriesCounted`), and that a reply that came in waits in the queue as long
as ping works (`ReplyWaits`).

**Game2048Proofs** proves for boards of every size above one `Accounting`,
`NeverDead` (`NeverOver`) and `MovesReduce` (`MovesByTheRule`), from
`SizeAssumption` alone.  `GameTypeOK`, `Accounting` and `NeverDead` together are
inductive.  The loops of the code are recursive functions over the nodes of an
edge or over the edges; that each is defined is shown by building it step by
step (`StepsExist`), and what it computes by a least counterexample
(`Climbing`).  Changing one cell changes the total of the board by the change of
the cell (`TotalAt`), so the score counts each merge and the tiles count what
was spawned.  `MovesReduce` compares the loops that push and merge in place with
the reduction of a sequence: after the first p tiles the edge holds their
reduction and then holes (`Shape`), and node i holds its last tile if that may
still merge.

**Only model-checked.**  All liveness (`EveryTimerFires`, `ClientsServed`,
`PingEnds`, `EveryWriteRead`): the prover does not reason about fairness or
ENABLED.  `LexesAsC`, `FollowsTheGrammar`, `ParsesTheGrammar` and
`PrintsTheValue` of the parsers are about what mutually recursive operators over
sequences compute, which needs induction over data; their modules declare
RECURSIVE operators.

## 7. Findings

* `dictEmpty` sets `pauserehash` to 0 (`dict.c:1059`) also while a safe iterator
  holds a pause.  When the iterator is released the count is -1, which
  `dict.h:88` calls a coding error, and calls take no rehashing step with them
  from then on (`_dictRehashStep` asks for 0; `dictRehashMilliseconds` asks
  whether the count is above 0, line 266, and still works).
  Run `dict_iterator_empty`.
* The echo handler compares the result of its recv with `EAGAIN` (11) where the
  function returns `ECHO_AGAIN` (-2) (`echo_server.c:617`).  A message of
  exactly 11 bytes is taken for "nothing to read": it is not answered, and its
  buffer is freed while the connection keeps the pointer.  Run
  `echo_server_again`, in which the number is 1.
* The first node of a bucket of the hash table is never updated or deleted
  (`hash_table.c:53-61`, `93-103`), although line 54 says of an insertion "we
  alrady have a same key-val, just update it" and `main` does both.  Run
  `hash_update`: the second value is put behind the first, which a search finds.
* `_skip_list_del` assigns the next link to a local variable
  (`skip_list.c:113`, under the comment "update next"): nothing is unlinked, the
  second deletion in `main` finds the node again, and the node is freed while it
  is linked.  Run `skip_delete`.
* In the calculator a closing bracket counts as an operand (`calculator.c:168`),
  against "op, number | (" of line 18: `0*)` prints a value.  Run
  `calc_operand`.
* The parser does not follow the grammar of its comment (`parser.c:42-80`): the
  levels below the sums have no `continue` and take each operator once, so
  `7^2^2` fails.  Run `parser_chain`.

The following the models have too, and the properties of section 3 except them;
no run is spent on showing them.

* The grammar again: a prefix `+` calls `mul` on itself without an end
  (`parser.c:226`), and a prefix takes the product behind it for its operand, so
  `~7*2` is `~(7*2)` (`parser.c:240`), where line 72 has "cast" for both.
* The calculator skips a line by its first character (`calculator.c:255`), so a
  line of blanks, which line 254 means to skip, ends the program; a comment
  behind blanks does, too.
* `convert_int` gives `strtoul` the text behind the prefix without its end
  (`token.c:83`): for the 0 of `0+7` it reads the 7, the ends differ, and the 0
  becomes a `long double`, though line 113 says this of floats and illegal
  numbers.
* `packet_ping2.c:313` promises to listen "for 'timeout' seconds"; the timeout
  is that of one `recvfrom` (line 321), and every ignored frame starts it again.
* Not a contradiction of any comment, but worth knowing: `NeverDead` holds, so
  the message "You Dead!!" of the game is unreachable.  A player whose board is
  stuck plays on.

## 8. Not modelled

`skip_list_find` is unfinished (it returns false and loops on the first node
that ranks below) and nothing calls it; `token_read_file` is not called by the
calculator's `main`.  `packet_ping.c` and `inet_ping.c` are shorter variants of
the ping that is modelled.  `loopback.c` is one straight-line function of the
kernel's; it reads `skb->len` after giving the buffer back (line 131), which is
visible in the text and has no state to model.  Left out for good, because
their behaviour is that of a library, the kernel or a generated program, or
because they have no state of their own: the bison languages, the packet
sniffers, tap and tun, the iptables listing, the domain lookup, the Lua, eBPF,
hyperscan, OpenSSL and libuv examples, the small examples under `other/`, the
loader, the assembly, and the kernel modules.  The vendored list macros,
SipHash and the random generator are taken as given; the hash function of the
dict is a constant of the model.
