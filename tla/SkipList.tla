-------------------------------- MODULE SkipList --------------------------------
(***************************************************************************)
(* The skip list, ds/skip_list/skip_list.c and skip_list.h.  Nodes are     *)
(* numbered as their addresses are first handed out; 0 is the header, and  *)
(* Nil is NULL.  Score and element of a node are one rank, since they are  *)
(* compared one after the other.  The allocator may hand out the address   *)
(* of a freed node again: as a deletion unlinks nothing, that node is then *)
(* linked in two places, a search may never end, and the model follows the *)
(* program no further.                                                     *)
(***************************************************************************)
EXTENDS Integers, FiniteSets

CONSTANTS
  Rank,       \* pairs of score and element, in their order
  MaxNodes,   \* bound on addresses
  MaxDeletions,  \* bound on deletions
  MaxLevel    \* ZSKIPLIST_MAXLEVEL

ASSUME SkipAssumption ==
  /\ Rank \subseteq Int
  /\ MaxNodes \in Nat /\ MaxLevel \in Nat \ {0}

Nil == -1
Header == 0
Node == 1..MaxNodes

VARIABLES
  next,       \* next[l][n]: level[l-1].next of node n
  prev, rank, height,
  tail, level, length,
  made,       \* addresses handed out so far
  freed,      \* nodes given back to malloc, and not handed out again
  deletions,  \* history: how many calls of skip_list_del found their node
  deleted,    \* history: the nodes they found
  wild        \* freed memory was read, or handed out while it was linked

skipVars ==
  <<next, prev, rank, height, tail, level, length, made, freed, deletions, deleted, wild>>

skip_list_create ==
  /\ next = [l \in 1..MaxLevel |-> [n \in {Header} \cup Node |-> Nil]]
  /\ prev = [n \in Node |-> Nil]
  /\ rank = [n \in Node |-> 0]
  /\ height = [n \in Node |-> 0]
  /\ tail = Nil /\ level = 1 /\ length = 0 /\ made = 0
  /\ freed = {} /\ deletions = 0 /\ deleted = {} /\ wild = FALSE

(* The last node on level l that ranks below r, and the nodes looked at.   *)
LastBelow(l, from, r) ==
  LET Walk[n \in {Header} \cup Node] ==
        IF next[l][n] # Nil /\ rank[next[l][n]] < r THEN Walk[next[l][n]] ELSE n
  IN Walk[from]

Seen(l, from, r) ==
  LET Walk[n \in {Header} \cup Node] ==
        IF next[l][n] = Nil THEN {}
        ELSE {next[l][n]} \cup IF rank[next[l][n]] < r THEN Walk[next[l][n]] ELSE {}
  IN Walk[from]

(* update[i]: the search goes down from the level of the list. *)
update(r) ==
  LET At[l \in 1..(MaxLevel + 1)] ==
        IF l > level THEN Header ELSE LastBelow(l, At[l + 1], r)
  IN At

(* Every level continues where the one above it stopped. *)
ReadBySearch(r) == UNION {Seen(l, update(r)[l + 1], r) : l \in 1..level}

(* mutant: the topmost level of the new node is forgotten *)
NewLinksLow(n, h, r) ==
  [l \in 1..MaxLevel |->
     IF l >= h THEN next[l]
     ELSE [next[l] EXCEPT ![n] = next[l][update(r)[l]], ![update(r)[l]] = n]]

NewLinks(n, h, r) ==
  [l \in 1..MaxLevel |->
     IF l > h THEN next[l]
     ELSE [next[l] EXCEPT ![n] = next[l][update(r)[l]], ![update(r)[l]] = n]]

(* calloc gives an address that was never used, or that of a freed node. *)
Fresh == {made + 1} \cap Node

(* random_level gives any level from 1 to MaxLevel.  The new node is n. *)
skip_list_insert(r, h, n) ==
  /\ ~wild
  /\ ReadBySearch(r) \cap freed = {}
  /\ LET before == update(r)[1]
         after == next[1][before]
     IN /\ next' = NewLinks(n, h, r)
        /\ rank' = [rank EXCEPT ![n] = r]
        /\ height' = [height EXCEPT ![n] = h]
        /\ prev' = [m \in Node |->
                      CASE m = n -> IF before = Header THEN Nil ELSE before
                        [] m = after -> n
                        [] OTHER -> prev[m]]
        /\ tail' = IF after = Nil THEN n ELSE tail
        /\ level' = IF h > level THEN h ELSE level
        /\ length' = length + 1
  /\ made' = IF n \in freed THEN made ELSE n
  /\ wild' = (n \in freed)
  /\ freed' = freed \ {n}
  /\ deleted' = deleted \ {n}
  /\ UNCHANGED deletions

(* The assignment of line 113 goes to a local variable: no link changes.   *)
(* The block of lines 120-122 runs in either case, for want of an else.    *)
_skip_list_del(n) ==
  /\ prev' = IF next[1][n] = Nil THEN prev ELSE [prev EXCEPT ![next[1][n]] = prev[n]]
  /\ tail' = prev[n]
  /\ level' = CHOOSE l \in 1..level :
                /\ l = 1 \/ next[l][Header] # Nil
                /\ \A m \in (l + 1)..level : next[m][Header] = Nil
  /\ length' = length - 1
  /\ UNCHANGED <<next, rank, height, made>>

(* The node a deletion finds; it touches the one behind it as well. *)
Target(r) == next[1][update(r)[1]]
Hit(r) == Target(r) # Nil /\ rank[Target(r)] = r
TouchedBy(r) == ReadBySearch(r) \cup IF Hit(r) THEN {next[1][Target(r)]} ELSE {}

(* The caller either has the node freed or takes it. *)
skip_list_del(r, take) ==
  /\ ~wild
  /\ TouchedBy(r) \cap freed = {}
  /\ Hit(r)
  /\ deletions < MaxDeletions
  /\ _skip_list_del(Target(r))
  /\ freed' = IF take THEN freed ELSE freed \cup {Target(r)}
  /\ deletions' = deletions + 1
  /\ deleted' = deleted \cup {Target(r)}
  /\ UNCHANGED wild

(* A call that meets a node that was freed and is still linked. *)
UsesFreed(r) ==
  /\ ~wild
  /\ TouchedBy(r) \cap freed # {}
  /\ wild' = TRUE
  /\ UNCHANGED <<next, prev, rank, height, tail, level, length, made, freed,
                 deletions, deleted>>

SkipNext ==
  \/ \E r \in Rank, h \in 1..MaxLevel, n \in Fresh \cup freed : skip_list_insert(r, h, n)
  \/ \E r \in Rank, take \in BOOLEAN : skip_list_del(r, take)
  \/ \E r \in Rank : UsesFreed(r)

(* The nodes of a level, from the header on, and whether m comes after n.  *)
After(l, n) ==
  LET Rest[m \in {Header} \cup Node] ==
        IF next[l][m] = Nil THEN {} ELSE {next[l][m]} \cup Rest[next[l][m]]
  IN Rest[n]

(* What a deletion is for: "update next" (line 109), and the second        *)
(* deletion of one element in main (lines 227-232) that is to find         *)
(* nothing.  It does not hold: line 113 assigns the local next and never   *)
(* the link, so that the node stays on all its levels, freed or not.       *)
DeletedIsUnlinked ==
  ~wild => \A l \in 1..MaxLevel : After(l, Header) \cap deleted = {}

(* As long as no deletion has freed its node: every level is in order of   *)
(* rank and holds all nodes of its height that were not deleted, in the    *)
(* order they have on the level below, so that a search which goes down a  *)
(* level passes none of them by (lines 62-72, 88-92).  Until the first     *)
(* deletion the list can also be walked backwards from its tail, and       *)
(* length counts it (lines 94-103).  Once a node is freed, nothing is      *)
(* claimed: it is still linked, and is read or handed out again.           *)
ListIntact ==
  ~wild /\ freed = {} =>
    /\ \A l \in 1..MaxLevel :
         /\ {n \in (1..made) \ deleted : height[n] >= l} \subseteq After(l, Header)
         /\ \A n \in After(l, Header) : \A m \in After(l, n) :
              rank[n] <= rank[m] /\ m \in After(1, n)
         /\ l > level => After(l, Header) = {}
    /\ deletions = 0 =>
         /\ length = Cardinality(After(1, Header))
         /\ \A n \in 1..made :
              IF next[1][n] = Nil THEN tail = n ELSE prev[next[1][n]] = n
         /\ made > 0 => prev[next[1][Header]] = Nil
================================================================================
