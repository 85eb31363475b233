-------------------------------- MODULE Game2048 --------------------------------
(***************************************************************************)
(* game/2048.c: the board, the moves of the player and the loop of main.   *)
(*                                                                         *)
(* A cell is <<x, y>>, <<1, 1>> is left_top.  The random choice of a cell  *)
(* for a new tile is a choice among the free cells: all three tries may    *)
(* hit any cell, and the search that follows them also yields a free one.  *)
(***************************************************************************)
EXTENDS Integers, Sequences, SequencesExt

CONSTANTS
  BoardSize,  \* an option of the command line
  MaxScore    \* bound: no move that scores more

ASSUME SizeAssumption == BoardSize \in Nat /\ BoardSize > 1 /\ MaxScore \in Nat

VARIABLES
  board,      \* the number in each cell, 0 for none
  score,
  spawned,    \* tiles put on the board so far
  need_exit,  \* set by the handler of SIGINT and the key q
  turn        \* "signal", "read", then "exited" or "dead"

gameVars == <<board, score, spawned, need_exit, turn>>

Cells == (1 .. BoardSize) \X (1 .. BoardSize)
Free(b) == {c \in Cells : b[c] = 0}

(* gb_init_with_random: one tile in the upper half, one in the lower.      *)
GameInit ==
  /\ \E x0, x1 \in 1 .. BoardSize, y0 \in 1 .. BoardSize \div 2,
        y1 \in BoardSize \div 2 + 1 .. BoardSize :
       board = [c \in Cells |-> IF c \in {<<x0, y0>>, <<x1, y1>>} THEN 2 ELSE 0]
  /\ score = 0
  /\ spawned = 2
  /\ need_exit = FALSE
  /\ turn = "signal"

-------------------------------------------------------------------------------
(* A move.  m is the board and the score so far, whether anything moved,   *)
(* and whether the current node still takes more.                          *)

(* gops_tables: edge l of a move, from the side the tiles slide to.        *)
Edge(op, l) ==
  [k \in 1 .. BoardSize |->
     CASE op = "up"    -> <<l, k>>
       [] op = "down"  -> <<l, BoardSize + 1 - k>>
       [] op = "left"  -> <<k, l>>
       [] op = "right" -> <<BoardSize + 1 - k, l>>]

(* mutant: the score is the number before the merge. *)
MergeNodeScoresHalf(m, node, second) ==
  LET equal == m.board[node] = m.board[second]
  IN  IF m.board[node] = 0 \/ equal
      THEN [board |-> [m.board EXCEPT ![node] = @ + m.board[second], ![second] = 0],
            score |-> m.score + (IF equal THEN m.board[node] ELSE 0),
            merge |-> TRUE, takes |-> TRUE]
      ELSE [m EXCEPT !.takes = FALSE]

(* mutant: a tile that slid to a free node takes no other. *)
MergeNodeSlidesLast(m, node, second) ==
  LET equal == m.board[node] = m.board[second]
  IN  IF m.board[node] = 0 \/ equal
      THEN [board |-> [m.board EXCEPT ![node] = @ + m.board[second], ![second] = 0],
            score |-> m.score + (IF equal THEN 2 * m.board[node] ELSE 0),
            merge |-> TRUE, takes |-> equal]
      ELSE [m EXCEPT !.takes = FALSE]

gb_merge_node(m, node, second) ==
  LET equal == m.board[node] = m.board[second]
  IN  IF m.board[node] = 0 \/ equal
      THEN [board |-> [m.board EXCEPT ![node] = @ + m.board[second], ![second] = 0],
            score |-> m.score + (IF equal THEN 2 * m.board[node] ELSE 0),
            merge |-> TRUE, takes |-> TRUE]
      ELSE [m EXCEPT !.takes = FALSE]

(* The node takes the tiles behind it, free cells skipped, until one does  *)
(* not match.                                                              *)
gb_merge_part_edge(m, edge, i) ==
  LET part[k \in 0 .. BoardSize] ==
        IF k = 0 THEN [m EXCEPT !.takes = TRUE]
        ELSE LET r == part[k - 1]
             IN  IF k > i /\ r.takes /\ r.board[edge[k]] # 0
                 THEN gb_merge_node(r, edge[i], edge[k]) ELSE r
  IN  part[BoardSize]

gb_merge_edge(m, edge) ==
  LET merged[i \in 0 .. BoardSize] ==
        IF i = 0 THEN m ELSE gb_merge_part_edge(merged[i - 1], edge, i)
  IN  merged[BoardSize]

gb_merge(b, s, op) ==
  LET merged[l \in 0 .. BoardSize] ==
        IF l = 0 THEN [board |-> b, score |-> s, merge |-> FALSE, takes |-> TRUE]
        ELSE gb_merge_edge(merged[l - 1], Edge(op, l))
  IN  merged[BoardSize]

Ops == {"up", "down", "left", "right"}

(* mutant: a new tile even if nothing moved. *)
UpdateAlwaysSpawns(op) ==
  LET m == gb_merge(board, score, op)
  IN  /\ m.score <= MaxScore
      /\ score' = m.score
      /\ IF Free(m.board) = {}
            THEN board' = m.board /\ spawned' = spawned /\ turn' = "dead"
         ELSE \E c \in Free(m.board) :
                /\ board' = [m.board EXCEPT ![c] = 2]
                /\ spawned' = spawned + 1
                /\ turn' = "signal"

(* After a move that changed something, a tile in a free cell; it is over  *)
(* if there is none.                                                       *)
gb_update(op) ==
  LET m == gb_merge(board, score, op)
  IN  /\ m.score <= MaxScore
      /\ score' = m.score
      /\ IF ~ m.merge
            THEN board' = m.board /\ spawned' = spawned /\ turn' = "signal"
         ELSE IF Free(m.board) = {}
            THEN board' = m.board /\ spawned' = spawned /\ turn' = "dead"
         ELSE \E c \in Free(m.board) :
                /\ board' = [m.board EXCEPT ![c] = 2]
                /\ spawned' = spawned + 1
                /\ turn' = "signal"

-------------------------------------------------------------------------------
(* main *)

process_signal ==
  /\ turn = "signal"
  /\ turn' = IF need_exit THEN "exited" ELSE "read"
  /\ UNCHANGED <<board, score, spawned, need_exit>>

(* read waits through a signal.                                            *)
Move(op) ==
  /\ turn = "read"
  /\ gb_update(op)
  /\ UNCHANGED need_exit

(* Any other key is skipped; q also asks for the end. *)
OtherKey(q) ==
  /\ turn = "read"
  /\ turn' = "signal"
  /\ need_exit' = (need_exit \/ q)
  /\ UNCHANGED <<board, score, spawned>>

console_handler ==
  /\ turn \in {"signal", "read"}
  /\ need_exit' = TRUE
  /\ UNCHANGED <<board, score, spawned, turn>>

GameNext ==
  \/ process_signal
  \/ \E op \in Ops : Move(op)
  \/ \E q \in BOOLEAN : OtherKey(q)
  \/ console_handler

GameSpec == GameInit /\ [][GameNext]_gameVars

-------------------------------------------------------------------------------

SumOf(v) ==
  LET s[n \in 0 .. BoardSize] == IF n = 0 THEN 0 ELSE s[n - 1] + v[n]
  IN  s[BoardSize]

Total(w) == SumOf([x \in 1 .. BoardSize |-> SumOf([y \in 1 .. BoardSize |-> w[<<x, y>>]])])

(* Every tile is a power of two, and there is always one.                  *)
Tile == {n \in Nat : n = 0 \/ \E e \in 1 .. n : 2 ^ e = n}

GameTypeOK ==
  /\ board \in [Cells -> Tile] /\ Free(board) # Cells
  /\ score \in Nat /\ spawned \in Nat
  /\ need_exit \in BOOLEAN
  /\ turn \in {"signal", "read", "exited", "dead"}

(* The tiles add up to all the twos put on the board, and the score is     *)
(* what it takes to build them: a tile of 2^e was merged from two halves,  *)
(* each merge for its own number, so it is worth 2^e * (e - 1).            *)
Worth(n) == IF n = 0 THEN 0 ELSE n * ((CHOOSE e \in 1 .. n : 2 ^ e = n) - 1)

Worths(b) == [c \in Cells |-> Worth(b[c])]

Accounting ==
  /\ Total(board) = 2 * spawned
  /\ score = Total(Worths(board))

(* What a move makes of an edge, said of the tiles alone: each one doubles *)
(* the last one kept if it equals it (so 2 2 4 becomes 8) and is kept      *)
(* behind it otherwise.                                                    *)
Reduced(tiles) ==
  LET kept[k \in 0 .. BoardSize] ==
        IF k = 0 THEN <<>>
        ELSE LET r == kept[k - 1]
                 n == tiles[k]
             IN  IF n = 0 THEN r
                 ELSE IF r # <<>> /\ Last(r) = n THEN [r EXCEPT ![Len(r)] = 2 * n]
                 ELSE Append(r, n)
  IN  kept[BoardSize]

MovesReduce ==
  turn = "read" =>
    \A op \in Ops :
      LET moved == gb_merge(board, score, op).board
      IN  \A l \in 1 .. BoardSize :
            LET edge == Edge(op, l)
                kept == Reduced([k \in 1 .. BoardSize |-> board[edge[k]]])
            IN  \A k \in 1 .. BoardSize :
                  moved[edge[k]] = IF k <= Len(kept) THEN kept[k] ELSE 0

(* main prints "You Dead!!" when a move leaves no cell for the new tile.   *)
(* It never does: a move that changes something frees a cell, and one that *)
(* does not adds no tile, so a player who is stuck plays on.               *)
NeverDead == turn # "dead"
===============================================================================
