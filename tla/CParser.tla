-------------------------------- MODULE CParser --------------------------------
(***************************************************************************)
(* The expressions of the ccalculator: recursive descent (parser.c), the   *)
(* value of the tree (compute) and main (calculator.c).  The tokens of a   *)
(* program are strings; a number is a token of Digits.  A tree is a        *)
(* sequence of its kind and its parts.                                     *)
(***************************************************************************)
EXTENDS Integers, Sequences, SequencesExt, FiniteSets, Bitwise

CONSTANTS
  Digits,      \* number tokens
  Literal,     \* val and fval of each, as the lexer sets them
  IntBits,     \* width of an int
  Bits,        \* width of an int64_t
  Programs     \* the inputs: sequences of tokens

VARIABLES
  asked,       \* history: the tokens of the program, without the last, EOF
  tree,        \* what parser returned; <<>> if the process died instead
  printed      \* the set of the value printed; {} if the process died

parserVars == <<asked, tree, printed>>

ParserInit == asked = <<>> /\ tree = <<>> /\ printed = {}

-----------------------------------------------------------------------------
(* A state of the parser is the token it is at and the tree it has built.  *)
(* Dead: error_log, a NULL that skip returned, or a recursion without end. *)
Dead == [at |-> 0, node |-> <<>>]
Advance(p) == [p EXCEPT !.at = @ + 1]
equal(s, p, op) == p # Dead /\ s[p.at] = op
skip(s, p, op) == IF equal(s, p, op) THEN Advance(p) ELSE Dead
With(p, t) == IF p = Dead THEN Dead ELSE [p EXCEPT !.node = t]

Wrap(x, w) == ((x + 2^(w - 1)) % 2^w) - 2^(w - 1)
new_num(d) == <<"num", Wrap(Literal[d].val, IntBits), Literal[d].fval>>
new_binary(op, l, r) ==
  CASE op = ">" -> <<"<", r, l>>
    [] op = ">=" -> <<"<=", r, l>>
    [] OTHER -> <<op, l, r>>

(* The levels from || down to the shifts try each of their operators once, *)
(* in this order: a loop without continue (lines 296-461).                 *)
Once == << <<"||">>, <<"&&">>, <<"|">>, <<"^">>, <<"&">>, <<"==", "!=">>,
           <<"<", "<=", ">", ">=">>, <<"<<", ">>">> >>
Loops == << {"+", "-"}, {"*", "/", "%"} >>
Mul == Len(Once) + 2
Prefix == {"-", "!", "~"}

RECURSIVE binary(_, _, _), more(_, _, _), conditional(_, _), expr(_, _)

primary(s, p) ==
  CASE s[p.at] = "(" -> skip(s, expr(s, Advance(p)), ")")
    [] s[p.at] \in Digits -> With(Advance(p), new_num(s[p.at]))
    [] OTHER -> Dead

(* A prefix takes a whole product for its operand; "+" calls mul on the    *)
(* same token again, for ever.                                             *)
unary(s, p) ==
  CASE s[p.at] = "+" -> Dead
    [] s[p.at] \in Prefix ->
         LET q == binary(Mul, s, Advance(p)) IN With(q, <<s[p.at], q.node>>)
    [] OTHER -> primary(s, p)

Operand(l, s, p) ==
  IF p = Dead THEN Dead ELSE IF l = Mul THEN unary(s, p) ELSE binary(l + 1, s, p)

Take(l, s, p) ==
  LET q == Operand(l, s, Advance(p)) IN With(q, new_binary(s[p.at], p.node, q.node))

(* The loops of mul and add. *)
more(l, s, p) ==
  IF p = Dead \/ s[p.at] \notin Loops[l - Len(Once)] THEN p ELSE more(l, s, Take(l, s, p))

(* mutant: the operators of a level in the opposite order *)
once_reversed(l, s, p) ==
  FoldRight(LAMBDA op, q : IF equal(s, q, op) THEN Take(l, s, q) ELSE q, Once[l], p)

once(l, s, p) ==
  FoldLeft(LAMBDA q, op : IF equal(s, q, op) THEN Take(l, s, q) ELSE q, p, Once[l])

binary(l, s, p) ==
  IF l > Len(Once) THEN more(l, s, Operand(l, s, p)) ELSE once(l, s, Operand(l, s, p))

conditional(s, p) ==
  LET cond == binary(1, s, p)
      then == IF equal(s, cond, "?") THEN expr(s, Advance(cond)) ELSE Dead
      colon == skip(s, then, ":")
      els == IF colon = Dead THEN Dead ELSE conditional(s, colon)
  IN IF equal(s, cond, "?") THEN With(els, <<"?", cond.node, then.node, els.node>>) ELSE cond

expr(s, p) ==
  LET l == conditional(s, p)
      r == expr(s, Advance(l))
  IN IF equal(s, l, ",") THEN With(r, <<",", l.node, r.node>>) ELSE l

(* The assertion that everything was read; the tree, if the process lives. *)
parser(s) ==
  LET p == expr(Append(s, "EOF"), [at |-> 1, node |-> <<>>])
  IN IF equal(Append(s, "EOF"), p, "EOF") THEN p.node ELSE <<>>

-----------------------------------------------------------------------------
(* Values.  Division by zero kills the process: there is no value then.    *)
Truth(b) == IF b THEN 1 ELSE 0
Quotient(a, b) ==
  LET abs(x) == IF x < 0 THEN -x ELSE x
  IN (abs(a) \div abs(b)) * Truth((a < 0) = (b < 0)) - (abs(a) \div abs(b)) * Truth((a < 0) # (b < 0))
Unsigned(x) == x % 2^Bits

Do(op, a, b) ==
  CASE op = "+" -> {a + b}
    [] op = "-" -> {a - b}
    [] op = "*" -> {a * b}
    [] op = "/" -> IF b = 0 THEN {} ELSE {Quotient(a, b)}
    [] op = "%" -> IF b = 0 THEN {} ELSE {a - b * Quotient(a, b)}
    [] op = "<<" -> {a * 2^(b % Bits)}
    [] op = ">>" -> {a \div 2^(b % Bits)}
    [] op = "&" -> {Unsigned(a) & Unsigned(b)}
    [] op = "|" -> {Unsigned(a) | Unsigned(b)}
    [] op = "^" -> {Unsigned(a) ^^ Unsigned(b)}
    [] op = "<" -> {Truth(a < b)}
    [] op = "<=" -> {Truth(a <= b)}
    [] op = ">" -> {Truth(a > b)}
    [] op = ">=" -> {Truth(a >= b)}
    [] op = "==" -> {Truth(a = b)}
    [] op = "!=" -> {Truth(a # b)}
    [] op = "," -> {b}

Both(op, A, B) == {Wrap(x, Bits) : x \in UNION {Do(op, a, b) : a \in A, b \in B}}
Only(op, A) ==
  {Wrap(CASE op = "-" -> -a [] op = "!" -> Truth(a = 0) [] op = "~" -> -a - 1, Bits) : a \in A}

RECURSIVE compute(_)
compute(t) ==
  CASE t[1] = "num" -> {IF t[2] # 0 THEN t[2] ELSE t[3]}
    [] Len(t) = 2 -> Only(t[1], compute(t[2]))
    [] t[1] = "?" -> UNION {compute(t[IF c # 0 THEN 3 ELSE 4]) : c \in compute(t[2])}
    [] t[1] = "&&" -> UNION {IF a = 0 THEN {0} ELSE {Truth(b # 0) : b \in compute(t[3])} :
                               a \in compute(t[2])}
    [] t[1] = "||" -> UNION {IF a # 0 THEN {1} ELSE {Truth(b # 0) : b \in compute(t[3])} :
                               a \in compute(t[2])}
    [] t[1] = "," -> compute(t[3])
    [] OTHER -> Both(t[1], compute(t[2]), compute(t[3]))

main(s) ==
  /\ asked' = s
  /\ tree' = parser(s)
  /\ printed' = IF tree' = <<>> THEN {} ELSE compute(tree')

(* A process reads one program. *)
ParserNext == asked = <<>> /\ \E s \in Programs : main(s)

-----------------------------------------------------------------------------
(* The grammar of lines 36-80, as far as there is code for it: the trees   *)
(* that derive a whole string, with a node for every pair of brackets.     *)
Binary == [l \in 1..Mul |-> IF l > Len(Once) THEN Loops[l - Len(Once)] ELSE Range(Once[l])]
Expr == -1
Cond == 0
RECURSIVE Derive(_, _)
Joined(s, Ops, L, R) ==
  UNION {{<<s[i], a, b>> : a \in Derive(L, SubSeq(s, 1, i - 1)),
                           b \in Derive(R, SubSeq(s, i + 1, Len(s)))} :
           i \in {k \in DOMAIN s : s[k] \in Ops}}
Derive(l, s) ==
  CASE l = Expr -> Derive(Cond, s) \cup Joined(s, {","}, Cond, Expr)
    [] l = Cond -> Derive(1, s) \cup
         UNION {{<<"?", c, t[2], t[3]>> :
                   c \in Derive(1, SubSeq(s, 1, i - 1)),
                   t \in {<<":">>} \X Derive(Expr, SubSeq(s, i + 1, k - 1))
                                   \X Derive(Cond, SubSeq(s, k + 1, Len(s)))} :
                  <<i, k>> \in {q \in (DOMAIN s) \X (DOMAIN s) :
                                  q[1] < q[2] /\ s[q[1]] = "?" /\ s[q[2]] = ":"}}
    [] l = Mul + 1 ->
         CASE s = <<>> -> {}
           [] Len(s) = 1 -> IF s[1] \in Digits THEN {<<"num", s[1]>>} ELSE {}
           [] s[1] \in Prefix \cup {"+"} -> {<<s[1], t>> : t \in Derive(Mul + 1, Tail(s))}
           [] s[1] = "(" /\ Last(s) = ")" ->
                {<<"()", t>> : t \in Derive(Expr, SubSeq(s, 2, Len(s) - 1))}
           [] OTHER -> {}
    [] OTHER -> Derive(l + 1, s) \cup Joined(s, Binary[l], l, l + 1)

(* The code builds no node for brackets. *)
RECURSIVE Strip(_), Sub(_), Minuses(_)
Strip(t) ==
  CASE t[1] = "num" -> <<"num", Literal[t[2]].val, Literal[t[2]].fval>>
    [] t[1] = "()" -> Strip(t[2])
    [] OTHER -> <<t[1]>> \o [k \in 1..(Len(t) - 1) |-> Strip(t[k + 1])]

Sub(t) == {t} \cup IF t[1] = "num" THEN {} ELSE UNION {Sub(t[k]) : k \in 2..Len(t)}
Is(t, Ops) == Len(t) = 3 /\ t[1] \in Ops
HasPrefix(t) == Len(t) = 2 /\ t[1] \in Prefix
Minuses(t) == HasPrefix(t) => t[1] = "-" /\ Minuses(t[2])

(* On one level, the operators come in the order in which the code asks    *)
(* for them.                                                               *)
Chained(t) ==
  \A u \in Sub(t), l \in DOMAIN Once :
    Is(u, Range(Once[l])) /\ Is(u[2], Range(Once[l])) =>
      \E a, b \in DOMAIN Once[l] : u[2][1] = Once[l][a] /\ u[1] = Once[l][b] /\ a < b

HasPlus(t) == \E u \in Sub(t) : Len(u) = 2 /\ u[1] = "+"

(* No prefix stands in the middle of a product, and only signs in front of *)
(* one.                                                                    *)
PrefixesSafe(t) ==
  \A u \in Sub(t) : Is(u, Loops[2]) =>
    IF Is(u[2], Loops[2]) THEN ~HasPrefix(u[2][3]) ELSE Minuses(u[2])

Doc == Derive(Expr, asked)

(* The parser, its lists and the evaluation, against the grammar in the    *)
(* comments: what gets past the parser is an expression of the grammar;    *)
(* an expression without a prefix "+" gets past it if no operator below    *)
(* the sums repeats on its level (lines 223-461); and if no prefix other   *)
(* than a leading sign stands in a product, what is printed is the value   *)
(* the grammar gives it, and nothing if that divides by zero.  "unary =    *)
(* ("+" | "-" ...) cast" (line 72) promises more: for a "+" unary calls    *)
(* itself on the same token for ever, and the operand it takes behind the  *)
(* other prefixes is a product (lines 223-245).                            *)
FollowsTheGrammar ==
  asked # <<>> =>
    /\ tree # <<>> => Doc # {}
    /\ (\E t \in Doc : Chained(t) /\ ~HasPlus(t)) => tree # <<>>
    /\ tree # <<>> => \A t \in Doc : PrefixesSafe(t) => printed = compute(Strip(t))

(* The stars of the grammar, "logor = logand ("||" logand)*" down to the   *)
(* shifts (lines 50-64): any number of operators may follow each other on  *)
(* a level.  It does not hold: but for the sums and products the loops     *)
(* have no continue, and take every operator once.                         *)
ChainsParse ==
  \A t \in Doc : ~HasPlus(t) => tree # <<>>
===============================================================================
