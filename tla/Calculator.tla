------------------------------- MODULE Calculator -------------------------------
(***************************************************************************)
(* The calculator of lang_parser/calculator/calculator.c: it prints the    *)
(* value of every line of its file.  A line is a sequence of tokens and    *)
(* blanks; a number token stands for its digits, and "\r" for every        *)
(* character outside the token table, although only it is skipped at the   *)
(* start of a line.  Lines end with a newline.  A value is the set that    *)
(* holds it, and is empty once the program has ended.                      *)
(***************************************************************************)
EXTENDS Integers, Sequences, SequencesExt

CONSTANTS
  Digits,       \* number tokens
  NumberOf,     \* and their values
  Garbage,      \* obj.value before any number was read: obj is not initialised
  LineLength    \* bound on the tokens and blanks of a line

VARIABLES
  line,      \* what has been read of the line
  number,    \* obj.value: the last number read, on whichever line
  asked,     \* history: the last line evaluated, and number before it
  shown,     \* what was printed for it; {} if the program ended instead
  running    \* the program has not ended, nor read outside its table

calcVars == <<line, number, asked, shown, running>>

AddOp == {"+", "-"}
MulOp == {"*", "/"}
Blank == " "
Token == Digits \cup AddOp \cup MulOp \cup {"(", ")"}
Character == Token \cup {Blank, "\r"}

CalcInit ==
  /\ line = <<>> /\ number = Garbage /\ running = TRUE
  /\ asked = <<>> /\ shown = {}

Quotient(a, b) ==
  LET abs(x) == IF x < 0 THEN -x ELSE x
  IN (abs(a) \div abs(b)) * (IF (a < 0) = (b < 0) THEN 1 ELSE -1)

Apply(op, A, B) ==
  CASE op = "+" -> {a + b : a \in A, b \in B}
    [] op = "-" -> {a - b : a \in A, b \in B}
    [] op = "*" -> {a * b : a \in A, b \in B}
    [] op = "/" -> {Quotient(a, b) : a \in A, b \in B \ {0}}

(* The parser's state: the token it is at, obj.value, and the value of     *)
(* what it has read.  It ends with exit(-1) on an unexpected token, and by *)
(* a division by zero; and on a character outside the table it reads       *)
(* behind the table's end, where anything may be found.                    *)
Exit == [at |-> 0, num |-> 0, val |-> {}]
Wild == [at |-> -1, num |-> 0, val |-> {}]
Stopped == {Exit, Wild}

At(s, p) == s[p.at]
next(s, p) ==
  LET k == CHOOSE k \in (p.at + 1)..Len(s) :
             s[k] # Blank /\ \A l \in (p.at + 1)..(k - 1) : s[l] = Blank
  IN [p EXCEPT !.at = k, !.num = IF s[k] \in Digits THEN NumberOf[s[k]] ELSE @]

Applied(op, p, q) ==
  IF q \in Stopped THEN q
  ELSE LET v == Apply(op, p.val, q.val)
       IN IF v = {} THEN Exit ELSE [q EXCEPT !.val = v]

RECURSIVE first_priority(_, _), second_priority(_, _), third_priority(_, _)

subexpr_value(s, p) == second_priority(s, first_priority(s, p))
expr_value(s, p) == third_priority(s, subexpr_value(s, p))

(* A closing bracket has priority 2 as well, so it is not consumed and the *)
(* number read last is taken for the operand (lines 168-177).              *)
first_priority(s, p) ==
  CASE At(s, p) = "(" ->
         LET e == expr_value(s, next(s, p))
         IN IF e \in Stopped THEN e
            ELSE IF At(s, e) = ")" THEN next(s, e) ELSE Exit
    [] At(s, p) = ")" -> [p EXCEPT !.val = {p.num}]
    [] At(s, p) \in Digits -> [next(s, p) EXCEPT !.val = {p.num}]
    [] At(s, p) = "\r" -> Wild
    [] OTHER -> Exit

(* mutant: the rest is evaluated first, as if operators grouped rightwards *)
second_priority_right(s, p) ==
  CASE p \in Stopped -> p
    [] At(s, p) = "\r" -> Wild
    [] At(s, p) \in MulOp ->
         Applied(At(s, p), p, second_priority(s, first_priority(s, next(s, p))))
    [] OTHER -> p

second_priority(s, p) ==
  CASE p \in Stopped -> p
    [] At(s, p) = "\r" -> Wild
    [] At(s, p) \in MulOp ->
         second_priority(s, Applied(At(s, p), p, first_priority(s, next(s, p))))
    [] OTHER -> p

third_priority(s, p) ==
  CASE p \in Stopped -> p
    [] At(s, p) = "\r" -> Wild
    [] At(s, p) \in AddOp ->
         third_priority(s, Applied(At(s, p), p, subexpr_value(s, next(s, p))))
    [] OTHER -> p

Evaluate(s, n) ==
  expr_value(Append(s, "\n"), next(Append(s, "\n"), [at |-> 0, num |-> n, val |-> {}]))

(* Digits side by side are one number. *)
Read(t) ==
  /\ running /\ Len(line) < LineLength
  /\ \A k \in DOMAIN line : k = Len(line) /\ t \in Digits => line[k] \notin Digits
  /\ line' = Append(line, t)
  /\ asked' = <<>> /\ shown' = {}
  /\ UNCHANGED <<number, running>>

(* The first characters are looked at before any blank is skipped: a line  *)
(* of blanks, and a comment behind one, are evaluated and end the program. *)
Skipped(s) == s = <<>> \/ IsPrefix(<<"\r">>, s) \/ IsPrefix(<<"/", "/">>, s)

(* An empty line or a comment. *)
SkipLine ==
  /\ running /\ Skipped(line)
  /\ line' = <<>>
  /\ UNCHANGED <<number, asked, shown, running>>

PrintValue ==
  /\ running /\ ~Skipped(line)
  /\ LET p == Evaluate(line, number)
     IN /\ p # Wild
        /\ shown' = p.val
        /\ running' = (p # Exit)
        /\ number' = IF p = Exit THEN number ELSE p.num
  /\ asked' = <<line, number>>
  /\ line' = <<>>

(* What happens on a character outside the table is not followed. *)
ReadBehindTable ==
  /\ running /\ ~Skipped(line) /\ Evaluate(line, number) = Wild
  /\ running' = FALSE /\ line' = <<>> /\ asked' = <<>> /\ shown' = {}
  /\ UNCHANGED number

CalcNext ==
  \/ \E t \in Character : Read(t)
  \/ SkipLine
  \/ PrintValue
  \/ ReadBehindTable

(* The usual grammar, read off a whole string: no value where it does not  *)
(* derive s, and the value of a division by zero is {}.                    *)
RECURSIVE Sum(_), Product(_), Operand(_)
Split(Ops, Left(_), Right(_), s) ==
  UNION {{Apply(s[i], a, b) : a \in Left(SubSeq(s, 1, i - 1)),
                              b \in Right(SubSeq(s, i + 1, Len(s)))} :
           i \in {k \in DOMAIN s : s[k] \in Ops}}
Sum(s) == Product(s) \cup Split(AddOp, Sum, Product, s)
Product(s) == Operand(s) \cup Split(MulOp, Product, Operand, s)
Operand(s) ==
  CASE Len(s) = 1 /\ s[1] \in Digits -> {{NumberOf[s[1]]}}
    [] Len(s) > 2 /\ s[1] = "(" /\ Last(s) = ")" -> Sum(SubSeq(s, 2, Len(s) - 1))
    [] OTHER -> {}

(* A bracket that closes where an operand is due. *)
BareClose(s) ==
  \E k \in DOMAIN s : s[k] = ")" /\ (k > 1 => s[k - 1] \in AddOp \cup MulOp \cup {"("})

(* On a line where no bracket closes before its operand: an expression     *)
(* prints its value, with operators that group to the left (lines 180-200) *)
(* and brackets first, or ends the program where it divides by zero; and   *)
(* what is printed for any other line is the value of a beginning of it    *)
(* that is an expression, and that no operator continues.                  *)
PrintsTheValue ==
  asked # <<>> =>
    LET s == SelectSeq(asked[1], LAMBDA t : t # Blank)
    IN ~BareClose(s) =>
         /\ Sum(s) # {} => Sum(s) = {shown}
         /\ shown # {} =>
              \E k \in DOMAIN s : /\ shown \in Sum(SubSeq(s, 1, k))
                                  /\ k < Len(s) => s[k + 1] \notin AddOp \cup MulOp

(* The rule of line 18, "op, number | (": in what was read of a line that  *)
(* is printed, a number or an opening bracket follows every operator.  It  *)
(* does not hold: line 168 lets a closing bracket pass for an operand,     *)
(* whose value is that of the number read last.                            *)
OperandFollows ==
  shown # {} =>
    LET read == SubSeq(Append(asked[1], "\n"), 1, Evaluate(asked[1], asked[2]).at)
        s == SelectSeq(read, LAMBDA t : t # Blank)
    IN \A k \in 1..(Len(s) - 1) :
         s[k] \in AddOp \cup MulOp => s[k + 1] \in Digits \cup {"("}
================================================================================
