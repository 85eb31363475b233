--------------------------------- MODULE CLexer ---------------------------------
(***************************************************************************)
(* The tokens of the ccalculator (lang_parser/ccalculator/token.c).  A     *)
(* text is a sequence of characters; the widths of int and long are        *)
(* parameters.  Letters without a part in a number are one letter.         *)
(***************************************************************************)
EXTENDS Integers, Sequences, SequencesExt

CONSTANTS
  Char,       \* the characters a text is made of
  MaxText,    \* bound on its length
  IntBits, LongBits

VARIABLES
  text,
  lexed       \* history: what tokenize did with the text; <<>> before

lexVars == <<text, lexed>>

Digit == "0" :> 0 @@ "1" :> 1 @@ "7" :> 7 @@ "9" :> 9
Hex == Digit @@ "b" :> 11 @@ "e" :> 14 @@ "f" :> 15
Alpha == {"b", "e", "x", "X", "l", "L", "u", "U", "f", "p", "z"}
isdigit(c) == c \in DOMAIN Digit
isalnum(c) == isdigit(c) \/ c \in Alpha
Space == {" ", "\n", "\t"}
isspace(c) == c \in Space
ispunct(c) == c \in {"+", "-", "*", "/", "<", ">", "=", "!", "&", "|", "^", "%", "#", ".",
                     "(", ")", "?", ":", ",", "~"}

(* The character at i; the terminating zero behind the text. *)
Ch(s, i) == IF i \in DOMAIN s THEN s[i] ELSE "end"
startswith(s, i, q) == i + Len(q) - 1 <= Len(s) /\ SubSeq(s, i, i + Len(q) - 1) = q

(* Where the longest run of characters of S from i on ends. *)
EndOf(s, i, S) ==
  CHOOSE k \in i..(Len(s) + 1) : Ch(s, k) \notin S /\ \A m \in i..(k - 1) : s[m] \in S

-----------------------------------------------------------------------------
(* convert_int *)
DigitsOf(base) == {c \in DOMAIN Hex : Hex[c] < base}
Number(s, i, k, base) ==
  FoldLeft(LAMBDA v, c : v * base + Hex[c], 0, SubSeq(s, i, k - 1))

(* strtoul skips blanks, takes a sign, and a second 0x before a            *)
(* hexadecimal digit; it knows nothing of the token's end.  Where it finds *)
(* no digit it stays where it was called.                                  *)
strtoul(s, i, base) ==
  LET BehindSign(b) == IF Ch(s, b) \in {"+", "-"} THEN b + 1 ELSE b
      BehindHex(n) ==
        IF /\ base = 16 /\ Ch(s, n) = "0" /\ Ch(s, n + 1) \in {"x", "X"}
           /\ Ch(s, n + 2) \in DigitsOf(16)
        THEN n + 2 ELSE n
      Value(v, minus) ==
        IF v >= 2^LongBits THEN 2^LongBits - 1
        ELSE IF minus THEN (2^LongBits - v) % 2^LongBits ELSE v
      Result(b, j, k) ==
        [end |-> IF k = j THEN i ELSE k,
         val |-> Value(Number(s, j, k, base), Ch(s, b) = "-")]
      ResultFrom(b, j) == Result(b, j, EndOf(s, j, DigitsOf(base)))
      ResultBehind(b) == ResultFrom(b, BehindHex(BehindSign(b)))
  IN ResultBehind(EndOf(s, i, Space))

lus == << <<"L","L","U">>, <<"L","L","u">>, <<"l","l","U">>, <<"l","l","u">>,
               <<"U","L","L">>, <<"U","l","l">>, <<"u","l","l">>, <<"u","L","L">>,
               <<"l","u">>, <<"u","l">>, <<"L">>, <<"l">>, <<"U">>, <<"u">> >>

(* Conditions ask the signed val >> n. *)
Signed(v) == IF v >= 2^(LongBits - 1) THEN v - 2^LongBits ELSE v
Above(v, n) == Signed(v) \div 2^n # 0

(* mutant: 31 where the code has 32 *)
TypeOfNarrow(base, v, l, u) ==
  IF l THEN IF u \/ (base # 10 /\ Above(v, LongBits - 1)) THEN "ulong" ELSE "long"
  ELSE IF u THEN IF Above(v, IntBits - 1) THEN "ulong" ELSE "uint"
  ELSE IF base = 10 THEN IF Above(v, IntBits - 1) THEN "long" ELSE "int"
  ELSE IF Above(v, LongBits - 1) THEN "ulong"
  ELSE IF Above(v, IntBits) THEN "long"
  ELSE IF Above(v, IntBits - 1) THEN "uint" ELSE "int"

TypeOf(base, v, l, u) ==
  IF l THEN IF u \/ (base # 10 /\ Above(v, LongBits - 1)) THEN "ulong" ELSE "long"
  ELSE IF u THEN IF Above(v, IntBits) THEN "ulong" ELSE "uint"
  ELSE IF base = 10 THEN IF Above(v, IntBits - 1) THEN "long" ELSE "int"
  ELSE IF Above(v, LongBits - 1) THEN "ulong"
  ELSE IF Above(v, IntBits) THEN "long"
  ELSE IF Above(v, IntBits - 1) THEN "uint" ELSE "int"

BaseOf(s, i) ==
  IF Ch(s, i) # "0" THEN 10
  ELSE CASE Ch(s, i + 1) \in {"x", "X"} -> 16 [] Ch(s, i + 1) = "b" -> 2 [] OTHER -> 8
PrefixLen(base) == CASE base = 10 -> 0 [] base = 8 -> 1 [] OTHER -> 2

Suffix(s, i) ==
  LET hits == {k \in DOMAIN lus : startswith(s, i, lus[k])}
  IN IF hits = {} THEN <<>> ELSE lus[CHOOSE k \in hits : \A m \in hits : k <= m]

convert_int(s, i, end) ==
  LET base == BaseOf(s, i)
      Result(n, suffix) ==
        [ok |-> n.end + Len(suffix) = end, val |-> n.val,
         ty |-> TypeOf(base, n.val, Contains(suffix, "l") \/ Contains(suffix, "L"),
                                    Contains(suffix, "u") \/ Contains(suffix, "U"))]
      ResultOf(n) == Result(n, Suffix(s, n.end))
  IN ResultOf(strtoul(s, i + PrefixLen(base), base))

(* strtold, as far as its end: a fraction and an exponent, if it is one. *)
FloatEnd(s, i) ==
  LET hex == /\ Ch(s, i) = "0" /\ Ch(s, i + 1) \in {"x", "X"}
             /\ Ch(s, IF Ch(s, i + 2) = "." THEN i + 3 ELSE i + 2) \in DigitsOf(16)
      D == IF hex THEN DigitsOf(16) ELSE DOMAIN Digit
      j == EndOf(s, IF hex THEN i + 2 ELSE i, D)
      k == IF Ch(s, j) = "." THEN EndOf(s, j + 1, D) ELSE j
      m == k + (IF Ch(s, k + 1) \in {"+", "-"} THEN 2 ELSE 1)
  IN IF Ch(s, k) \in (IF hex THEN {"p"} ELSE {"e"}) /\ isdigit(Ch(s, m))
     THEN EndOf(s, m, DOMAIN Digit) ELSE k

convert_number(s, i, end) ==
  LET n == convert_int(s, i, end)
      f == FloatEnd(s, i)
      ty == IF Ch(s, f) = "f" THEN "float" ELSE "ldouble"
  IN CASE n.ok -> n
       [] ~n.ok /\ f + (IF Ch(s, f) \in {"f", "F", "l", "L"} THEN 1 ELSE 0) = end ->
            [ok |-> TRUE, val |-> 0, ty |-> ty]
       [] OTHER -> [ok |-> FALSE, val |-> 0, ty |-> "none"]

-----------------------------------------------------------------------------
(* tokenize *)
Kw == << <<"<","<","=">>, <<">",">","=">>, <<".",".",".">>, <<"=","=">>, <<"!","=">>,
         <<"<","=">>, <<">","=">>, <<"-",">">>, <<"+","=">>, <<"-","=">>, <<"*","=">>,
         <<"/","=">>, <<"+","+">>, <<"-","-">>, <<"%","=">>, <<"&","=">>, <<"|","=">>,
         <<"^","=">>, <<"&","&">>, <<"|","|">>, <<"<","<">>, <<">",">">>, <<"#","#">> >>

read_punct(s, i) ==
  LET hits == {k \in DOMAIN Kw : startswith(s, i, Kw[k])}
  IN IF hits # {} THEN Len(Kw[CHOOSE k \in hits : \A m \in hits : k <= m])
     ELSE IF ispunct(Ch(s, i)) THEN 1 ELSE 0

RECURSIVE NumberEnd(_, _), Scan(_, _, _)
NumberEnd(s, i) ==
  CASE Ch(s, i) \in {"e", "p"} /\ Ch(s, i + 1) \in {"+", "-"} -> NumberEnd(s, i + 2)
    [] (isalnum(Ch(s, i)) \/ Ch(s, i) = ".")
         /\ ~(Ch(s, i) \in {"e", "p"} /\ Ch(s, i + 1) \in {"+", "-"}) -> NumberEnd(s, i + 1)
    [] OTHER -> i

(* The first occurrence of q from i on; 0 if there is none. *)
Find(s, i, q) ==
  LET at == {k \in i..Len(s) : startswith(s, k, q)}
  IN IF at = {} THEN 0 ELSE CHOOSE k \in at : \A m \in at : k <= m

Done(how, toks) == [how |-> how, toks |-> toks]

(* "err": NULL is returned; "exit": error_log; "overrun": the loop over a  *)
(* line comment leaves a text that has no newline (lines 272-278).         *)
Scan(s, i, toks) ==
  CASE i > Len(s) -> Done("ok", toks)
    [] startswith(s, i, <<"/", "/">>) ->
         IF Find(s, i + 2, <<"\n">>) = 0 THEN Done("overrun", toks)
         ELSE Scan(s, Find(s, i + 2, <<"\n">>), toks)
    [] startswith(s, i, <<"/", "*">>) ->
         IF Find(s, i + 2, <<"*", "/">>) = 0 THEN Done("err", toks)
         ELSE Scan(s, Find(s, i + 2, <<"*", "/">>) + 2, toks)
    [] isspace(s[i]) -> Scan(s, i + 1, toks)
    [] isdigit(s[i]) \/ (s[i] = "." /\ isdigit(Ch(s, i + 1))) ->
         LET end == NumberEnd(s, i + 1)
             n == convert_number(s, i, end)
         IN IF n.ok
            THEN Scan(s, end,
                   Append(toks, [from |-> i, to |-> end - 1, val |-> n.val, ty |-> n.ty]))
            ELSE Done("exit", toks)
    [] OTHER ->
         LET len == read_punct(s, i)
         IN IF len = 0 THEN Done("err", toks)
            ELSE Scan(s, i + len,
                      Append(toks, [from |-> i, to |-> i + len - 1, val |-> 0, ty |-> "punct"]))

LexInit == text = <<>> /\ lexed = <<>>

Type(c) ==
  /\ lexed = <<>> /\ Len(text) < MaxText
  /\ text' = Append(text, c)
  /\ UNCHANGED lexed

tokenize ==
  /\ lexed = <<>>
  /\ lexed' = <<Scan(text, 1, <<>>)>>
  /\ UNCHANGED text

LexNext == (\E c \in Char : Type(c)) \/ tokenize

-----------------------------------------------------------------------------
(* What C says, independently of the order in which the code looks.        *)
RECURSIVE Blank(_), PPNumber(_)
Blank(g) ==
  \/ g = <<>>
  \/ g # <<>> /\ isspace(g[1]) /\ Blank(Tail(g))
  \/ /\ startswith(g, 1, <<"/", "/">>) /\ Find(g, 3, <<"\n">>) # 0
     /\ Blank(SubSeq(g, Find(g, 3, <<"\n">>), Len(g)))
  \/ /\ startswith(g, 1, <<"/", "*">>) /\ Find(g, 3, <<"*", "/">>) # 0
     /\ Blank(SubSeq(g, Find(g, 3, <<"*", "/">>) + 2, Len(g)))

PPNumber(q) ==
  \/ Len(q) = 1 /\ isdigit(q[1])
  \/ Len(q) = 2 /\ q[1] = "." /\ isdigit(q[2])
  \/ Len(q) > 1 /\ PPNumber(Front(q)) /\
       \/ isalnum(Last(q)) \/ Last(q) = "."
       \/ Last(q) \in {"+", "-"} /\ q[Len(q) - 1] \in {"e", "p"}

(* The first type of the list that holds v; the last one if none does.     *)
CType(base, v, l, u) ==
  LET holds == [int |-> IntBits - 1, uint |-> IntBits, long |-> LongBits - 1, ulong |-> LongBits]
      list == SelectSeq(<<"int", "uint", "long", "ulong">>, LAMBDA ty :
                /\ u => ty \in {"uint", "ulong"}
                /\ l => ty \in {"long", "ulong"}
                /\ base = 10 /\ ~u => ty \in {"int", "long"})
      fits == SelectSeq(list, LAMBDA ty : v < 2^holds[ty])
  IN IF fits = <<>> THEN Last(list) ELSE Head(fits)

(* A lone 0, called as a prefix, and a number where strtoul looks for one. *)
ReadsOn(t) ==
  t.from = t.to /\ text[t.from] = "0" /\ strtoul(text, t.from + 1, 8).end # t.from + 1

TypedAsC(t) ==
  LET q == SubSeq(text, t.from, t.to)
      base == BaseOf(q, 1)
      k == EndOf(q, 1 + PrefixLen(base), DigitsOf(base))
      v == Number(q, 1 + PrefixLen(base), k, base)
      rest == SubSeq(q, k, Len(q))
      l == Contains(rest, "l") \/ Contains(rest, "L")
      u == Contains(rest, "u") \/ Contains(rest, "U")
  IN /\ k > 1 + PrefixLen(base) \/ base = 8
     /\ ToSet(rest) \subseteq {"l", "L", "u", "U"} /\ v < 2^LongBits
     /\ ~ReadsOn(t)
     => t.val = v /\ t.ty = CType(base, v, l, u)

(* The tokens of an accepted text are those of C: they are in order, only  *)
(* blanks and comments lie between them, each is as long as it can be, and *)
(* a whole number has the value and the type that C gives it, whatever     *)
(* base, suffix and size it comes in (lines 61-193, 242-358), but for a    *)
(* lone 0 in front of another number, which becomes a long double: behind  *)
(* the 0 strtoul reads that number, and does not end where the 0 does      *)
(* (lines 83, 113).                                                        *)
LexesAsC ==
  lexed # <<>> /\ lexed[1].how = "ok" =>
    LET toks == lexed[1].toks
        Start(k) == IF k = 1 THEN 1 ELSE toks[k - 1].to + 1
    IN /\ \A k \in DOMAIN toks :
            LET t == toks[k]
                Longer == {SubSeq(text, t.from, e) : e \in (t.to + 1)..Len(text)}
            IN /\ t.from >= Start(k) /\ t.to >= t.from
               /\ Blank(SubSeq(text, Start(k), t.from - 1))
               /\ IF t.ty = "punct" THEN \A q \in Longer : q \notin Range(Kw)
                  ELSE /\ PPNumber(SubSeq(text, t.from, t.to))
                       /\ \A q \in Longer : ~PPNumber(q)
                       /\ TypedAsC(t)
       /\ Blank(SubSeq(text, Start(Len(toks) + 1), Len(text)))
===============================================================================
