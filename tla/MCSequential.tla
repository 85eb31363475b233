------------------------------ MODULE MCSequential ------------------------------
(***************************************************************************)
(* The programs of one thread that answer their input or their caller: the *)
(* two small data structures, the sort, the memory pool, the game, the     *)
(* lexer and the three parsers.  A behaviour runs one of them, and the     *)
(* others never start.  The modules that are extended keep the names of    *)
(* their variables and constants.                                          *)
(***************************************************************************)
EXTENDS CParser, QuickSort, HashTable, SkipList, MPool, Game2048, TLC

CONSTANTS
  LineLength, Char, MaxText, LexInt, LexLong

-----------------------------------------------------------------------------
(* Two of the keys share a bucket of the four that map_init rounds up to.  *)
Hashes == "a" :> 4 @@ "b" :> 8 @@ "c" :> 5

SmallNumbers == 1..3

CalcNumber == "0" :> 0 @@ "3" :> 3

(* The literals of the ccalculator. *)
Literals ==
  "7" :> [val |-> 7, fval |-> 0] @@ "2" :> [val |-> 2, fval |-> 0]
    @@ "0" :> [val |-> 0, fval |-> 0]

(* A text may have a number of any base, a suffix, an exponent, a fraction, *)
(* operators of one or two characters and both kinds of comment.           *)
Characters == {"0", "7", "x", "l", "u", "e", "+", "/", "*", "\n", "."}

(* Expressions grow by an operator, a prefix, parentheses or a choice at a *)
(* time; a spoiled one has a token more or less.                           *)
Operator == (UNION {Binary[l] : l \in 1..Mul}) \cup {","}
GrowC(S, d) ==
  S \cup {s \o <<o, d>> : s \in S, o \in Operator}
    \cup {<<u>> \o s : u \in Prefix \cup {"+"}, s \in S}
    \cup {<<"(">> \o s \o <<")">> : s \in S}
    \cup {s \o <<"?", d, ":", d>> : s \in S}
Shorter(S) == UNION {{RemoveAt(s, n) : n \in DOMAIN s} : s \in S}
Longer(S, T) == UNION {{InsertAt(s, n, t) : n \in DOMAIN s, t \in T} : s \in S}

Expressions ==
  LET two == GrowC(GrowC({<<"7">>}, "2"), "0")
  IN (two \cup {<<"(">> \o s \o <<")", o, "2">> : s \in two, o \in {"-", "<", "?"}}
          \cup {s \o <<o, "2">> : s \in two, o \in Operator}
          \cup Shorter(two) \cup Longer(GrowC({<<"7">>}, "2"), {")", "2", ":", "<"}))
       \ {<<>>}

(* Programs of the expression tree language: up to two items. *)
GrowAst(S, d) ==
  S \cup {s \o <<o, d>> : s \in S, o \in {"<", "+", "-", "*"}}
    \cup {<<"(">> \o s \o <<")">> : s \in S}
    \cup {<<"f", "(">> \o s \o <<")">> : s \in S}
    \cup {<<"f", "(", d, ",">> \o s \o <<")">> : s \in S}
Items(S) ==
  S \cup {<<"def", "f", "(", "a", ")">> \o s : s \in S}
    \cup {<<"extern", "f", "(", "a", "a", ")">>, <<";">>}
AstPrograms ==
  LET one == GrowAst({<<"a">>}, "1")
      three == GrowAst(GrowAst(one, "a"), "1")
      items == Items(one)
  IN three \cup {s \o t : s \in items, t \in items}
       \cup Shorter(items)
       \cup Longer(items, {")", "1", "(", "<", "def", "a", ",", "="})

-----------------------------------------------------------------------------
VARIABLES
  program,
  line, number, evaluated, shown, running,                        \* Calculator
  text, lexed,                                                    \* CLexer
  toks, pos, handled                                              \* AstParser

calcVars == <<line, number, evaluated, shown, running>>
lexVars == <<text, lexed>>
astVars == <<toks, pos, handled>>

C == INSTANCE Calculator WITH
       Digits <- DOMAIN CalcNumber, NumberOf <- CalcNumber, Garbage <- 7,
       asked <- evaluated
L == INSTANCE CLexer WITH IntBits <- LexInt, LongBits <- LexLong
A == INSTANCE AstParser WITH
       Identifier <- {"a", "f"}, Number <- {"1"}, Programs <- AstPrograms

ASSUME SequentialAssumption ==
  /\ {LexInt, IntBits} \subseteq Nat \ {0}
  /\ LexInt < LexLong /\ IntBits <= Bits
  /\ \A d \in Digits : Literal[d].val < 2^(IntBits - 1)

SequentialInit ==
  /\ program \in {"hash", "skip", "sort", "pool", "game", "calc", "lex", "parse", "ast"}
  /\ HashInit /\ skip_list_create /\ SortInit /\ PoolInit /\ GameInit
  /\ C!CalcInit /\ L!LexInit /\ ParserInit /\ A!AstInit
  /\ program # "game" => board[<<1, 1>>] = 2 /\ board[<<BoardSize, BoardSize>>] = 2

SequentialNext ==
  /\ UNCHANGED program
  /\ \/ /\ program = "hash" /\ HashNext
        /\ UNCHANGED <<skipVars, sortVars, poolVars, gameVars, calcVars,
                       lexVars, parserVars, astVars>>
     \/ /\ program = "skip" /\ SkipNext
        /\ UNCHANGED <<hashVars, sortVars, poolVars, gameVars, calcVars,
                       lexVars, parserVars, astVars>>
     \/ /\ program = "sort" /\ SortNext
        /\ UNCHANGED <<hashVars, skipVars, poolVars, gameVars, calcVars,
                       lexVars, parserVars, astVars>>
     \/ /\ program = "pool" /\ PoolNext
        /\ UNCHANGED <<hashVars, skipVars, sortVars, gameVars, calcVars,
                       lexVars, parserVars, astVars>>
     \/ /\ program = "game" /\ GameNext
        /\ UNCHANGED <<hashVars, skipVars, sortVars, poolVars, calcVars,
                       lexVars, parserVars, astVars>>
     \/ /\ program = "calc" /\ C!CalcNext
        /\ UNCHANGED <<hashVars, skipVars, sortVars, poolVars, gameVars,
                       lexVars, parserVars, astVars>>
     \/ /\ program = "lex" /\ L!LexNext
        /\ UNCHANGED <<hashVars, skipVars, sortVars, poolVars, gameVars,
                       calcVars, parserVars, astVars>>
     \/ /\ program = "parse" /\ ParserNext
        /\ UNCHANGED <<hashVars, skipVars, sortVars, poolVars, gameVars,
                       calcVars, lexVars, astVars>>
     \/ /\ program = "ast" /\ A!AstNext
        /\ UNCHANGED <<hashVars, skipVars, sortVars, poolVars, gameVars,
                       calcVars, lexVars, parserVars>>

SequentialVars ==
  <<program, hashVars, skipVars, sortVars, poolVars, gameVars,
    calcVars, lexVars, parserVars, astVars>>

SequentialSpec == SequentialInit /\ [][SequentialNext]_SequentialVars

(* One of the programs, for what it is expected to do and does not. *)
Begins(p) == program = p /\ SequentialInit
HashSpec == Begins("hash") /\ [][SequentialNext]_SequentialVars
SkipSpec == Begins("skip") /\ [][SequentialNext]_SequentialVars
CalcSpec == Begins("calc") /\ [][SequentialNext]_SequentialVars
ParseSpec == Begins("parse") /\ [][SequentialNext]_SequentialVars

(* The properties are stated and explained in the modules. *)
PrintsTheValue == C!PrintsTheValue
OperandFollows == C!OperandFollows
LexesAsC == L!LexesAsC
ParsesTheGrammar == A!ParsesTheGrammar
================================================================================
