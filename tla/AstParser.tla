------------------------------- MODULE AstParser -------------------------------
(***************************************************************************)
(* The front end of lang_parser/ast/main.cpp: precedence climbing and the  *)
(* loop that reads definitions, externals and expressions and goes on      *)
(* after an error.  The input is a sequence of tokens that ends with the   *)
(* end of file, which is never eaten; CurTok is the token at pos.  A tree  *)
(* is a sequence of its kind and its parts.                                *)
(***************************************************************************)
EXTENDS Integers, Sequences, SequencesExt

CONSTANTS
  Identifier, Number,    \* the tokens of these kinds
  Programs               \* the inputs: sequences of tokens

VARIABLES
  toks, pos,
  handled     \* what each turn of MainLoop did: from, to, and the tree if any

astVars == <<toks, pos, handled>>

BinopPrecedence == [c \in {"<", "+", "-", "*"} |->
                      CASE c = "<" -> 10 [] c \in {"+", "-"} -> 20 [] c = "*" -> 40]

CurTok(p) == IF p.at <= Len(toks) THEN toks[p.at] ELSE "eof"
getNextToken(p) == IF CurTok(p) = "eof" THEN p ELSE [p EXCEPT !.at = @ + 1]
TokPrec(p) == IF CurTok(p) \in DOMAIN BinopPrecedence THEN BinopPrecedence[CurTok(p)] ELSE -1

(* A parser returns its tree with the place it got to; no tree on error.   *)
LogError(p) == [p EXCEPT !.tree = <<>>]
With(p, t) == [p EXCEPT !.tree = t]
Failed(p) == p.tree = <<>>

(* What follows a parser that got its tree. *)
Then(p, Rest(_)) == IF Failed(p) THEN p ELSE Rest(p)

RECURSIVE ParsePrimary(_), ParseBinOpRHS(_, _), ParseArgs(_, _)

ParseExpression(p) == Then(ParsePrimary(p), LAMBDA l : ParseBinOpRHS(0, l))

ParseParenExpr(p) ==
  Then(ParseExpression(getNextToken(p)),
       LAMBDA v : IF CurTok(v) = ")" THEN getNextToken(v) ELSE LogError(v))

(* The arguments of a call, from CurTok on, and the closing bracket. *)
AfterArg(p, args) ==
  CASE CurTok(p) = ")" -> With(getNextToken(p), <<"args", args>>)
    [] CurTok(p) = "," -> ParseArgs(getNextToken(p), args)
    [] OTHER -> LogError(p)

ParseArgs(p, args) ==
  Then(ParseExpression(p), LAMBDA arg : AfterArg(arg, Append(args, arg.tree)))

ParseIdentifierExpr(p) ==
  LET q == getNextToken(p)
      r == getNextToken(q)
  IN IF CurTok(q) # "(" THEN With(q, <<"var", CurTok(p)>>)
     ELSE Then(IF CurTok(r) = ")" THEN With(getNextToken(r), <<"args", <<>>>>)
               ELSE ParseArgs(r, <<>>),
               LAMBDA args : With(args, <<"call", CurTok(p), args.tree[2]>>))

ParsePrimary(p) ==
  CASE CurTok(p) \in Identifier -> ParseIdentifierExpr(p)
    [] CurTok(p) \in Number -> With(getNextToken(p), <<"num", CurTok(p)>>)
    [] CurTok(p) = "(" -> ParseParenExpr(p)
    [] OTHER -> LogError(p)

(* mutant: an operator of the same precedence is left to the right side *)
RightOperandToo(l) ==
  Then(ParsePrimary(getNextToken(l)),
       LAMBDA r : IF TokPrec(l) <= TokPrec(r) THEN ParseBinOpRHS(TokPrec(l), r) ELSE r)

(* The operand behind the operator at l, with what binds tighter than it.  *)
RightOperand(l) ==
  Then(ParsePrimary(getNextToken(l)),
       LAMBDA r : IF TokPrec(l) < TokPrec(r) THEN ParseBinOpRHS(TokPrec(l) + 1, r) ELSE r)

ParseBinOpRHS(prec, l) ==
  IF TokPrec(l) < prec THEN l
  ELSE Then(RightOperand(l),
            LAMBDA r : ParseBinOpRHS(prec, With(r, <<"bin", CurTok(l), l.tree, r.tree>>)))

ParsePrototype(p) ==
  LET q == getNextToken(p)
      end == CHOOSE k \in (q.at + 1)..(Len(toks) + 1) :
               /\ CurTok([q EXCEPT !.at = k]) \notin Identifier
               /\ \A m \in (q.at + 1)..(k - 1) : toks[m] \in Identifier
      r == [q EXCEPT !.at = end]
  IN IF CurTok(p) \notin Identifier THEN LogError(p)
     ELSE IF CurTok(q) # "(" THEN LogError(q)
     ELSE IF CurTok(r) # ")" THEN LogError(r)
     ELSE With(getNextToken(r), <<"proto", CurTok(p), SubSeq(toks, q.at + 1, end - 1)>>)

ParseDefinition(p) ==
  Then(ParsePrototype(getNextToken(p)), LAMBDA proto :
    Then(ParseExpression(proto), LAMBDA body : With(body, <<"def", proto.tree, body.tree>>)))

ParseExtern(p) ==
  Then(ParsePrototype(getNextToken(p)), LAMBDA proto : With(proto, <<"extern", proto.tree>>))

ParseTopLevelExpr(p) ==
  Then(ParseExpression(p), LAMBDA e : With(e, <<"top", e.tree>>))

AstInit == toks = <<>> /\ pos = 0 /\ handled = <<>>

(* main reads the first token. *)
main(s) ==
  /\ toks' = s
  /\ pos' = 1
  /\ UNCHANGED handled

Here == [at |-> pos, tree |-> <<>>]
Parsed ==
  CASE CurTok(Here) = "def" -> ParseDefinition(Here)
    [] CurTok(Here) = "extern" -> ParseExtern(Here)
    [] CurTok(Here) = ";" -> With(getNextToken(Here), <<";">>)
    [] OTHER -> ParseTopLevelExpr(Here)

(* The token an error was reported at is skipped. *)
MainLoop ==
  /\ pos > 0 /\ CurTok(Here) # "eof"
  /\ \E p \in {Parsed} :
       LET q == IF Failed(p) THEN getNextToken(p) ELSE p
       IN /\ pos' = q.at
          /\ handled' = Append(handled, [from |-> pos, to |-> q.at - 1, tree |-> p.tree])
  /\ UNCHANGED toks

AstNext == (pos = 0 /\ \E s \in Programs : main(s)) \/ MainLoop

-----------------------------------------------------------------------------
(* The grammar of the comments, with the precedences of main, read off a   *)
(* whole string: the trees that derive it.                                 *)
Levels == << {"<"}, {"+", "-"}, {"*"} >>
RECURSIVE Derive(_, _), Args(_)
Derive(l, s) ==
  IF l <= Len(Levels)
  THEN Derive(l + 1, s) \cup
         UNION {{<<"bin", s[i], a, b>> : a \in Derive(l, SubSeq(s, 1, i - 1)),
                                         b \in Derive(l + 1, SubSeq(s, i + 1, Len(s)))} :
                  i \in {k \in DOMAIN s : s[k] \in Levels[l]}}
  ELSE CASE s = <<>> -> {}
         [] Len(s) = 1 -> IF s[1] \in Identifier THEN {<<"var", s[1]>>}
                          ELSE IF s[1] \in Number THEN {<<"num", s[1]>>} ELSE {}
         [] Len(s) > 1 /\ s[1] = "(" /\ Last(s) = ")" -> Derive(1, SubSeq(s, 2, Len(s) - 1))
         [] Len(s) > 2 /\ s[1] \in Identifier /\ s[2] = "(" /\ Last(s) = ")" ->
              {<<"call", s[1], a>> : a \in IF Len(s) = 3 THEN {<<>>}
                                            ELSE Args(SubSeq(s, 3, Len(s) - 1))}
         [] OTHER -> {}
Args(s) ==
  {<<a>> : a \in Derive(1, s)} \cup
    UNION {{<<a>> \o r : a \in Derive(1, SubSeq(s, 1, i - 1)),
                         r \in Args(SubSeq(s, i + 1, Len(s)))} :
             i \in {k \in DOMAIN s : s[k] = ","}}

(* A prototype of n tokens behind the first token of s. *)
Proto(s, n) ==
  IF /\ 3 <= n /\ n < Len(s) /\ s[2] \in Identifier /\ s[3] = "(" /\ s[n + 1] = ")"
     /\ \A k \in 4..n : s[k] \in Identifier
  THEN {<<"proto", s[2], SubSeq(s, 4, n)>>} ELSE {}

Statement(s) ==
  CASE s[1] = ";" -> IF Len(s) = 1 THEN {<<";">>} ELSE {}
    [] s[1] = "def" -> UNION {{<<"def", p, e>> : p \in Proto(s, n),
                                 e \in Derive(1, SubSeq(s, n + 2, Len(s)))} : n \in DOMAIN s}
    [] s[1] = "extern" -> {<<"extern", p>> : p \in Proto(s, Len(s) - 1)}
    [] OTHER -> {<<"top", e>> : e \in Derive(1, s)}

(* The loop reads the whole input, each token once, and parses what it     *)
(* reads as the grammar does: operators of one precedence group to the     *)
(* left, brackets and calls as written (lines 272-305), and each statement *)
(* is as long as it can be.  An error is reported only where no statement  *)
(* could have ended, and the loop goes on behind it (lines 375-424).       *)
ParsesTheGrammar ==
  /\ \A k \in DOMAIN handled :
       LET h == handled[k]
           Ends == {e \in h.from..Len(toks) : Statement(SubSeq(toks, h.from, e)) # {}}
       IN /\ h.from = (IF k = 1 THEN 1 ELSE handled[k - 1].to + 1)
          /\ h.to >= h.from
          /\ IF h.tree # <<>>
             THEN /\ Statement(SubSeq(toks, h.from, h.to)) = {h.tree}
                  /\ \A e \in Ends : e <= h.to
             ELSE \A e \in Ends : e < Len(toks) /\ toks[e + 1] \in DOMAIN BinopPrecedence \cup {"("}
  /\ pos > 0 => pos = (IF handled = <<>> THEN 1 ELSE Last(handled).to + 1)
================================================================================
