------------------------------- MODULE Parser -------------------------------
(***************************************************************************)
(* p1/lexer.c, p1/parser.c and the code generator of p1/main.c as          *)
(* functions: from a text to tokens, to a tree, to the statements of a C   *)
(* function.  With it the grammar that the comments of parser.c give, as a *)
(* definition of its own.                                                  *)
(*                                                                         *)
(* A text is a sequence of characters: "1" stands for the digits, "i" for  *)
(* a numeral that strtod reads as infinity, "x" for what it does not read. *)
(* The value of a number is the place where it begins.                     *)
(***************************************************************************)
EXTENDS Integers, SequencesExt

CONSTANT MaxText     \* bound: characters of a text

ASSUME TextAssumption == MaxText \in Nat

Operators == {"+", "-", "*", "/", "(", ")"}

-----------------------------------------------------------------------------
(* The lexer.  A run of digits is one token; anything unreadable ends it.  *)

Token == [op : Operators \cup {"val"}, at : 1 .. MaxText]

StartsToken(s, k) ==
  \/ s[k] \in Operators \cup {"i"}
  \/ s[k] = "1" /\ (k = 1 \/ s[k - 1] # "1")

TokenAt(s, k) == [op |-> IF s[k] \in Operators THEN s[k] ELSE "val", at |-> k]

Lexes(s) == "x" \notin ToSet(s)

Tokens(s) ==
  LET read[k \in 0 .. Len(s)] ==
        IF k = 0 THEN <<>>
        ELSE IF StartsToken(s, k) THEN Append(read[k - 1], TokenAt(s, k)) ELSE read[k - 1]
  IN  read[Len(s)]

-----------------------------------------------------------------------------
(* Trees.                                                                  *)

Null == <<>>

NodeOps == {"val", "neg", "+", "-", "*", "/"}

Node(op, id, val, left, right) ==
  [op |-> op, id |-> id, val |-> val, left |-> left, right |-> right]

\* Trees of at most n levels.
Dags[n \in 0 .. MaxText] ==
  IF n = 0 THEN {Null}
  ELSE {Null} \cup [op : NodeOps, id : Nat, val : Nat,
                    left : Dags[n - 1], right : Dags[n - 1]]

Dag == Dags[MaxText]

-----------------------------------------------------------------------------
(* The parser: its token, the last id, the tree that the function at hand  *)
(* returns, and whether the text of an error was taken from outside of its *)
(* table.  Memory is there for `room' nodes.                               *)

Parsers ==
  [tokens : Seq(Token), room : Nat, i : Nat \ {0}, id : Nat, dag : Dag, bad : BOOLEAN]

Start(tokens, room) ==
  [tokens |-> tokens, room |-> room, i |-> 1, id |-> 0, dag |-> Null, bad |-> FALSE]

Next_(p)    == IF p.i <= Len(p.tokens) THEN p.tokens[p.i].op ELSE "end"
Forward(p)  == [p EXCEPT !.i = @ + 1]
Full(p)     == p.id = p.room
Unnumbered(p) == [p EXCEPT !.id = 0]
Numbered(p) == [p EXCEPT !.id = @ + 1]
Returns(p, dag) == [p EXCEPT !.dag = dag]

Value(p) ==
  IF Full(p) THEN Returns(p, Null)
  ELSE Returns(Forward(Numbered(p)), Node("val", p.id + 1, p.tokens[p.i].at, Null, Null))

\* e is what expr returns after the parenthesis.
Closed(e) ==
  IF e.dag # Null /\ Next_(e) = ")" THEN Forward(e) ELSE Returns(e, Null)

\* r is what expr_unary returns after the sign.
Negated(p, r) ==
  IF Full(p) THEN Returns(p, Null)
  ELSE IF r.dag = Null THEN r
  ELSE Returns(r, Node("neg", p.id + 1, 0, Null, r.dag))

OperatorsOf(rule) == IF rule = "term_" THEN {"*", "/"} ELSE {"+", "-"}
OperandOf(rule)   == IF rule \in {"term", "term_"} THEN "unary" ELSE "term"
RestOf(rule)      == IF rule = "term" THEN "term_" ELSE "expr_"

\* The calls that there can be.  The functions have the names of the rules: term is
\* expr_multiplicative, expr is expr_additive.  Those of the underscore are called
\* with a tree on their left, which has no more levels than tokens were read.
Rules == {"primary", "unary", "term", "term_", "expr", "expr_"}

Call(rule, p, left, dag) == [rule |-> rule, p |-> p, left |-> left, dag |-> dag]
To(rule, p) == Call(rule, p, Null, Null)

Calls ==
  {c \in [rule : Rules, p : Parsers, left : Dag, dag : Dag] :
     /\ Len(c.p.tokens) <= MaxText /\ c.p.i <= Len(c.p.tokens) + 1
     /\ {c.left, c.dag} \subseteq Dags[c.p.i - 1]}

\* Those of the underscore loop over an operator, its right operand and what
\* follows, with the two as its left.  Without an operand they look for a message:
\* TBL of expr_additive_ has two, and is asked for more.
Parsed[c \in Calls] ==
  LET rule == c.rule
      p    == c.p
      next == Forward(Numbered(p))
  IN
  CASE rule = "primary" ->
         (CASE Next_(p) = "val" -> Value(p)
            [] Next_(p) = "("   -> Closed(Parsed[To("expr", Forward(p))])
            [] OTHER            -> Returns(p, Null))
    [] rule = "unary" ->
         (CASE Next_(p) = "+" -> Parsed[To("unary", Forward(p))]
            [] Next_(p) = "-" -> Negated(p, Parsed[To("unary", next)])
            [] OTHER          -> Parsed[To("primary", p)])
    [] rule \in {"term", "expr"} ->
         LET l == Parsed[To(OperandOf(rule), p)] IN
         IF l.dag = Null THEN l ELSE Parsed[Call(RestOf(rule), l, l.dag, l.dag)]
    [] OTHER ->
         IF Next_(p) \notin OperatorsOf(rule) THEN Returns(p, c.dag)
         ELSE IF Full(p) THEN Returns(p, Null)
         ELSE LET r == Parsed[To(OperandOf(rule), next)]
                  n == Node(Next_(p), next.id, 0, c.left, r.dag)
              IN  IF r.dag = Null THEN [r EXCEPT !.bad = @ \/ rule = "expr_"]
                  ELSE LET m == Parsed[Call(rule, r, n, n)] IN
                       IF m.dag = Null THEN m ELSE Parsed[Call(rule, m, c.left, m.dag)]

Expr(p) == Parsed[To("expr", p)]

TopLoose(p) == Expr(p)

Top(p) == LET e == Expr(p) IN IF Next_(e) = "end" THEN e ELSE Returns(e, Null)

\* No token at all is an error too.
Parse(s, room) ==
  IF Lexes(s) /\ Tokens(s) # <<>> THEN Top(Start(Tokens(s), room)) ELSE Start(<<>>, room)

\* A tree without its ids.
Stripped[t \in Dag] ==
  IF t = Null THEN <<>>
  ELSE IF t.op = "val" THEN <<"val", t.val>>
  ELSE IF t.op = "neg" THEN <<"neg", Stripped[t.right]>>
  ELSE <<t.op, Stripped[t.left], Stripped[t.right]>>

-----------------------------------------------------------------------------
(* reflect: a statement for each node, those of the operands before.       *)

Statement(t) ==
  CASE t.op = "val" -> <<t.id, "val", t.val>>
    [] t.op = "neg" -> <<t.id, "neg", t.right.id>>
    [] OTHER        -> <<t.id, t.op, t.left.id, t.right.id>>

Reflect[t \in Dag] ==
  IF t = Null THEN <<>> ELSE Reflect[t.left] \o Reflect[t.right] \o <<Statement(t)>>

Generate(t) == [body |-> Reflect[t], returns |-> t.id]

-----------------------------------------------------------------------------
(* What a C compiler makes of the statements: what each variable stands    *)
(* for.  A variable is declared once, and before it is used; there is no   *)
(* literal for infinity.                                                   *)

NoProgram == <<"none">>

Accepts(s, st, env) ==
  /\ st[1] \notin DOMAIN env
  /\ CASE st[2] = "val" -> s[st[3]] # "i"
       [] st[2] = "neg" -> st[3] \in DOMAIN env
       [] OTHER         -> {st[3], st[4]} \subseteq DOMAIN env

Term(st, env) ==
  CASE st[2] = "val" -> <<"val", st[3]>>
    [] st[2] = "neg" -> <<"neg", env[st[3]]>>
    [] OTHER         -> <<st[2], env[st[3]], env[st[4]]>>

Declaring(env, v, term) ==
  [w \in DOMAIN env \cup {v} |-> IF w = v THEN term ELSE env[w]]

After(s, st, c) ==
  IF c.ok /\ Accepts(s, st, c.env)
  THEN [c EXCEPT !.env = Declaring(@, st[1], Term(st, @))]
  ELSE [c EXCEPT !.ok = FALSE]

Meaning(s, program) ==
  LET compiled[k \in 0 .. Len(program.body)] ==
        IF k = 0 THEN [ok |-> TRUE, env |-> <<>>]
        ELSE After(s, program.body[k], compiled[k - 1])
      all == compiled[Len(program.body)]
  IN  IF all.ok /\ program.returns \in DOMAIN all.env
      THEN all.env[program.returns] ELSE NoProgram

-----------------------------------------------------------------------------
(* The grammar in the comments of parser.c, left-associative: the terms    *)
(* that the tokens from i to j derive from a symbol.                       *)

Symbols == {"primary", "unary", "term", "expr"}

Spans(t) == Symbols \X (1 .. Len(t) + 1) \X (0 .. Len(t))

Derives(t) ==
  LET D[x \in Spans(t)] ==
        LET i == x[2]
            j == x[3]
            Binary(ops, operand) ==
              UNION {{<<t[k].op, l, r>> : l \in D[<<x[1], i, k - 1>>],
                                          r \in D[<<operand, k + 1, j>>]} :
                     k \in {m \in i + 1 .. j - 1 : t[m].op \in ops}}
        IN  CASE x[1] = "primary" ->
                   IF i = j /\ t[i].op = "val" THEN {<<"val", t[i].at>>}
                   ELSE IF i + 1 < j /\ t[i].op = "(" /\ t[j].op = ")"
                   THEN D[<<"expr", i + 1, j - 1>>] ELSE {}
              [] x[1] = "unary" ->
                   D[<<"primary", i, j>>] \cup
                   (IF i < j /\ t[i].op = "+" THEN D[<<"unary", i + 1, j>>]
                    ELSE IF i < j /\ t[i].op = "-"
                    THEN {<<"neg", y>> : y \in D[<<"unary", i + 1, j>>]} ELSE {})
              [] x[1] = "term" -> D[<<"unary", i, j>>] \cup Binary({"*", "/"}, "unary")
              [] OTHER -> D[<<"term", i, j>>] \cup Binary({"+", "-"}, "term")
  IN  D

Terms(s) ==
  IF Lexes(s) /\ Tokens(s) # <<>> THEN Derives(Tokens(s))[<<"expr", 1, Len(Tokens(s))>>] ELSE {}
=============================================================================
