------------------------------ MODULE Programs ------------------------------
(***************************************************************************)
(* matrix-3.0: the interpreter that runs a program of assignments and      *)
(* loops by turning it into a matrix.  A text is a sequence of pieces, the *)
(* tokens and the runs of spaces between them; a linear combination is a   *)
(* function on the variables and One, modulo Mod (2^64 in the code).       *)
(***************************************************************************)
EXTENDS Integers, Sequences, SequencesExt, FiniteSets, FiniteSetsExt

CONSTANTS Var, Mod,
          Literal,              \* the number in the programs
          Counts,               \* the numbers of iterations
          MaxExpr, MaxLines     \* bounds on an expression's tokens and a program's lines

ProgramConstants == Mod \in Nat \ {0} /\ {Literal} \cup Counts \subseteq Nat

VARIABLES code,                 \* the program, line by line; <<>> before it is chosen
          outcome               \* what Run returns

vars == <<code, outcome>>

Token(type, number, name) == [type |-> type, number |-> number, name |-> name]
Number(n) == Token("kNumber", n, "")
Spaces(n) == Token("spaces", n, "")
Symbol(c) == Token("kSymbol", 0, c)
Variable(v) == Token("kVar", 0, v)
NewLine == Token("kNewLine", 0, "")
Tab == Token("kTab", 0, "")
IsSymbol(t, S) == t.type = "kSymbol" /\ t.name \in S
-----------------------------------------------------------------------------
\* Tokenizer: four spaces make a tab, which counts at the beginning of a line only;
\* an empty line is dropped.
Consume(p) == IF p.type = "spaces" THEN [i \in 1..p.number \div 4 |-> Tab] ELSE <<p>>

Place(a, t) ==
    CASE t.type = "kNewLine" /\ a.line # <<>> -> [line |-> <<>>, program |-> Append(a.program, Append(a.line, t))]
      [] t.type = "kNewLine" /\ a.line = <<>> -> a
      [] t.type = "kTab" /\ a.line # <<>> /\ Last(a.line).type # "kTab" -> a
      [] OTHER -> [a EXCEPT !.line = Append(@, t)]

Tokenize(text) ==
    LET a == FoldLeft(Place, [line |-> <<>>, program |-> <<>>], FlattenSeq([i \in DOMAIN text |-> Consume(text[i])]))
    IN IF a.line = <<>> THEN a.program ELSE Append(a.program, Append(a.line, NewLine))
-----------------------------------------------------------------------------
One == "1"
Dim == Var \cup {One}
Unit(x, n) == [d \in Dim |-> IF d = x THEN n % Mod ELSE 0]
Scale(n, c) == [d \in Dim |-> (n * c[d]) % Mod]
Plus(c, e) == [d \in Dim |-> (c[d] + e[d]) % Mod]
IsConstant(c) == \A v \in Var : c[v] = 0

\* What a constructor leaves behind: the coefficients, the place in the line, and
\* whether nothing was thrown.
Parsed(c, i) == [c |-> c, at |-> i, ok |-> TRUE]

\* Evaluate of Mul and of Sum.
Product(l, r) ==
    [r EXCEPT !.c = IF IsConstant(l.c) THEN Scale(l.c[One], r.c) ELSE Scale(r.c[One], l.c),
              !.ok = l.ok /\ r.ok /\ (IsConstant(l.c) \/ IsConstant(r.c))]
Total(l, r, sign) == [r EXCEPT !.c = Plus(l.c, Scale(sign, r.c)), !.ok = l.ok /\ r.ok]

RECURSIVE Constant(_, _), Factors(_, _), Terms(_, _), Sum(_, _)

\* A token that begins no operand is left where it is and counts as zero.
Constant(line, i) ==
    LET t == line[i] IN
    CASE t.type = "kNumber" -> Parsed(Unit(One, t.number), i + 1)
      [] t.type = "kVar" -> Parsed(Unit(t.name, 1), i + 1)
      [] IsSymbol(t, {"-"}) -> LET r == Constant(line, i + 1) IN [r EXCEPT !.c = Scale(-1, @)]
      [] IsSymbol(t, {"("}) -> LET r == Sum(line, i + 1)
                               IN [r EXCEPT !.at = @ + 1, !.ok = @ /\ IsSymbol(line[r.at], {")"})]
      [] OTHER -> Parsed(Unit(One, 0), i)

\* Mul and Sum associate to the left.
Factors(line, l) == IF l.ok /\ IsSymbol(line[l.at], {"*"})
                    THEN Factors(line, Product(l, Constant(line, l.at + 1))) ELSE l
Mul(line, i) == Factors(line, Constant(line, i))

PlusForMinus(op) == 1           \* mutant: a difference is a sum
Sign(op) == IF op = "+" THEN 1 ELSE -1
Terms(line, l) == IF l.ok /\ IsSymbol(line[l.at], {"+", "-"})
                  THEN Terms(line, Total(l, Mul(line, l.at + 1), Sign(line[l.at].name))) ELSE l
Sum(line, i) == Terms(line, Mul(line, i))
-----------------------------------------------------------------------------
\* Matrices, by rows.
Identity == [d \in Dim |-> Unit(d, 1)]
Dot(a, b) == [i \in Dim |-> [j \in Dim |-> MapThenSumSet(LAMBDA z : a[i][z] * b[z][j], Dim) % Mod]]

RECURSIVE PowLoop(_, _, _)
PowLoop(res, m, n) ==
    LET r == IF n % 2 = 1 THEN Dot(res, m) ELSE res
    IN IF n \div 2 = 0 THEN r ELSE PowLoop(r, Dot(m, m), n \div 2)
Pow(m, n) == PowLoop(Identity, m, n)

GatherVars(lines) == {t.name : t \in {u \in UNION {ToSet(l) : l \in ToSet(lines)} : u.type = "kVar"}}
CountTabs(line) == Min({i \in DOMAIN line : line[i].type # "kTab"}) - 1
Error == [m |-> Identity, ok |-> FALSE]

\* VAR = EXPR, +=, -= or *= at place i: the matrix with the variable's new column.
Assignment(line, i) ==
    LET v == line[i].name
        op == IF line[i + 1].type = "kSymbol" THEN line[i + 1].name ELSE "none"
        j == IF op = "none" THEN i + 1 ELSE i + 2
        e == Sum(line, j + 1)
        column == CASE op = "none" -> e.c
                    [] op = "+" -> Plus(e.c, Unit(v, 1))
                    [] op = "-" -> Plus(Scale(-1, e.c), Unit(v, 1))
                    [] op = "*" -> Unit(v, e.c[One])
    IN IF /\ op \in {"none", "+", "-", "*"} /\ line[j].type = "kEqv"
          /\ e.ok /\ line[e.at].type = "kNewLine" /\ (op = "*" => IsConstant(e.c))
       THEN [m |-> [d \in Dim |-> [Identity[d] EXCEPT ![v] = column[d]]], ok |-> TRUE]
       ELSE Error

\* The lines after a for that are indented more than depth.
Body(lines, depth) == LET out == {i \in DOMAIN lines : i > 1 /\ CountTabs(lines[i]) <= depth}
                      IN SubSeq(lines, 2, IF out = {} THEN Len(lines) ELSE Min(out) - 1)

RECURSIVE Calculate(_, _, _)
Calculate(lines, depth, res) ==
    IF lines = <<>> THEN [m |-> res, ok |-> TRUE]
    ELSE LET line == Head(lines)
             i == CountTabs(line) + 1
             body == Body(lines, depth)
             Then(step, rest) == IF step.ok THEN Calculate(rest, depth, Dot(res, step.m)) ELSE Error
         IN CASE i # depth + 1 -> Error
              [] i = depth + 1 /\ line[i].type = "kVar" -> Then(Assignment(line, i), Tail(lines))
              [] i = depth + 1 /\ line[i].type = "kFor" ->
                    IF line[i + 1].type # "kNumber" \/ line[i + 2].type # "kNewLine" \/ body = <<>> THEN Error
                    ELSE LET inner == Calculate(body, depth + 1, Identity)
                         IN Then([inner EXCEPT !.m = Pow(@, line[i + 1].number)], SubSeq(lines, Len(body) + 2, Len(lines)))
              [] i = depth + 1 /\ line[i].type = "kNewLine" -> Calculate(Tail(lines), depth, res)
              [] OTHER -> Error
CalculateTransformMatrix(lines) == Calculate(lines, 0, Identity)

\* Run: the row of (0, ..., 0, 1).
Run(text) ==
    LET lines == Tokenize(text)
        r == CalculateTransformMatrix(lines)
    IN [ok |-> r.ok, values |-> [v \in GatherVars(lines) |-> r.m[One][v]]]
-----------------------------------------------------------------------------
\* The meaning of an expression: split at the last + or - outside parentheses that
\* has an operand on its left, then at the last such *.
Level(e, i) == Cardinality({j \in 1..i : IsSymbol(e[j], {"("})}) - Cardinality({j \in 1..i : IsSymbol(e[j], {")"})})
Splits(e, ops) == {i \in 2..Len(e) : IsSymbol(e[i], ops) /\ Level(e, i) = 0 /\ ~IsSymbol(e[i - 1], {"+", "-", "*", "("})}
Split(e) == LET s == Splits(e, {"+", "-"}) IN Max(IF s # {} THEN s ELSE Splits(e, {"*"}) \cup {0})
Left(e) == SubSeq(e, 1, Split(e) - 1)
Right(e) == SubSeq(e, Split(e) + 1, Len(e))
Inside(e) == SubSeq(e, 2, Len(e) - 1)

RECURSIVE WellFormed(_), Value(_, _), Linear(_)
WellFormed(e) == /\ e # <<>>
                 /\ IF Split(e) > 0 THEN WellFormed(Left(e)) /\ WellFormed(Right(e))
                    ELSE \/ IsSymbol(e[1], {"-"}) /\ WellFormed(Tail(e))
                         \/ IsSymbol(e[1], {"("}) /\ IsSymbol(Last(e), {")"}) /\ WellFormed(Inside(e))
                         \/ Len(e) = 1 /\ e[1].type # "kSymbol"
Value(e, env) ==
    IF Split(e) > 0 THEN LET l == Value(Left(e), env)
                             r == Value(Right(e), env)
                             op == e[Split(e)].name
                         IN (IF op = "*" THEN l * r ELSE IF op = "+" THEN l + r ELSE l - r) % Mod
    ELSE IF IsSymbol(e[1], {"-"}) THEN (-Value(Tail(e), env)) % Mod
    ELSE IF IsSymbol(e[1], {"("}) THEN Value(Inside(e), env)
    ELSE IF e[1].type = "kVar" THEN env[e[1].name] ELSE e[1].number % Mod

-----------------------------------------------------------------------------
\* The programs: each line has a depth, and is a loop or an assignment; gap spaces
\* stand between the tokens, and an empty line between the lines.
Alphabet == {Variable(v) : v \in Var} \cup {Number(Literal)} \cup {Symbol(c) : c \in {"+", "-", "*", "(", ")"}}
Short == SeqOf(Alphabet, MaxExpr)
Nested == LET inner == {<<Symbol("(")>> \o e \o <<Symbol(")")>> : e \in {f \in [1..3 -> Alphabet] : WellFormed(f)}}
              ops == {<<Symbol(c)>> : c \in {"+", "-", "*"}}
              outer == {<<t>> : t \in {u \in Alphabet : u.type # "kSymbol"}}
          IN {e \o op \o f : e \in inner, op \in ops, f \in outer} \cup {f \o op \o e : e \in inner, op \in ops, f \in outer}
a == CHOOSE v \in Var : TRUE
b == CHOOSE v \in Var \ {a} : TRUE
Assign(v, op, expr) == [kind |-> "assign", var |-> v, op |-> op, expr |-> expr, n |-> 0]
For(n) == [kind |-> "for", var |-> a, op |-> "none", expr |-> <<>>, n |-> n]
Statements ==
    LET plus(v) == <<Variable(v), Symbol("+"), Number(Literal)>>
    IN {For(n) : n \in Counts} \cup {Assign(a, "none", plus(b)), Assign(b, "-", plus(a)),
        Assign(a, "*", <<Number(Literal)>>), Assign(a, "+", <<Symbol("-"), Variable(a)>>)}
Indented(s, d) == [depth |-> d, s |-> s]

Join(tokens, gap) == FlattenSeq([i \in DOMAIN tokens |-> <<tokens[i], Spaces(gap)>>])
Text(lines, gap) ==
    FlattenSeq([i \in DOMAIN lines |->
        LET s == lines[i].s IN
        <<Spaces(4 * lines[i].depth)>>
        \o Join(IF s.kind = "for" THEN <<Token("kFor", 0, ""), Number(s.n)>>
                ELSE <<Variable(s.var)>> \o (IF s.op = "none" THEN <<>> ELSE <<Symbol(s.op)>>)
                     \o <<Token("kEqv", 0, "")>> \o s.expr, gap)
        \o (IF gap = 0 THEN <<NewLine>> ELSE <<NewLine, NewLine>>)])

Init == code = <<>> /\ outcome = <<>>

Choose(lines) == code' = lines /\ \E gap \in {0, 5} : outcome' = <<Run(Text(lines, gap))>>

Next == /\ code = <<>>
        /\ \/ \E op \in {"none", "*"}, e \in Short \cup Nested : Choose(<<Indented(Assign(a, op, e), 0)>>)
           \/ \E n \in 1..MaxLines : \E s \in [1..n -> Statements], d \in [1..n -> 0..2] :
                 Choose([i \in 1..n |-> Indented(s[i], d[i])])

Spec == Init /\ [][Next]_vars
-----------------------------------------------------------------------------
Zeros == [v \in Var |-> 0]
Independent(e) == \A v \in Var : Value(e, [Zeros EXCEPT ![v] = 1]) = Value(e, Zeros)
Linear(e) == IF Split(e) > 0
             THEN /\ Linear(Left(e)) /\ Linear(Right(e))
                  /\ e[Split(e)].name = "*" => Independent(Left(e)) \/ Independent(Right(e))
             ELSE Len(e) > 1 => Linear(IF IsSymbol(e[1], {"-"}) THEN Tail(e) ELSE Inside(e))

\* A loop is followed by its body, and only by it deeper.
WellNested(lines) ==
    \A i \in DOMAIN lines :
        /\ i = 1 => lines[i].depth = 0
        /\ IF lines[i].s.kind = "for" THEN i < Len(lines) /\ lines[i + 1].depth = lines[i].depth + 1
           ELSE i < Len(lines) => lines[i + 1].depth <= lines[i].depth

\* Running the lines one after the other.
RECURSIVE Execute(_, _), Repeat(_, _, _)
Execute(lines, env) ==
    IF lines = <<>> THEN env
    ELSE LET s == Head(lines).s
             out == {i \in 2..Len(lines) : lines[i].depth <= lines[1].depth}
             last == IF out = {} THEN Len(lines) ELSE Min(out) - 1
             new == IF s.kind = "for" THEN 0 ELSE Value(s.expr, env)
             old == env[s.var]
         IN IF s.kind = "for"
            THEN Execute(SubSeq(lines, last + 1, Len(lines)), Repeat(SubSeq(lines, 2, last), s.n, env))
            ELSE Execute(Tail(lines), [env EXCEPT ![s.var] =
                    (CASE s.op = "none" -> new [] s.op = "+" -> old + new
                       [] s.op = "-" -> old - new [] s.op = "*" -> old * new) % Mod])
Repeat(lines, n, env) == IF n = 0 THEN env ELSE Repeat(lines, n - 1, Execute(lines, env))

Sound(s) == s.kind = "for" \/ (Linear(s.expr) /\ (s.op = "*" => Independent(s.expr)))

\* A program whose expressions are in the grammar is accepted exactly if its loops
\* are well nested and its expressions linear, and then the matrix yields the values
\* that running it line by line does, whatever the spaces between its tokens.
ProgramsAgree ==
    outcome # <<>> /\ (\A i \in DOMAIN code : code[i].s.kind = "for" \/ WellFormed(code[i].s.expr)) =>
        /\ outcome[1].ok <=> WellNested(code) /\ \A i \in DOMAIN code : Sound(code[i].s)
        /\ outcome[1].ok => \A v \in DOMAIN outcome[1].values : outcome[1].values[v] = Execute(code, Zeros)[v]
=============================================================================
