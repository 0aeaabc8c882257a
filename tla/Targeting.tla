----------------------------- MODULE Targeting -----------------------------
(***************************************************************************)
(* The targeting language: an expression is parsed into a syntax tree,     *)
(* printed as text again, and evaluated against the attributes of a        *)
(* subject.                                                                *)
(*                                                                         *)
(* A comparison is one token here: lexer and literals are left out, except *)
(* for what decides the value of a literal that is printed and read again. *)
(* Values carry their type, their order within it, and for strings the     *)
(* number they parse as.                                                   *)
(***************************************************************************)
EXTENDS Naturals, Sequences, SequencesExt

NotNumeric == 99

\* A string is printable when strconv.Quote leaves it as it is.
Number(n) == [type |-> "number", n |-> n, parsed |-> n, printable |-> TRUE]
Text(n, parsed) == [type |-> "string", n |-> n, parsed |-> parsed, printable |-> TRUE]
Bool(n) == [type |-> "bool", n |-> n, parsed |-> NotNumeric, printable |-> TRUE]
Null == [type |-> "null", n |-> 0, parsed |-> NotNumeric, printable |-> TRUE]
Missing == [type |-> "missing", n |-> 0, parsed |-> NotNumeric, printable |-> TRUE]
Unprintable(n) == [Text(n, NotNumeric) EXCEPT !.printable = FALSE]

-----------------------------------------------------------------------------
(* Syntax trees *)

OrNode(l, r) == [type |-> "or", left |-> l, right |-> r]
AndNode(l, r) == [type |-> "and", left |-> l, right |-> r]
NotNode(c) == [type |-> "not", child |-> c]
CmpNode(f, op, v) == [type |-> "cmp", field |-> f, op |-> op, value |-> v]
InNode(f, vs, negated) == [type |-> "in", field |-> f, values |-> vs, negated |-> negated]
NoNode == [type |-> "none"]

-----------------------------------------------------------------------------
(* Evaluation: yes, no, or an error, which the runtime takes for no *)

Truth(b) == IF b THEN "yes" ELSE "no"

Numeric(v) == v.type = "number" \/ (v.type = "string" /\ v.parsed # NotNumeric)

Ordered(a, op, b) ==
    CASE op = "==" -> a = b
      [] op = "!=" -> a # b
      [] op = ">" -> a > b
      [] op = ">=" -> a >= b
      [] op = "<" -> a < b
      [] op = "<=" -> a <= b

\* Values of one type are compared as such, strings with numbers as numbers;
\* any other pair does not match.  Booleans have no order.
CompareValues(a, op, b) ==
    CASE a.type = b.type /\ a.type = "bool" ->
             IF op \in {"==", "!="} THEN Truth(Ordered(a.n, op, b.n)) ELSE "error"
      [] a.type = b.type /\ a.type # "bool" -> Truth(Ordered(a.n, op, b.n))
      [] {a.type, b.type} = {"number", "string"} ->
             Truth(Numeric(a) /\ Numeric(b) /\ Ordered(a.parsed, op, b.parsed))
      [] OTHER -> "no"

Absent(v) == v.type \in {"missing", "null"}

EvalCmp(node, subject) ==
    LET attribute == subject[node.field]
    IN CASE node.value.type = "null" /\ node.op = "==" -> Truth(Absent(attribute))
         [] node.value.type = "null" /\ node.op = "!=" -> Truth(~ Absent(attribute))
         [] node.value.type = "null" /\ node.op \notin {"==", "!="} -> "error"
         [] node.value.type # "null" /\ Absent(attribute) -> "no"
         [] OTHER -> CompareValues(attribute, node.op, node.value)

EvalIn(node, subject) ==
    LET attribute == subject[node.field]
        found == \E v \in node.values :
                    /\ v.type # "null"
                    /\ CompareValues(attribute, "==", v) = "yes"
    IN IF Absent(attribute) THEN Truth(node.negated) ELSE Truth(found # node.negated)

\* Both sides are always evaluated.
RECURSIVE EvalNode(_, _)
EvalNode(node, subject) ==
    CASE node.type \in {"or", "and"} ->
             LET sides == {EvalNode(node.left, subject), EvalNode(node.right, subject)}
             IN IF "error" \in sides THEN "error"
                ELSE Truth(IF node.type = "or" THEN "yes" \in sides ELSE sides = {"yes"})
      [] node.type = "not" ->
             LET inner == EvalNode(node.child, subject)
             IN IF inner = "error" THEN "error" ELSE Truth(inner = "no")
      [] node.type = "cmp" -> EvalCmp(node, subject)
      [] node.type = "in" -> EvalIn(node, subject)

TargetingMatch(node, subject) == EvalNode(node, subject) = "yes"

-----------------------------------------------------------------------------
(* Text *)

Sign(kind) == [kind |-> kind, node |-> NoNode]
Leaf(node) == [kind |-> "leaf", node |-> node]

\* What a literal is when its text is parsed: the lexer knows fewer escapes
\* than strconv.Quote writes.
Reread(v) == IF v.printable THEN v ELSE Text(v.n + 1, NotNumeric)

FormatLeaf(node) ==
    Leaf(IF node.type = "cmp" THEN [node EXCEPT !.value = Reread(@)]
         ELSE [node EXCEPT !.values = {Reread(v) : v \in @}])

Rank(type) ==
    CASE type = "or" -> 0
      [] type = "and" -> 1
      [] type = "not" -> 2
      [] OTHER -> 3

\* Mutant: no parentheses below NOT.
NeedsParensInAnd(child, parent) == child = "or" /\ parent = "and"

NeedsParens(child, parent) == Rank(child) < Rank(parent)

RECURSIVE FormatNode(_)
FormatNode(node) ==
    LET FormatChild(child) ==
            IF NeedsParens(child.type, node.type)
            THEN <<Sign("(")>> \o FormatNode(child) \o <<Sign(")")>>
            ELSE FormatNode(child)
    IN CASE node.type \in {"or", "and"} ->
                FormatChild(node.left) \o <<Sign(node.type)>> \o FormatChild(node.right)
         [] node.type = "not" -> <<Sign("not")>> \o FormatChild(node.child)
         [] OTHER -> <<FormatLeaf(node)>>

-----------------------------------------------------------------------------
(* The parser: a tree and the position after it; 0 is a syntax error *)

SyntaxError == [node |-> NoNode, pos |-> 0]

KindAt(tokens, pos) == IF pos \in 1..Len(tokens) THEN tokens[pos].kind ELSE "eof"

RECURSIVE ParseOr(_, _), ParseAnd(_, _), ParseUnary(_, _)
RECURSIVE OrTail(_, _), AndTail(_, _)

OrTail(tokens, left) ==
    IF KindAt(tokens, left.pos) # "or" THEN left
    ELSE LET right == ParseAnd(tokens, left.pos + 1)
         IN IF right.pos = 0 THEN SyntaxError
            ELSE OrTail(tokens, [right EXCEPT !.node = OrNode(left.node, right.node)])

ParseOr(tokens, pos) ==
    LET left == ParseAnd(tokens, pos)
    IN IF left.pos = 0 THEN SyntaxError ELSE OrTail(tokens, left)

AndTail(tokens, left) ==
    IF KindAt(tokens, left.pos) # "and" THEN left
    ELSE LET right == ParseUnary(tokens, left.pos + 1)
         IN IF right.pos = 0 THEN SyntaxError
            ELSE AndTail(tokens, [right EXCEPT !.node = AndNode(left.node, right.node)])

ParseAnd(tokens, pos) ==
    LET left == ParseUnary(tokens, pos)
    IN IF left.pos = 0 THEN SyntaxError ELSE AndTail(tokens, left)

ParsePrimary(tokens, pos) ==
    CASE KindAt(tokens, pos) = "(" ->
             LET inner == ParseOr(tokens, pos + 1)
             IN IF inner.pos # 0 /\ KindAt(tokens, inner.pos) = ")"
                THEN [inner EXCEPT !.pos = @ + 1] ELSE SyntaxError
      [] KindAt(tokens, pos) = "leaf" -> [node |-> tokens[pos].node, pos |-> pos + 1]
      [] OTHER -> SyntaxError

ParseUnary(tokens, pos) ==
    IF KindAt(tokens, pos) # "not" THEN ParsePrimary(tokens, pos)
    ELSE LET child == ParseUnary(tokens, pos + 1)
         IN IF child.pos = 0 THEN SyntaxError
            ELSE [child EXCEPT !.node = NotNode(child.node)]

\* Parse: the whole text has to be one expression.
Parse(tokens) ==
    LET parsed == ParseOr(tokens, 1)
    IN IF parsed.pos = Len(tokens) + 1 THEN parsed.node ELSE NoNode
=============================================================================
