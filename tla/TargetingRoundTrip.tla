--------------------------- MODULE TargetingRoundTrip -----------------------
(***************************************************************************)
(* A targeting expression on its way: the panel stores the tree of what    *)
(* the experimenter has entered, shows it as text, and a new version       *)
(* carries the text back.                                                  *)
(***************************************************************************)
EXTENDS Targeting

CONSTANT Subjects  \* attributes of subjects: functions from names to values

VARIABLES
    entered,      \* the tree of the expression the experimenter has entered
    tree,         \* the tree in the database
    shown         \* the text an answer of the panel holds, as tokens

targetingVars == <<entered, tree, shown>>

-----------------------------------------------------------------------------
(* The panel *)

TargetingInit(expressions) ==
    /\ entered \in expressions
    /\ tree = entered
    /\ shown = <<>>

FormatTargeting ==
    /\ shown = <<>>
    /\ shown' = FormatNode(tree)
    /\ UNCHANGED <<entered, tree>>

\* A text that does not parse is refused (ErrInvalidTargeting).
ParseTargeting ==
    /\ shown # <<>>
    /\ LET node == Parse(shown)
       IN tree' = IF node = NoNode THEN tree ELSE node
    /\ shown' = <<>>
    /\ UNCHANGED entered

TargetingNext == FormatTargeting \/ ParseTargeting

-----------------------------------------------------------------------------
(* Properties *)

RECURSIVE Leaves(_)
Leaves(node) ==
    CASE node.type \in {"or", "and"} -> Leaves(node.left) \cup Leaves(node.right)
      [] node.type = "not" -> Leaves(node.child)
      [] OTHER -> {node}

Literals(leaf) == IF leaf.type = "cmp" THEN {leaf.value} ELSE leaf.values

Printable(node) == \A leaf \in Leaves(node) : \A v \in Literals(leaf) : v.printable

\* What the panel shows means what is stored: an expression that is read, sent
\* back and stored again, however often, is never refused and selects the same
\* subjects as the one that was entered - unless a string in it does not
\* survive strconv.Quote and the lexer.
RoundTripKeepsMatch ==
    /\ shown # <<>> => Parse(shown) # NoNode
    /\ Printable(entered) =>
           \A s \in Subjects : EvalNode(tree, s) = EvalNode(entered, s)
=============================================================================
