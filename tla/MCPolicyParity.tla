--------------------------- MODULE MCPolicyParity ---------------------------
(* Instances of PolicyParity for TLC: contents that differ in one field, in *)
(* two, and in none, and one bulk body, which writes a policy twice.        *)
EXTENDS PolicyParity

CONSTANTS p1, p2, x, y

Content(name, action) ==
  [f \in Fields |-> IF f = "name" THEN name ELSE IF f = "action" THEN action ELSE x]

TheDefault == Content(x, x)
SomeContents == {TheDefault, Content(x, y), Content(y, x)}
OneBulk == {<<[policy |-> p1, content |-> Content(y, x)],
              [policy |-> p2, content |-> Content(x, y)],
              [policy |-> p1, content |-> Content(x, y)]>>}
=============================================================================
