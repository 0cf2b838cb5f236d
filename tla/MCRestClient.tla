---------------------------- MODULE MCRestClient ----------------------------
(* One call of every shape the services have, and two calls that share the   *)
(* token source.                                                             *)
EXTENDS RestClient

CONSTANTS c1, c2

TwoCalls == {c1, c2}
Fetch == [hasBody |-> FALSE, answer |-> "decoded", effect |-> "read"]

EachShapeAndAPair ==
  {[c \in TwoCalls |-> IF c = c1 THEN s ELSE NoShape] : s \in Shapes}
    \cup {[c \in TwoCalls |-> Fetch]}

=============================================================================
