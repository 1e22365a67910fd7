--------------------------- MODULE MCSecurityLoader ---------------------------
(* An acceptance that needs two writes, a refusal, nonsense, too much. *)
EXTENDS SecurityLoader

MCAnswers == {[verdict |-> "allow", size |-> 3], [verdict |-> "deny", size |-> 1],
              [verdict |-> "junk", size |-> 2], [verdict |-> "allow", size |-> 4]}
=============================================================================
