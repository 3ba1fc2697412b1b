---- MODULE MCPolicyFiles ----
(***************************************************************************)
(* Small instances of PolicyFiles: policies a and b, two versions of a, a  *)
(* document without a name and one that does not parse.                    *)
(***************************************************************************)
EXTENDS PolicyFiles, FiniteSets, TLC

CONSTANTS a, b, a1, a2, b1, u, x

MCNameOf == a1 :> a @@ a2 :> a @@ b1 :> b @@ u :> Unnamed @@ x :> Unparsable

Req(op, docs, lenient) == [op |-> op, docs |-> docs, lenient |-> lenient]

\* Applies that overlap in a, one that fails half way, deletes of what is and
\* what is not there, with and without --ignore-not-found, and a bad input.
AllRequests ==
    {Req("apply", <<a1, b1>>, FALSE), Req("apply", <<a2>>, FALSE),
     Req("apply", <<b1, u, a2>>, FALSE),
     Req("delete", <<b1, a1>>, TRUE), Req("delete", <<a1, x>>, FALSE),
     Req("delete", <<a1>>, FALSE),
     Req("list", <<>>, FALSE), Req("purge", <<>>, FALSE)}

\* What the liveness run starts: every operation, with and without success.
ShortRequests ==
    {Req("apply", <<a1, u>>, FALSE), Req("delete", <<b1, a1>>, TRUE),
     Req("list", <<>>, FALSE), Req("purge", <<>>, FALSE)}

Symmetry == Permutations(Procs)
====
