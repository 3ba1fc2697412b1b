---- MODULE MCDockerAgent ----
(***************************************************************************)
(* Small instances of DockerAgent: the agent and another container, whose  *)
(* name may contain the agent's; two images, one or two label keys.        *)
(***************************************************************************)
EXTENDS DockerAgent, FiniteSets, TLC

CONSTANTS other, v1, v2, k1, k2, yes

Req(op, name, img, wanted) ==
    [op |-> op, name |-> name, img |-> img, wanted |-> wanted]

Put(k, v) == [j \in Keys |-> IF j = k THEN v ELSE NoLabel]

\* Runs that replace the agent, on which all of them meet: no install and no
\* uninstall, so that nothing may get lost.  Two of them want different values.
ReplaceRequests ==
    {Req("upgrade", Agent, v2, <<>>),
     Req("label", Agent, Nothing, <<Put(k1, yes)>>),
     Req("label", Agent, Nothing, <<Put(k1, Empty)>>),
     Req("label", Agent, Nothing, <<Put(k2, yes)>>)}

\* Every operation; an inject of two documents, one without labels; a label
\* with an empty value; a container of another name.
AllRequests ==
    {Req("install", Agent, v1, <<>>), Req("upgrade", Agent, v2, <<>>),
     Req("uninstall", Agent, Nothing, <<>>),
     Req("label", Agent, Nothing, <<Put(k1, yes)>>),
     Req("label", other, Nothing, <<[k \in Keys |-> NoLabel], Put(k1, Empty), Put(k1, yes)>>)}

Symmetry == Permutations(Procs)
====
