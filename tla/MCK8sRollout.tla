---- MODULE MCK8sRollout ----
(***************************************************************************)
(* Small instances of K8sRollout: two nodes, one of them with AppArmor.    *)
(***************************************************************************)
EXTENDS K8sRollout

CONSTANTS n1, n2, v1, v2

Cmd(op, img, wait, skip) == [op |-> op, img |-> img, wait |-> wait, skip |-> skip]

\* Installs in each of their forms, to the same or another image, and upgrades.
AllCommands == {Cmd("install", v1, TRUE, FALSE), Cmd("install", v1, FALSE, FALSE),
                Cmd("install", v2, TRUE, TRUE), Cmd("upgrade", v2, TRUE, FALSE)}

\* An install, then an upgrade to another image.
Rolls == {Cmd("install", v1, TRUE, TRUE), Cmd("upgrade", v2, TRUE, FALSE)}

Waiting == {Cmd("install", v1, TRUE, FALSE)}
====
