---- MODULE MCK8sObjects ----
(***************************************************************************)
(* Small instances of K8sObjects: a policy in the agent's namespace and    *)
(* one elsewhere.                                                          *)
(***************************************************************************)
EXTENDS K8sObjects

CONSTANTS here, away, p1, p2

Req(op, wait, hook, purge, lenient, list) ==
    [op |-> op, wait |-> wait, hook |-> hook, purge |-> purge, lenient |-> lenient,
     list |-> list]

Install(wait, hook) == Req("install", wait, hook, FALSE, FALSE, <<>>)
Uninstall(purge) == Req("uninstall", FALSE, FALSE, purge, FALSE, <<>>)

\* One process installs and uninstalls, with and without a wait, a webhook and a
\* purge; the other applies and deletes policies meanwhile.
Installer == {Install(TRUE, TRUE), Install(FALSE, FALSE), Uninstall(FALSE), Uninstall(TRUE)}

Author == {Req("apply", FALSE, FALSE, FALSE, FALSE, <<here, away>>),
           Req("delete", FALSE, FALSE, FALSE, FALSE, <<away>>),
           Req("delete", FALSE, FALSE, FALSE, TRUE, <<away, here>>)}

TwoPeople == p1 :> Installer @@ p2 :> Author

JustUninstall == p1 :> {Uninstall(FALSE)} @@ p2 :> {}
====
