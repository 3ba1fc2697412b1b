---- MODULE MCCommandLine ----
(***************************************************************************)
(* A small instance of CommandLine: many command lines with a plain file,  *)
(* and every short file with each command that reads one.                  *)
(***************************************************************************)
EXTENDS CommandLine, TLC

CONSTANTS web, plain, listed, loose, unnamed

Full == [apiVersion |-> TRUE, kind |-> TRUE, name |-> "web", action |-> "known",
         selector |-> TRUE, matchLabels |-> TRUE, applyToAll |-> FALSE, mistyped |-> {}]

\* web is a policy, plain one that selects as the CRD does, without matchLabels, and
\* listed one whose metadata.labels is no map; loose has a name and nothing validate
\* would accept, its matchLabels is no map either.
MCManifestOf == web :> Full
             @@ plain :> [Full EXCEPT !.name = "plain", !.matchLabels = FALSE]
             @@ listed :> [Full EXCEPT !.name = "listed", !.mistyped = {"labels"}]
             @@ loose :> [Full EXCEPT !.name = "loose", !.action = "other",
                                      !.mistyped = {"action", "matchLabels"}]
             @@ unnamed :> [Full EXCEPT !.name = NoName, !.selector = FALSE,
                                        !.matchLabels = FALSE, !.applyToAll = TRUE]

UpTo(n, S) == UNION {[1..k -> S] : k \in 0..n}

\* Before the verb: flags with their value and without, a misspelt flag, a call for
\* help, a word.
Ahead == {Flag(2, "env", "k8s"), Flag(1, "env", Unset), Flag(2, "env", Unset),
          Flag(2, "server", "s1"), Flag(2, "evn", "docker"), Flag(1, "h", Unset),
          Word("docker"), Terminator}

\* Behind it: the same misplaced, the flags of apply, words.
Behind == {Flag(2, "env", "k8s"), Flag(1, "env", Unset), Flag(2, "server", Unset),
           Flag(1, "server", "s2"), Flag(2, "dry-run", Unset), Flag(1, "h", Unset),
           Word("docker"), Word("policy"), Terminator}

f == <<Flag(1, "f", "file")>>
Commands == {<<Word("apply")>> \o f, <<Word("delete")>>, <<Word("get")>>,
             <<Word("describe")>>, <<Word("stream"), Word("events")>>,
             <<Word("upgrade"), Flag(2, "image", "v2")>>, <<Word("uninstall")>>,
             <<Word("sysdump")>>}

Others == {<<Word("install")>>, <<Word("status"), Flag(1, "o", "json")>>,
           <<Word("label"), Word("container"), Word("c"), Word("k=v")>>,
           <<Word("label"), Word("pod"), Word("c"), Flag(1, "n", "prod")>>,
           <<Word("delete"), Flag(2, "ignore-not-found", Unset), Word("policy"), Word("web"),
             Flag(2, "ignore-not-found", Unset)>>,
           <<Word("get"), Word("policies"), Flag(1, "A", Unset), Flag(1, "o", "wide")>>,
           <<Word("get"), Word("nodes")>>, <<Word("get"), Word("pods")>>,
           <<Word("describe"), Word("node"), Word("n1")>>, <<Word("completion"), Word("fish")>>,
           <<Word("completion"), Word("zsh")>>, <<Word("help")>>, <<Word("version")>>,
           <<Word("delete")>> \o f \o <<Word("web")>>,
           <<Word("stream"), Word("logs"), Flag(1, "level", "INFO")>>,
           <<Word("stream"), Word("log"), Flag(1, "level", "INFO")>>,
           <<Word("stream"), Word("alert"), Flag(1, "level", "INFO")>>,
           <<Word("describe"), Word("policy"), Word("web")>>, <<Word("policy")>>}

\* A flag given twice, or with nothing for a value.
Repeated == {<<Flag(2, "env", "k8s"), Flag(1, "env", "docker"), Word("uninstall")>>,
             <<Flag(2, "env", ""), Word("uninstall")>>,
             <<Flag(2, "server", Unset), Flag(2, "env", Unset), Flag(2, "env", "k8s"),
               Word("uninstall")>>,
             <<Word("upgrade"), Flag(2, "image", "v2"), Flag(2, "dry-run", Unset),
               Flag(2, "dry-run", "false")>>,
             <<Word("upgrade"), Flag(2, "image", "v2"), Flag(2, "dry-run", "0"),
               Flag(2, "dry-run", "T")>>,
             <<Word("upgrade"), Flag(2, "image", "v2"), Flag(2, "dry-run", "maybe")>>}

Readers == {<<Word("apply")>> \o f, <<Word("apply"), Flag(2, "dry-run", Unset)>> \o f,
            <<Word("delete")>> \o f, <<Word("policy"), Word("validate")>> \o f,
            <<Word("inject")>> \o f \o <<Flag(2, "target", "container"), Word("c")>>,
            <<Word("inject")>> \o f \o <<Flag(2, "target", "vm"), Word("c")>>}

\* Two policies in a row are one block, which is not one of Policies.
Files == {lines \in UpTo(4, Lines) :
            \A i, j \in DOMAIN lines :
               (i < j /\ lines[i] \in Content /\ lines[j] \in Content) =>
                  \E k \in i..j : lines[k] \in {"---", Indented, Commented}}

\* One of each kind, both, neither, and a pod that may not use its cluster.
Hosts == {[found |-> {}, file |-> ""],
          [found |-> {"docker.sock", "serviceHost"}, file |-> "s0"],
          [found |-> {"kubeconfig"}, file |-> ""],
          [found |-> {"docker.sock", "serviceHost", "token"}, file |-> ""]}

CommandLines ==
    {a \o c \o b : a \in UpTo(2, Ahead), c \in Commands, b \in UpTo(1, Behind)}
    \cup {a \o c \o b : a \in UpTo(1, Ahead), c \in Commands, b \in UpTo(2, Behind)}
    \cup {a \o c : a \in UpTo(2, Ahead), c \in Others}
    \cup {a \o c : a \in UpTo(1, Ahead), c \in Repeated}

MCInvocations ==
    [argv : CommandLines, input : {<<web>>}, host : Hosts]
    \cup [argv : {<<Flag(2, "env", "docker")>> \o c : c \in Readers}, input : Files,
          host : {[found |-> {}, file |-> ""]}]
====
