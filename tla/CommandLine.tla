---- MODULE CommandLine ----
(***************************************************************************)
(* The front of kkctl: Execute reads the global flags and the verb, a      *)
(* handler reads its own flags, its arguments and, with -f, its input, and *)
(* finds out which environment it is to work in.  Go's flag package stops  *)
(* at the first argument that is no flag, for the globals and for the verb *)
(* alike, and an error in the globals is ignored: what comes after one is  *)
(* taken for the verb.                                                     *)
(*                                                                         *)
(* Behind `touched` a command is at work on files, containers or the       *)
(* cluster; the other modules describe that.                               *)
(***************************************************************************)
EXTENDS PolicyInput, FiniteSets

CONSTANTS
    Invocations     \* the command line typed, the file it names, what is on the host

VARIABLES
    argv, host,     \* os.Args[1:]; the host kkctl runs on
    pc,
    rest,           \* arguments still to be read
    global, local,  \* flags set so far, [name -> value]
    verb, kind,     \* kind: the resource of get, the target of stream
    verbAt,         \* history: the place of the verb
    env,            \* what resolvedEnv returned
    server,         \* what loadClientConfig returned
    turn,           \* the document the handler's loop is at
    done,           \* names announced, applied, deleted or labelled
    bad,            \* has policy validate met an invalid document
    touched, code   \* has the command begun to work; its exit code

flagVars == <<global, local>>
verbVars == <<verb, kind, verbAt>>
handlerVars == <<env, server, turn, done, bad, touched>>
lineVars == <<argv, host, pc, rest, flagVars, verbVars, handlerVars, code>>
vars == <<inputVars, lineVars>>

\* An argument: a word has no dash, `--` has two and no name.
Unset == "unset"
Word(w) == [dashes |-> 0, name |-> w, val |-> Unset]
Flag(n, w, v) == [dashes |-> n, name |-> w, val |-> v]
Terminator == Flag(2, "", Unset)
IsFlag(a) == a.dashes > 0 /\ a # Terminator
\* The argument as it was typed, up to a `=`.
Text(a) == CASE a.dashes = 0 -> a.name
             [] a.dashes = 1 -> "-" \o a.name
             [] a.dashes = 2 -> "--" \o a.name

Verbs == {"probe", "install", "uninstall", "upgrade", "status", "apply", "delete", "get",
          "describe", "label", "inject", "policy", "stream", "sysdump", "completion",
          "version"}

\* A command line as it can be typed.
Argument == [dashes : 0..2, name : STRING, val : STRING]
ASSUME InvocationsAssumption ==
    \A i \in Invocations :
       i.argv \in Seq(Argument) /\ i.input \in Seq(Lines) /\ i.host.file \in STRING

\* Facts about strings that the provers do not have: a literal is one, what `\o` makes
\* of two is one, and does not begin like a verb if it begins with a dash.
ASSUME StringsAssumption ==
    /\ {"", "true", "false", "localhost:36890"} \subseteq STRING
    /\ \A i \in Invocations : \A k \in DOMAIN i.argv :
          /\ Text(i.argv[k]) \in STRING
          /\ Text(i.argv[k]) \in Verbs => i.argv[k].dashes = 0

Globals == {"env", "kubeconfig", "kube-context", "namespace", "server"}

\* The flags each flag set defines: those that take a value, those that do not.
\* `podName` stands for all filters of a stream.
ValueFlags(s) ==
    CASE s = "kkctl" -> Globals \cup {"o"}
      [] s \in {"install", "upgrade"} -> {"image"}
      [] s \in {"status", "sysdump"} -> {"o"}
      [] s \in {"apply", "delete"} -> {"f", "policy-dir"}
      [] s = "get" -> {"o", "policy-dir"}
      [] s = "describe" -> {"n", "policy-dir"}
      [] s = "label" -> {"n"}
      [] s = "inject" -> {"f", "target", "name", "n"}
      [] s = "policy" -> {"f"}
      [] s = "stream" -> {"server"} \cup IF kind \in {"logs", "log"} THEN {"level"}
                                                                  ELSE {"podName"}
      [] OTHER -> {}
BoolFlags(s) ==
    CASE s = "install" -> {"wait", "skip-apparmor-webhook"}
      [] s = "uninstall" -> {"purge-policies"}
      [] s \in {"upgrade", "apply"} -> {"dry-run"}
      [] s = "delete" -> {"ignore-not-found"}
      [] s = "get" -> {"A"}
      [] OTHER -> {}

NeedsEnv == {"install", "uninstall", "upgrade", "status", "apply", "delete", "get",
             "describe"}

NoFlags == [f \in {} |-> Unset]
Given(flags, f) == IF f \in DOMAIN flags THEN flags[f] ELSE ""
With(flags, f, v) == [g \in DOMAIN flags \cup {f} |-> IF g = f THEN v ELSE flags[g]]

Init ==
    /\ \E i \in Invocations : argv = i.argv /\ input = i.input /\ host = i.host
    /\ SplitInit
    /\ pc = "global" /\ rest = argv
    /\ global = NoFlags /\ local = NoFlags
    /\ verb = "" /\ kind = "" /\ verbAt = 0 /\ env = "" /\ server = ""
    /\ turn = 1 /\ done = <<>> /\ bad = FALSE
    /\ touched = FALSE /\ code = 0

Goto(point) == pc' = point
Exit(c) == pc' = "exit" /\ code' = c

(***************************************************************************)
(* FlagSet.Parse, for the globals and for the verb.                        *)
(***************************************************************************)
Parsing == pc \in {"global", "local"} /\ rest # <<>>
Set == IF pc = "global" THEN "kkctl" ELSE verb

\* A variant with one flag set for all.
SetFlagShared(f, v) == global' = With(global, f, v) /\ UNCHANGED local

SetFlag(f, v) ==
    IF pc = "global" THEN global' = With(global, f, v) /\ UNCHANGED local
                     ELSE local' = With(local, f, v) /\ UNCHANGED global

\* strconv.ParseBool; no value at all is true.
Yes == {"1", "t", "T", "true", "TRUE", "True", Unset}
No == {"0", "f", "F", "false", "FALSE", "False"}

TakesNext(a) == a.name \in ValueFlags(Set) /\ a.val = Unset

ReadFlag ==
    /\ Parsing /\ IsFlag(Head(rest))
    /\ LET a == Head(rest) IN
         \/ /\ a.name \in BoolFlags(Set) /\ a.val \in Yes \cup No
            /\ SetFlag(a.name, IF a.val \in Yes THEN "true" ELSE "false")
            /\ rest' = Tail(rest)
         \/ /\ a.name \in ValueFlags(Set) /\ a.val # Unset
            /\ SetFlag(a.name, a.val)
            /\ rest' = Tail(rest)
         \/ /\ TakesNext(a) /\ Len(rest) > 1
            /\ SetFlag(a.name, Text(rest[2]))
            /\ rest' = SubSeq(rest, 3, Len(rest))
    /\ UNCHANGED <<inputVars, argv, host, pc, verbVars, handlerVars, code>>

\* A flag that is not defined, asks for help, lacks its value, or has one that is no
\* truth value.  Execute ignores the error and goes on behind it; a handler returns it.
BadFlag ==
    /\ Parsing /\ IsFlag(Head(rest))
    /\ \/ Head(rest).name \notin ValueFlags(Set) \cup BoolFlags(Set)
       \/ TakesNext(Head(rest)) /\ Len(rest) = 1
       \/ Head(rest).name \in BoolFlags(Set) /\ Head(rest).val \notin Yes \cup No
    /\ rest' = Tail(rest)
    /\ IF pc = "global" THEN Goto("dispatch") /\ UNCHANGED code
                        ELSE Exit(IF Head(rest).name \in {"h", "help"} THEN 0 ELSE 1)
    /\ UNCHANGED <<inputVars, argv, host, flagVars, verbVars, handlerVars>>

EndFlags ==
    /\ pc \in {"global", "local"}
    /\ rest # <<>> => ~IsFlag(Head(rest))
    /\ rest' = IF rest # <<>> /\ Head(rest) = Terminator THEN Tail(rest) ELSE rest
    /\ Goto(IF pc = "global" THEN "dispatch" ELSE "arguments")
    /\ UNCHANGED <<inputVars, argv, host, flagVars, verbVars, handlerVars, code>>

(***************************************************************************)
(* Execute.                                                                *)
(***************************************************************************)
\* A variant that looks for the bare flag only.
HintBareFlags(args) ==
    \E i \in DOMAIN args : args[i].dashes = 2 /\ args[i].name \in Globals /\ args[i].val = Unset

\* A flag with one dash is a global to Go, but not to the hint.
globalFlagPositionHint(args) ==
    \E i \in DOMAIN args : args[i].dashes = 2 /\ args[i].name \in Globals

\* get takes its kind before its flags, others a target.
Targets(v) == CASE v = "stream" -> {"events", "event", "alerts", "alert", "logs", "log"}
                [] v = "policy" -> {"validate"}
                [] v = "completion" -> {"bash", "zsh"}
                [] OTHER -> {}
Hoists(v, args) == \/ Targets(v) # {}
                   \/ v = "get" /\ args # <<>> /\ Head(args).dashes = 0

Verb == IF rest = <<>> THEN "" ELSE Text(Head(rest))
Args == IF rest = <<>> THEN <<>> ELSE Tail(rest)
Target == IF Args = <<>> THEN "" ELSE Text(Head(Args))

\* No command, a global flag behind the verb, or no verb of kkctl.
Refuse ==
    /\ pc = "dispatch"
    /\ \/ globalFlagPositionHint(Args)
       \/ Verb \notin Verbs \cup {"-h", "--help", "help"}
    /\ Exit(2)
    /\ UNCHANGED <<inputVars, argv, host, rest, flagVars, verbVars, handlerVars>>

Dispatch ==
    /\ pc = "dispatch" /\ ~globalFlagPositionHint(Args)
    /\ \/ /\ Verb \in {"-h", "--help", "help"}
          /\ Exit(0) /\ UNCHANGED <<rest, verbVars>>
       \/ /\ Verb \in Verbs
          /\ verb' = Verb /\ verbAt' = Len(argv) - Len(Args)
          /\ IF Hoists(Verb, Args)
             THEN \/ /\ Verb # "get" /\ Target \notin Targets(Verb)
                     /\ Exit(1) /\ UNCHANGED <<rest, kind>>
                  \/ /\ Verb = "get" \/ Target \in Targets(Verb)
                     /\ kind' = Target /\ rest' = Tail(Args)
                     /\ Goto("local") /\ UNCHANGED code
             ELSE rest' = Args /\ Goto("local") /\ UNCHANGED <<kind, code>>
    /\ UNCHANGED <<inputVars, argv, host, flagVars, handlerVars>>

(***************************************************************************)
(* The handlers, up to where they begin to work.                           *)
(***************************************************************************)
File == Given(local, "f")

\* A variant that looks for the flag among the globals.
DryRunGlobal == Given(global, "dry-run") = "true"

DryRun == Given(local, "dry-run") = "true"

\* A word with a `=` in it is a label.
Labels == {"k=v"}

Resource == IF verb = "get" /\ kind # "" THEN kind
            ELSE IF rest = <<>> THEN "" ELSE Text(Head(rest))

UsageError ==
    CASE verb \in {"apply", "policy"} -> File = ""
      [] verb = "inject" -> \/ File = "" \/ Given(local, "target") = ""
                            \/ Given(local, "name") = "" /\ rest = <<>>
      [] verb = "delete" -> IF File # "" THEN rest # <<>>
                            ELSE Len(rest) < 2 \/ Resource \notin {"policy", "policies"}
      [] verb = "get" -> Resource \notin {"policy", "policies", "node", "nodes"}
      [] verb = "describe" -> \/ Len(rest) < 2
                              \/ Resource \notin {"policy", "policies", "container", "node"}
      [] verb = "label" -> \/ Len(rest) < 3 \/ Resource \notin {"container", "pod"}
                           \/ \E i \in 3..Len(rest) : Text(rest[i]) \notin Labels
      [] verb = "upgrade" -> Given(local, "image") = ""
      [] OTHER -> FALSE

\* Priority: the flag of stream, the global one, ~/.kkctl.yaml, the default.
Dialed == IF Given(local, "server") # "" THEN Given(local, "server")
          ELSE IF Given(global, "server") # "" THEN Given(global, "server")
          ELSE IF host.file # "" THEN host.file
          ELSE "localhost:36890"

CheckArguments ==
    /\ pc = "arguments"
    /\ \/ UsageError /\ Exit(1) /\ UNCHANGED server
       \/ /\ ~UsageError
          /\ CASE verb \in {"apply", "policy", "inject"} \/ (verb = "delete" /\ File # "") ->
                    /\ \/ Goto("split") /\ UNCHANGED code
                       \/ Exit(1)          \* the file cannot be read
                    /\ UNCHANGED server
               [] verb \in {"version", "completion", "probe"} ->
                    Exit(0) /\ UNCHANGED server
               [] verb \in {"stream", "label"} ->
                    /\ server' = IF verb = "stream" THEN Dialed ELSE server
                    /\ Goto("work") /\ UNCHANGED code
               [] OTHER -> Goto("env") /\ UNCHANGED <<code, server>>
    /\ UNCHANGED <<inputVars, argv, host, rest, flagVars, verbVars, env, turn, done, bad,
                   touched>>

ReadDocument ==
    /\ pc = "split"
    /\ SplitLine
    /\ UNCHANGED lineVars

\* A file without documents is an error to all but inject.
ReadLast ==
    /\ pc = "split"
    /\ SplitEnd
    /\ IF docs' = <<>> THEN Exit(IF verb = "inject" THEN 0 ELSE 1)
       ELSE Goto(IF verb = "apply" /\ ~DryRun THEN "env" ELSE "documents") /\ UNCHANGED code
    /\ UNCHANGED <<argv, host, rest, flagVars, verbVars, handlerVars>>

inCluster == {"serviceHost", "token"} \subseteq host.found

\* A variant that settles for Kubernetes.
detectEnvEager ==
    IF inCluster \/ {"kubeconfig", "admin.conf"} \cap host.found # {} THEN "k8s"
    ELSE IF "docker.sock" \in host.found THEN "docker" ELSE ""

\* "" stands for an error: both or neither.
detectEnv ==
    LET hasKube == inCluster \/ {"kubeconfig", "admin.conf"} \cap host.found # {}
        hasDocker == "docker.sock" \in host.found
    IN  CASE hasKube /\ ~hasDocker -> "k8s"
          [] hasDocker /\ ~hasKube -> "docker"
          [] OTHER -> ""

resolvedEnv ==
    LET asked == Given(global, "env")
    IN  IF asked = "" THEN detectEnv
        ELSE IF asked \in {"k8s", "docker"} THEN asked ELSE ""

NeedsCluster == verb \in {"get", "describe"} /\ Resource \in {"node", "nodes"}

\* sysdump goes on without an environment; nodes are only there in a cluster.
ResolveEnv ==
    /\ pc = "env"
    /\ env' = resolvedEnv
    /\ IF (env' = "" /\ verb # "sysdump") \/ (NeedsCluster /\ env' # "k8s") THEN Exit(1)
       ELSE Goto(IF verb \in {"apply", "delete"} THEN "targets" ELSE "work") /\ UNCHANGED code
    /\ UNCHANGED <<inputVars, argv, host, rest, flagVars, verbVars, server, turn, done, bad,
                   touched>>

(***************************************************************************)
(* What they do with documents and names, one after the other.             *)
(***************************************************************************)
Doc == docs[turn]
Step(names) == turn' = turn + 1 /\ done' = done \o names /\ UNCHANGED <<pc, code>>
Stop(c) == Exit(c) /\ UNCHANGED <<turn, done>>

ValidateDocument ==
    /\ pc = "documents" /\ verb = "policy"
    /\ IF turn > Len(docs) THEN Stop(IF bad THEN 1 ELSE 0) /\ UNCHANGED bad
       ELSE bad' = (bad \/ validatePolicyDoc(Doc) # {}) /\ Step(<<>>)
    /\ UNCHANGED <<inputVars, argv, host, rest, flagVars, verbVars, env, server, touched>>

\* applyDryRun
AnnounceDocument ==
    /\ pc = "documents" /\ verb = "apply"
    /\ IF turn > Len(docs) THEN Stop(0)
       ELSE IF ~Decodes(Doc, policyManifest) THEN Stop(1)
       ELSE Step(IF validatePolicyDoc(Doc) = {} THEN <<Name(Doc)>> ELSE <<>>)
    /\ UNCHANGED <<inputVars, argv, host, rest, flagVars, verbVars, env, server, bad, touched>>

\* collectDeleteTargets names them all before the first goes.
CollectDocument ==
    /\ pc = "documents" /\ verb = "delete"
    /\ \/ turn > Len(docs) /\ Goto("env") /\ turn' = 1 /\ UNCHANGED <<code, done>>
       \/ turn <= Len(docs) /\ ~Named(Doc) /\ Stop(1)
       \/ turn <= Len(docs) /\ Named(Doc) /\ Step(<<>>)
    /\ UNCHANGED <<inputVars, argv, host, rest, flagVars, verbVars, env, server, bad, touched>>

\* runInject labels once per document that has labels in spec.selector.matchLabels;
\* a document that selects in another way is passed over.
InjectDocument ==
    /\ pc = "documents" /\ verb = "inject"
    /\ \/ turn > Len(docs) /\ Stop(0) /\ UNCHANGED touched
       \/ turn <= Len(docs) /\ ~Decodes(Doc, selectorLabels) /\ Stop(1) /\ UNCHANGED touched
       \/ /\ turn <= Len(docs) /\ Decodes(Doc, selectorLabels)
          /\ IF ManifestIn(Doc).matchLabels
             THEN \/ /\ Given(local, "target") \in {"container", "pod"} /\ touched' = TRUE
                     /\ \/ Step(<<Name(Doc)>>)
                        \/ Stop(1)
                  \/ /\ Given(local, "target") \notin {"container", "pod"}
                     /\ Stop(1) /\ UNCHANGED touched
             ELSE Step(<<>>) /\ UNCHANGED touched
    /\ UNCHANGED <<inputVars, argv, host, rest, flagVars, verbVars, env, server, bad>>

\* An apply fails at a document without a name, or at any other.
ApplyDocument ==
    /\ pc = "targets" /\ verb = "apply"
    /\ \/ turn > Len(docs) /\ Stop(0) /\ UNCHANGED touched
       \/ turn <= Len(docs) /\ ~Named(Doc) /\ Stop(1) /\ UNCHANGED touched
       \/ /\ turn <= Len(docs) /\ Named(Doc) /\ touched' = TRUE
          /\ \/ Step(<<Name(Doc)>>)
             \/ Stop(1)
    /\ UNCHANGED <<inputVars, argv, host, rest, flagVars, verbVars, env, server, bad>>

\* Behind the kind everything is a name, a flag too.
Names == IF File # "" THEN [i \in DOMAIN docs |-> Name(docs[i])]
         ELSE [i \in 1..(Len(rest) - 1) |-> Text(rest[i + 1])]

DeleteTarget ==
    /\ pc = "targets" /\ verb = "delete"
    /\ \/ turn > Len(Names) /\ Stop(0) /\ UNCHANGED touched
       \/ /\ turn <= Len(Names) /\ touched' = TRUE
          /\ \/ Step(<<Names[turn]>>)
             \/ Given(local, "ignore-not-found") = "true" /\ Step(<<>>)
             \/ Stop(1)
    /\ UNCHANGED <<inputVars, argv, host, rest, flagVars, verbVars, env, server, bad>>

\* All other commands; a dry run of upgrade prints.
Work ==
    /\ pc = "work"
    /\ touched' = ~(verb = "upgrade" /\ DryRun)
    /\ \E c \in {0, 1} : Exit(c)
    /\ UNCHANGED <<inputVars, argv, host, rest, flagVars, verbVars, env, server, turn, done,
                   bad>>

Next == \/ ReadFlag \/ BadFlag \/ EndFlags \/ Refuse \/ Dispatch
        \/ CheckArguments \/ ReadDocument \/ ReadLast \/ ResolveEnv
        \/ ValidateDocument \/ AnnounceDocument \/ CollectDocument \/ InjectDocument
        \/ ApplyDocument \/ DeleteTarget \/ Work

Spec == Init /\ [][Next]_vars

(***************************************************************************)
(* Properties.                                                             *)
(***************************************************************************)
Points == {"global", "dispatch", "local", "arguments", "split", "env", "documents",
           "targets", "work", "exit"}

\* Every variable stays within its type: each flag set holds only flags it defines.
TypeOK ==
    /\ pc \in Points /\ code \in 0..2
    /\ verb \in Verbs \cup {""} /\ verbAt \in 0..Len(argv) /\ kind \in STRING
    /\ DOMAIN global \subseteq ValueFlags("kkctl")
    /\ DOMAIN local \subseteq ValueFlags(verb) \cup BoolFlags(verb)
    /\ env \in {"", "k8s", "docker"} /\ server \in STRING
    /\ input \in Seq(Lines) /\ at \in 1..(Len(input) + 1)
    /\ current \in Seq(DOMAIN input) /\ docs \in Seq(Seq(DOMAIN input))
    /\ turn \in Nat \ {0} /\ done \in Seq(STRING \cup {NoName})
    /\ bad \in BOOLEAN /\ touched \in BOOLEAN

\* splitYAMLDocs "splits a YAML stream on `^---` lines, dropping empty docs".  In a
\* file whose separators are all of that form, and once it is split, every line that
\* is not blank is in one document, and two such lines are in the same one if and
\* only if no separator stands between them, which is what YAML says; the documents
\* keep the order of the file.
Plain == \A i \in DOMAIN input : input[i] \notin {Indented, Commented}
Significant == {i \in DOMAIN input : input[i] \notin {"---", ""}}
In(i, d) == \E k \in DOMAIN docs[d] : docs[d][k] = i
PlainFilesAsYAML ==
    (Plain /\ at > Len(input) /\ pc \in {"documents", "env", "targets"}) =>
       \A i, j \in Significant :
          i <= j => \E d, e \in DOMAIN docs :
                      /\ d <= e
                      /\ {f \in DOMAIN docs : In(i, f)} = {d}
                      /\ {f \in DOMAIN docs : In(j, f)} = {e}
                      /\ (d = e) = ~(\E k \in i..j : input[k] = "---")

\* A file that `policy validate` accepts holds nothing that apply or delete would
\* refuse, but for a namespace or labels of a wrong type, which validate does not look
\* at; and nothing in it has gone unread, except behind a commented separator.
AcceptedButForLabels ==
    (pc = "exit" /\ verb = "policy" /\ code = 0) =>
       /\ \A d \in DOMAIN docs : Named(docs[d]) \/ "labels" \in ManifestIn(docs[d]).mistyped
       /\ \A i \in 1..(at - 1) :
            input[i] \in Content =>
               \E d \in DOMAIN docs :
                  /\ In(i, d)
                  /\ \/ input[i] \in Read(docs[d])
                     \/ \E k \in 1..i : input[k] = Commented

\* A flag that is surely read as one: it cannot be the value of the flag before it.
Own(i, f) == /\ IsFlag(argv[i]) /\ argv[i].name = f
             /\ i > 1 => ~(IsFlag(argv[i - 1]) /\ argv[i - 1].val = Unset)
Value(i) == IF argv[i].val # Unset THEN argv[i].val
            ELSE IF i < Len(argv) THEN Text(argv[i + 1]) ELSE ""

\* The user means a global flag wherever it has two dashes, and ahead of the verb in
\* any case.  Go lets the last one count.
Meant(f) == {i \in DOMAIN argv : /\ IsFlag(argv[i]) /\ argv[i].name = f
                                 /\ argv[i].dashes = 2 \/ i < verbAt}
Last(f) == {i \in Meant(f) : Own(i, f) /\ Value(i) # "" /\ \A j \in Meant(f) : j <= i}

\* Of the commands that resolve an environment, one that gets to work has heeded the
\* last --env, and a stream dials the last --server unless it is given a -server of its
\* own, which the hint lets pass: whatever the flag's place, behind the verb or behind
\* an error too.  label and inject never read --env, sysdump goes on without one that
\* is wrong, and --namespace is not looked at here.
EnvAndServerHeeded ==
    touched =>
       /\ verb \in NeedsEnv => \A i \in Last("env") : env = Value(i)
       /\ (/\ verb = "stream"
           /\ ~\E i \in (verbAt + 1)..Len(argv) : argv[i].dashes = 1 /\ argv[i].name = "server")
          => \A i \in Last("server") : server = Value(i)

\* Nothing is changed in an environment by guess: one that was not asked for is the
\* only one the host shows any sign of.
RunsWhereAsked ==
    (touched /\ verb \in NeedsEnv) =>
       \/ \E i \in DOMAIN argv : IsFlag(argv[i]) /\ argv[i].name = "env" /\ Value(i) = env
       \/ /\ env = "docker"
          /\ host.found \cap {"kubeconfig", "admin.conf"} = {}
          /\ ~({"serviceHost", "token"} \subseteq host.found)
       \/ env = "k8s" /\ "docker.sock" \notin host.found

\* A --dry-run behind the verb, bare or with a value for true, that no later one takes
\* back is passed over only on a line with words too many, such as the second file of a
\* pattern the shell has expanded.
DryRunHeeded ==
    (/\ touched /\ verb \in {"apply", "upgrade"}
     /\ \E i \in (verbAt + 1)..Len(argv) :
          /\ Own(i, "dry-run") /\ argv[i].val \in Yes
          /\ \A j \in (i + 1)..Len(argv) : IsFlag(argv[j]) => argv[j].name # "dry-run")
    => rest # <<>>
====
