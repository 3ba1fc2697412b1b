---- MODULE PolicyInput ----
(***************************************************************************)
(* The policies a command is given with -f: splitYAMLDocs cuts a file into *)
(* documents line by line, yaml.Unmarshal reads each into the struct that  *)
(* the command has for it, and validatePolicyDoc judges it.                *)
(*                                                                         *)
(* A line of this module is a separator, a blank line, a comment, or the   *)
(* block of lines that holds one policy.  Documents are kept as the        *)
(* numbers of their lines.                                                 *)
(***************************************************************************)
EXTENDS Naturals, Sequences

CONSTANTS
    Policies,       \* blocks of lines that are a policy
    ManifestOf,     \* ManifestOf[p]: what yaml.Unmarshal makes of one
    Broken,         \* a block that yaml.Unmarshal rejects whatever it reads it into
    NoName          \* metadata.name is missing

VARIABLES
    input,          \* the lines of the file
    at,             \* the line splitYAMLDocs reads next
    current,        \* the document it is in
    docs            \* the documents it has found

inputVars == <<input, at, current, docs>>

Content == Policies \cup {Broken}

\* The second one is content to YAML if it stands in a block scalar; the third
\* is a separator to YAML, with a comment.
Indented == "  ---"
Commented == "--- #"
Lines == {"---", Indented, Commented, "", "#"} \cup Content

\* What a document says, and the parts of it that have a wrong type: "name" stands
\* for apiVersion, kind and metadata.name, "labels" for the rest of metadata that is
\* read, "action" for spec.action and spec.applyToAll.
Parts == {"name", "labels", "action", "selector", "matchLabels"}
Manifest == [apiVersion : BOOLEAN, kind : BOOLEAN, name : STRING \cup {NoName},
             action : {"", "known", "other"}, selector : BOOLEAN, matchLabels : BOOLEAN,
             applyToAll : BOOLEAN, mistyped : SUBSET Parts]

\* What is a policy, a block that is none and the other lines can be told apart.
ASSUME PoliciesAssumption ==
    /\ Content \cap {"---", Indented, Commented, "", "#"} = {}
    /\ Broken \notin Policies
    /\ ManifestOf \in [Policies -> Manifest]

\* What an empty document gives: no field is set.
EmptyManifest == [apiVersion |-> FALSE, kind |-> FALSE, name |-> NoName, action |-> "",
                  selector |-> FALSE, matchLabels |-> FALSE, applyToAll |-> FALSE,
                  mistyped |-> {}]

IsBlank(doc) == \A k \in DOMAIN doc : input[doc[k]] = ""

\* A variant that forgets the document the file ends with.
FlushedLate == IF IsBlank(current) \/ at > Len(input) THEN docs ELSE Append(docs, current)

Flushed == IF IsBlank(current) THEN docs ELSE Append(docs, current)

SplitInit == at = 1 /\ current = <<>> /\ docs = <<>>

\* One turn of the loop.  Blanks around the separator do not count.
SplitLine ==
    /\ at <= Len(input)
    /\ at' = at + 1
    /\ IF input[at] \in {"---", Indented}
       THEN docs' = Flushed /\ current' = <<>>
       ELSE current' = Append(current, at) /\ UNCHANGED docs
    /\ UNCHANGED input

\* The flush after the loop.
SplitEnd ==
    /\ at > Len(input)
    /\ docs' = Flushed
    /\ UNCHANGED <<input, at, current>>

(***************************************************************************)
(* What is made of a document.                                             *)
(***************************************************************************)
\* yaml.Unmarshal reads the first YAML document of what it is given, silently:
\* up to a commented separator that has something before it.
Read(doc) ==
    {input[doc[k]] : k \in {i \in DOMAIN doc :
        /\ input[doc[i]] \in Content
        /\ \A m \in 1..i : input[doc[m]] = Commented =>
             \A l \in 1..(m - 1) : input[doc[l]] \notin Content \cup {Commented}}}

ManifestIn(doc) == IF Read(doc) = {} THEN EmptyManifest
                   ELSE ManifestOf[CHOOSE p \in Read(doc) : TRUE]

\* The parts that validate reads, that apply and delete read, and that inject reads.
policyDoc == {"name", "action", "selector"}
policyManifest == {"name", "labels"}
selectorLabels == {"selector", "matchLabels"}

Decodes(doc, target) == Broken \notin Read(doc) /\ ManifestIn(doc).mistyped \cap target = {}

Name(doc) == ManifestIn(doc).name
Named(doc) == Decodes(doc, policyManifest) /\ Name(doc) # NoName

\* A variant that leaves the name to the one who applies the policy.
ComplaintsOfSpec(m) ==
    {c \in {"apiVersion", "kind", "action", "selector"} :
       \/ c = "apiVersion" /\ ~m.apiVersion
       \/ c = "kind" /\ ~m.kind
       \/ c = "action" /\ m.action = "other"
       \/ c = "selector" /\ ~m.selector /\ ~m.applyToAll}

Complaints(m) ==
    {c \in {"apiVersion", "kind", "name", "action", "selector"} :
       \/ c = "apiVersion" /\ ~m.apiVersion
       \/ c = "kind" /\ ~m.kind
       \/ c = "name" /\ m.name = NoName
       \/ c = "action" /\ m.action = "other"
       \/ c = "selector" /\ ~m.selector /\ ~m.applyToAll}

validatePolicyDoc(doc) ==
    IF Decodes(doc, policyDoc) THEN Complaints(ManifestIn(doc)) ELSE {"parse"}
====
