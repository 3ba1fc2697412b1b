---- MODULE CommandLineProofs ----
(***************************************************************************)
(* Proofs about CommandLine, for every command line, every input file and  *)
(* every host: the flags that are set are those that were typed, a command *)
(* works where it was asked to, and a file is split as YAML splits it.     *)
(***************************************************************************)
EXTENDS CommandLine, SequenceTheorems, TLAPS

(***************************************************************************)
(* The inductive invariant.                                                *)
(***************************************************************************)
\* How many arguments there are, are left, and have been read.
Total == Len(argv)
Left == Len(rest)
Consumed == Total - Left

\* What is still to be read is the end of the command line.
LineKept ==
    /\ argv \in Seq(Argument) /\ rest \in Seq(Argument)
    /\ host.file \in STRING
    /\ \A k \in DOMAIN argv : /\ Text(argv[k]) \in STRING
                              /\ Text(argv[k]) \in Verbs => argv[k].dashes = 0
    /\ Left <= Total
    /\ \A k \in 1..Left : rest[k] = argv[Consumed + k]

\* What has not begun yet at each point of the program, and which verbs get there.
Stages ==
    /\ pc \in {"global", "dispatch"} =>
         verb = "" /\ kind = "" /\ verbAt = 0 /\ local = NoFlags
    /\ pc \in {"global", "dispatch", "local", "arguments"} =>
         at = 1 /\ current = <<>> /\ docs = <<>>
    /\ pc \in {"global", "dispatch", "local", "arguments", "split"} => turn = 1 /\ ~bad
    /\ pc \in {"documents", "targets", "exit"} \/ ~touched
    /\ pc = "documents" /\ verb # "inject" => ~touched
    /\ pc \in {"global", "dispatch", "exit"} \/ verb \in Verbs
    /\ pc \in {"split", "documents"} => verb \in {"apply", "policy", "inject", "delete"}
    /\ pc = "env" => verb \notin {"policy", "stream"}
    /\ pc = "targets" => verb \in {"apply", "delete"}
    /\ pc = "work" => verb \notin {"apply", "policy", "delete"}

\* The verb is a word, and no global flag of two dashes stands behind it.
VerbPlaced ==
    /\ verb = "" => ~touched
    /\ verb # "" => /\ verbAt \in 1..Total /\ (pc = "exit" \/ verbAt <= Consumed)
                    /\ argv[verbAt].dashes = 0
                    /\ \A i \in (verbAt + 1)..Total :
                         argv[i].dashes = 2 => argv[i].name \notin Globals

\* Every flag that is set was typed, those of a verb behind it.
FlagsTyped ==
    /\ \A f \in DOMAIN global :
         \E i \in DOMAIN argv :
            IsFlag(argv[i]) /\ argv[i].name = f /\ global[f] = Value(i)
    /\ \A f \in DOMAIN local :
         /\ local[f] \in STRING
         /\ \E i \in (verbAt + 1)..Total : IsFlag(argv[i]) /\ argv[i].name = f

\* Among the first n arguments, no flag f behind the one at i.
LastUpTo(i, f, n) == \A j \in (i + 1)..n : IsFlag(argv[j]) => argv[j].name # f

\* Among the first n arguments, the last flag f is the one that counts.
Counts(flags, f, n) ==
    \A i \in 1..n : Own(i, f) /\ LastUpTo(i, f, n) =>
                              f \in DOMAIN flags /\ flags[f] = Value(i)

GlobalsCount ==
    /\ pc = "global" => \A f \in Globals : Counts(global, f, Consumed)
    /\ pc = "dispatch" /\ rest # <<>> => \A f \in Globals : Counts(global, f, Consumed)
    /\ verb # "" => \A f \in Globals : Counts(global, f, verbAt)

\* A --dry-run that has been read is known, and what it forbids has not been done.
DryRunCounts(flags, n) ==
    \A i \in (verbAt + 1)..n :
       Own(i, "dry-run") /\ argv[i].val \in Yes /\ LastUpTo(i, "dry-run", n) =>
          Given(flags, "dry-run") = "true"

DryRunKept ==
    /\ verb \in {"apply", "upgrade"} /\ (pc = "exit" => touched) =>
         DryRunCounts(local, Consumed)
    /\ verb = "apply" /\ (touched \/ pc \in {"env", "targets"}) => ~DryRun
    /\ verb = "upgrade" /\ touched => ~DryRun

\* A command works in the environment it has found, and a stream dials what it has
\* worked out.
PlaceKept ==
    /\ verb \in NeedsEnv /\ (touched \/ pc \in {"targets", "work"}) =>
         env = resolvedEnv /\ env # ""
    /\ verb = "stream" /\ (touched \/ pc = "work") => server = Dialed

\* What splitYAMLDocs takes for a separator.
Separates(i) == input[i] \in {"---", Indented}
Numbers(doc) == {doc[k] : k \in DOMAIN doc}
Rising(doc) == \A k, l \in DOMAIN doc : k < l => doc[k] < doc[l]
Unbroken(doc) == \A i, j \in Numbers(doc) : \A k \in i..j : ~Separates(k)
Apart(doc, next) ==
    \A i \in Numbers(doc), j \in Numbers(next) : i < j /\ \E k \in i..j : Separates(k)

\* The documents found are stretches of the file, in its order, with a separator
\* between them.
FoundKept ==
    /\ \A d \in DOMAIN docs : Rising(docs[d]) /\ Unbroken(docs[d])
    /\ \A d, e \in DOMAIN docs : d < e => Apart(docs[d], docs[e])

\* They are closed by a separator; the one being read goes on to the line before `at`.
ReadingKept ==
    /\ \A d \in DOMAIN docs : \A i \in Numbers(docs[d]) :
          i < at /\ \E k \in i..(at - 1) : Separates(k)
    /\ Rising(current)
    /\ \A i \in Numbers(current) : i < at /\ \A k \in i..(at - 1) : ~Separates(k)

DocsKept == FoundKept /\ (pc = "split" => ReadingKept)

\* No line that says anything is lost.
LinesKept ==
    \A i \in 1..(at - 1) :
       (~Separates(i) /\ input[i] # "") =>
          \/ \E d \in DOMAIN docs : i \in Numbers(docs[d])
          \/ pc = "split" /\ i \in Numbers(current)

\* What policy validate has not complained about is valid.
JudgedSoFar ==
    verb = "policy" =>
       /\ pc = "documents" /\ ~bad =>
            \A d \in DOMAIN docs : d < turn => validatePolicyDoc(docs[d]) = {}
       /\ pc = "exit" /\ code = 0 =>
            \A d \in DOMAIN docs : validatePolicyDoc(docs[d]) = {}

\* What delete has collected so far has a name, and before it deletes, all of it.
CollectedSoFar ==
    verb = "delete" =>
       /\ pc = "documents" => \A d \in DOMAIN docs : d < turn => Named(docs[d])
       /\ pc \in {"env", "targets"} => \A d \in DOMAIN docs : Named(docs[d])

LineInv ==
    /\ TypeOK /\ LineKept /\ Stages /\ VerbPlaced /\ FlagsTyped /\ GlobalsCount
    /\ DryRunKept /\ PlaceKept /\ DocsKept /\ LinesKept /\ JudgedSoFar
    /\ CollectedSoFar

(***************************************************************************)
(* What the actions leave alone.                                           *)
(***************************************************************************)
\* The command line, the host and the file stay what they are.
LEMMA GivenStays ==
    ASSUME Next
    PROVE  argv' = argv /\ host' = host /\ input' = input
<1>1. CASE ReadFlag \/ BadFlag \/ EndFlags
  BY <1>1 DEF ReadFlag, BadFlag, EndFlags, inputVars
<1>2. CASE Refuse \/ Dispatch \/ CheckArguments
  BY <1>2 DEF Refuse, Dispatch, CheckArguments, inputVars
<1>3. CASE ReadDocument
  BY <1>3 DEF ReadDocument, SplitLine, lineVars
<1>4. CASE ReadLast
  BY <1>4 DEF ReadLast, SplitEnd
<1>5. CASE ResolveEnv \/ ValidateDocument \/ AnnounceDocument \/ CollectDocument
  BY <1>5 DEF ResolveEnv, ValidateDocument, AnnounceDocument, CollectDocument, inputVars
<1>6. CASE InjectDocument \/ ApplyDocument \/ DeleteTarget \/ Work
  BY <1>6 DEF InjectDocument, ApplyDocument, DeleteTarget, Work, inputVars
<1> QED
  BY <1>1, <1>2, <1>3, <1>4, <1>5, <1>6 DEF Next

\* Only parsing sets a flag.
LEMMA FlagsStay ==
    ASSUME Next, ~ReadFlag
    PROVE  global' = global /\ local' = local
<1>1. CASE BadFlag \/ EndFlags \/ Refuse \/ Dispatch \/ CheckArguments
  BY <1>1 DEF BadFlag, EndFlags, Refuse, Dispatch, CheckArguments, flagVars
<1>2. CASE ReadDocument \/ ReadLast \/ ResolveEnv
  BY <1>2 DEF ReadDocument, ReadLast, ResolveEnv, flagVars, lineVars
<1>3. CASE ValidateDocument \/ AnnounceDocument \/ CollectDocument
  BY <1>3 DEF ValidateDocument, AnnounceDocument, CollectDocument, flagVars
<1>4. CASE InjectDocument \/ ApplyDocument \/ DeleteTarget \/ Work
  BY <1>4 DEF InjectDocument, ApplyDocument, DeleteTarget, Work, flagVars
<1> QED
  BY <1>1, <1>2, <1>3, <1>4 DEF Next

\* Only Dispatch sets the verb.
LEMMA VerbStays ==
    ASSUME Next, ~Dispatch
    PROVE  verb' = verb /\ kind' = kind /\ verbAt' = verbAt
<1>1. CASE ReadFlag \/ BadFlag \/ EndFlags \/ Refuse \/ CheckArguments
  BY <1>1 DEF ReadFlag, BadFlag, EndFlags, Refuse, CheckArguments, verbVars
<1>2. CASE ReadDocument \/ ReadLast \/ ResolveEnv
  BY <1>2 DEF ReadDocument, ReadLast, ResolveEnv, verbVars, lineVars
<1>3. CASE ValidateDocument \/ AnnounceDocument \/ CollectDocument
  BY <1>3 DEF ValidateDocument, AnnounceDocument, CollectDocument, verbVars
<1>4. CASE InjectDocument \/ ApplyDocument \/ DeleteTarget \/ Work
  BY <1>4 DEF InjectDocument, ApplyDocument, DeleteTarget, Work, verbVars
<1> QED
  BY <1>1, <1>2, <1>3, <1>4 DEF Next

\* Arguments are read up to CheckArguments.
LEMMA RestStays ==
    ASSUME Next, ~ReadFlag, ~BadFlag, ~EndFlags, ~Dispatch
    PROVE  rest' = rest
<1>1. CASE Refuse \/ CheckArguments \/ ReadDocument \/ ReadLast \/ ResolveEnv
  BY <1>1 DEF Refuse, CheckArguments, ReadDocument, ReadLast, ResolveEnv, lineVars
<1>2. CASE ValidateDocument \/ AnnounceDocument \/ CollectDocument
  BY <1>2 DEF ValidateDocument, AnnounceDocument, CollectDocument
<1>3. CASE InjectDocument \/ ApplyDocument \/ DeleteTarget \/ Work
  BY <1>3 DEF InjectDocument, ApplyDocument, DeleteTarget, Work
<1> QED
  BY <1>1, <1>2, <1>3 DEF Next

\* Only ReadDocument and ReadLast read the file.
LEMMA FileStays ==
    ASSUME Next, ~ReadDocument, ~ReadLast
    PROVE  at' = at /\ current' = current /\ docs' = docs
<1>1. CASE ReadFlag \/ BadFlag \/ EndFlags \/ Refuse \/ Dispatch \/ CheckArguments
  BY <1>1 DEF ReadFlag, BadFlag, EndFlags, Refuse, Dispatch, CheckArguments, inputVars
<1>2. CASE ResolveEnv \/ ValidateDocument \/ AnnounceDocument \/ CollectDocument
  BY <1>2 DEF ResolveEnv, ValidateDocument, AnnounceDocument, CollectDocument, inputVars
<1>3. CASE InjectDocument \/ ApplyDocument \/ DeleteTarget \/ Work
  BY <1>3 DEF InjectDocument, ApplyDocument, DeleteTarget, Work, inputVars
<1> QED
  BY <1>1, <1>2, <1>3 DEF Next

\* What a handler works out, it works out behind the parsing.
LEMMA HandlersStay ==
    ASSUME ReadFlag \/ BadFlag \/ EndFlags \/ Refuse \/ Dispatch \/ ReadDocument \/ ReadLast
    PROVE  /\ env' = env /\ server' = server /\ turn' = turn /\ done' = done
           /\ bad' = bad /\ touched' = touched
BY DEF ReadFlag, BadFlag, EndFlags, Refuse, Dispatch, ReadDocument, ReadLast, handlerVars,
       lineVars

(***************************************************************************)
(* The command line.                                                       *)
(***************************************************************************)
\* What is left of a line when two arguments go.
LEMMA TwoLess ==
    ASSUME NEW n \in Nat, n > 1
    PROVE  (IF 3 <= n THEN n - 3 + 1 ELSE 0) = n - 2 /\ n - 1 # 0
OBVIOUS

\* Cutting two arguments off, at once or one after the other.
LEMMA WithoutTwo ==
    ASSUME NEW S, NEW s \in Seq(S), Len(s) > 1
    PROVE  \A r \in {SubSeq(s, 3, Len(s)), Tail(Tail(s))} :
              /\ r \in Seq(S) /\ Len(r) = Len(s) - 2
              /\ \A k \in 1..(Len(s) - 2) : r[k] = s[k + 2]
<1> DEFINE r == SubSeq(s, 3, Len(s))
<1>1. Len(s) \in Nat /\ \A k \in 3..Len(s) : s[k] \in S
  OBVIOUS
<1>2. /\ r \in Seq(S)
      /\ Len(r) = (IF 3 <= Len(s) THEN Len(s) - 3 + 1 ELSE 0)
      /\ \A k \in 1..(Len(s) - 3 + 1) : r[k] = s[3 + k - 1]
  BY <1>1, SubSeqProperties
<1>3. /\ (IF 3 <= Len(s) THEN Len(s) - 3 + 1 ELSE 0) = Len(s) - 2
      /\ Len(s) - 1 # 0
  BY <1>1, TwoLess
<1>4. ASSUME NEW k \in 1..(Len(s) - 2) PROVE r[k] = s[k + 2]
  <2>1. 3 + k - 1 = k + 2 /\ k \in 1..(Len(s) - 3 + 1)
    BY <1>1
  <2> QED
    BY <2>1, <1>2
<1>5. /\ Tail(s) \in Seq(S) /\ Len(Tail(s)) = Len(s) - 1
      /\ \A k \in 1..(Len(s) - 1) : Tail(s)[k] = s[k + 1]
  OBVIOUS
<1>6. Tail(s) # <<>>
  BY <1>3, <1>5, EmptySeq
<1>7. /\ Tail(Tail(s)) \in Seq(S) /\ Len(Tail(Tail(s))) = Len(s) - 2
      /\ \A k \in 1..(Len(s) - 2) : Tail(Tail(s))[k] = s[k + 2]
  BY <1>5, <1>6, HeadTailProperties
<1> QED
  BY <1>2, <1>3, <1>4, <1>7

\* A verb in place of an argument means there is an argument.
LEMMA VerbThere ==
    ASSUME Verb \in Verbs
    PROVE  rest # <<>> /\ Verb = Text(Head(rest)) /\ Args = Tail(rest)
BY DEF Verb, Verbs, Args

\* Only three verbs have a target before their flags.
LEMMA TargetsOf ==
    ASSUME NEW v
    PROVE  /\ v \notin {"stream", "policy", "completion"} => Targets(v) = {}
           /\ "" \notin Targets(v)
BY DEF Targets

\* Every step reads some arguments, or none, from the front of what is left.
LEMMA ReadsFromFront ==
    ASSUME Next, rest \in Seq(Argument)
    PROVE  /\ rest' \in Seq(Argument)
           /\ \E m \in 0..Len(rest) :
                /\ Len(rest') = Len(rest) - m
                /\ \A k \in 1..Len(rest') : rest'[k] = rest[k + m]
<1>1. \/ rest' = rest
      \/ rest # <<>> /\ rest' = Tail(rest)
      \/ Len(rest) > 1 /\ rest' \in {SubSeq(rest, 3, Len(rest)), Tail(Tail(rest))}
  <2>1. CASE ReadFlag \/ BadFlag \/ EndFlags
    BY <2>1 DEF ReadFlag, BadFlag, EndFlags, Parsing
  <2>2. CASE Dispatch
    <3>1. Hoists(Verb, Args) /\ (Verb = "get" \/ Target \in Targets(Verb)) => Args # <<>>
      BY TargetsOf DEF Hoists, Target
    <3>2. \/ rest' = rest
          \/ rest # <<>> /\ rest' = Tail(rest)
          \/ rest # <<>> /\ rest' = Tail(Tail(rest)) /\ Tail(rest) # <<>>
      BY <2>2, <3>1, VerbThere DEF Dispatch
    <3>3. rest # <<>> /\ Tail(rest) # <<>> => Len(rest) > 1
      BY EmptySeq
    <3> QED
      BY <3>2, <3>3
  <2>3. CASE ~ReadFlag /\ ~BadFlag /\ ~EndFlags /\ ~Dispatch
    BY <2>3, RestStays
  <2> QED
    BY <2>1, <2>2, <2>3
<1>2. CASE rest' = rest
  <2>1. /\ Len(rest) \in Nat
        /\ Len(rest') = Len(rest) - 0 /\ \A k \in 1..Len(rest') : rest'[k] = rest[k + 0]
    BY <1>2
  <2>2. 0 \in 0..Len(rest)
    BY <2>1
  <2> QED
    BY <1>2, <2>1, <2>2
<1>3. CASE rest # <<>> /\ rest' = Tail(rest)
  <2>1. /\ Tail(rest) \in Seq(Argument) /\ Len(rest) > 0 /\ Len(Tail(rest)) = Len(rest) - 1
        /\ \A k \in 1..Len(Tail(rest)) : Tail(rest)[k] = rest[k + 1]
    BY <1>3
  <2>2. 1 \in 0..Len(rest)
    BY <2>1
  <2> QED
    BY <1>3, <2>1, <2>2
<1>4. CASE Len(rest) > 1 /\ rest' \in {SubSeq(rest, 3, Len(rest)), Tail(Tail(rest))}
  <2>1. 2 \in 0..Len(rest) /\ Len(rest) \in Nat
    BY <1>4
  <2>2. /\ rest' \in Seq(Argument) /\ Len(rest') = Len(rest) - 2
        /\ \A k \in 1..(Len(rest) - 2) : rest'[k] = rest[k + 2]
    BY <1>4, WithoutTwo
  <2> QED
    BY <2>1, <2>2
<1> QED
  BY <1>1, <1>2, <1>3, <1>4

\* What the tail of a line is.
LEMMA TailOf ==
    ASSUME NEW S, NEW s \in Seq(S), s # <<>>
    PROVE  /\ Tail(s) \in Seq(S) /\ Len(s) \in Nat /\ Len(s) > 0
           /\ Len(Tail(s)) = Len(s) - 1 /\ DOMAIN Tail(s) = 1..(Len(s) - 1)
           /\ \A k \in 1..(Len(s) - 1) : Tail(s)[k] = s[k + 1]
OBVIOUS

\* The numbers of arguments there are, are left and have been read.
LEMMA LineNumbers ==
    ASSUME argv \in Seq(Argument), rest \in Seq(Argument), Left <= Total
    PROVE  /\ Total \in Nat /\ Left \in Nat /\ Consumed \in 0..Total
           /\ DOMAIN argv = 1..Total /\ DOMAIN rest = 1..Left
           /\ Left = Total - Consumed
<1>1. Total \in Nat /\ Left \in Nat
  BY DEF Total, Left
<1>2. DOMAIN argv = 1..Total /\ DOMAIN rest = 1..Left
  BY DEF Total, Left
<1> QED
  BY <1>1, <1>2 DEF Consumed

\* What is left stays the end of the command line, and no argument is read twice.
LEMMA LineKeptKept ==
    ASSUME Next, LineKept
    PROVE  /\ LineKept' /\ Total' = Total /\ Left' \in Nat /\ Left' = Total - Consumed'
           /\ Consumed' \in Consumed..Total
<1> USE DEF LineKept
<1>1. /\ rest' \in Seq(Argument)
      /\ \E m \in 0..Left : /\ Left' = Left - m
                            /\ \A k \in 1..Left' : rest'[k] = rest[k + m]
  BY ReadsFromFront DEF Left
<1>2. argv' = argv /\ host' = host /\ Total' = Total
  BY GivenStays DEF Total
<1>3. PICK m \in 0..Left : /\ Left' = Left - m
                           /\ \A k \in 1..Left' : rest'[k] = rest[k + m]
  BY <1>1
<1>4. Total \in Nat /\ Left \in Nat /\ Consumed \in 0..Total /\ Left = Total - Consumed
  BY LineNumbers
<1>5. /\ Left' \in 0..Left /\ Left' <= Total /\ Consumed' = Consumed + m
      /\ Consumed' \in Consumed..Total /\ Left' = Total - Consumed'
  BY <1>2, <1>3, <1>4 DEF Consumed
<1>6. ASSUME NEW k \in 1..Left'
      PROVE  rest'[k] = argv'[Consumed' + k]
  <2>1. k + m \in 1..Left /\ Consumed' + k = Consumed + (k + m)
    BY <1>3, <1>4, <1>5
  <2> QED
    BY <2>1, <1>2, <1>3
<1>7. \A k \in DOMAIN argv' : /\ Text(argv'[k]) \in STRING
                              /\ Text(argv'[k]) \in Verbs => argv'[k].dashes = 0
  BY <1>2
<1>8. LineKept'
  BY <1>1, <1>2, <1>5, <1>6, <1>7
<1> QED
  BY <1>2, <1>4, <1>5, <1>8

\* The flag being read, and its place on the line.
LEMMA HeadPlaced ==
    ASSUME LineKept, rest # <<>>
    PROVE  /\ Consumed + 1 \in 1..Total /\ Head(rest) = argv[Consumed + 1]
           /\ Head(rest) \in Argument /\ Left > 0
           /\ Left > 1 => /\ Consumed + 2 \in 1..Total
                          /\ rest[2] = argv[Consumed + 2]
           /\ Left = 1 => Consumed + 1 = Total
<1>1. /\ Total \in Nat /\ Left \in Nat /\ Consumed \in 0..Total /\ Left = Total - Consumed
      /\ \A k \in 1..Left : rest[k] = argv[Consumed + k]
  BY LineNumbers DEF LineKept
<1>2. Head(rest) = rest[1] /\ rest[1] \in Argument /\ Left > 0
  BY DEF LineKept, Left
<1>3. 1 \in 1..Left /\ (Left > 1 => 2 \in 1..Left)
  BY <1>1, <1>2
<1>4. Consumed + 1 \in 1..Total /\ (Left > 1 => Consumed + 2 \in 1..Total)
  BY <1>1, <1>2
<1> QED
  BY <1>1, <1>2, <1>3, <1>4

\* Text of an argument still to be read.
LEMMA TextTyped ==
    ASSUME LineKept, NEW k \in 1..Left
    PROVE  Text(rest[k]) \in STRING /\ (Text(rest[k]) \in Verbs => rest[k].dashes = 0)
<1>1. /\ Total \in Nat /\ Left \in Nat /\ Consumed \in 0..Total /\ Left = Total - Consumed
      /\ DOMAIN argv = 1..Total
  BY LineNumbers DEF LineKept
<1>2. Consumed + k \in DOMAIN argv /\ rest[k] = argv[Consumed + k]
  BY <1>1 DEF LineKept
<1> QED
  BY <1>2 DEF LineKept

(***************************************************************************)
(* Reading a flag.                                                         *)
(***************************************************************************)
\* The flags of Execute: all of them take a value.
LEMMA FlagsOfExecute ==
    ValueFlags("kkctl") = Globals \cup {"o"} /\ BoolFlags("kkctl") = {}
BY DEF ValueFlags, BoolFlags

\* No flag set knows a flag both with and without a value.
LEMMA FlagsOfDryRun ==
    ASSUME NEW v \in {"apply", "upgrade"}
    PROVE  "dry-run" \in BoolFlags(v) /\ "dry-run" \notin ValueFlags(v)
<1>1. v = "apply" \/ v = "upgrade"
  OBVIOUS
<1>2. "dry-run" \in BoolFlags(v)
  BY <1>1 DEF BoolFlags
<1>3. "dry-run" \notin ValueFlags(v)
  BY <1>1 DEF ValueFlags
<1> QED
  BY <1>2, <1>3

\* ReadFlag sets one flag, to the value it has on the line, and goes behind it, or
\* behind its value.
LEMMA FlagRead ==
    ASSUME ReadFlag, LineKept
    PROVE  /\ pc \in {"global", "local"} /\ pc' = pc /\ rest # <<>>
           /\ Consumed + 1 \in 1..Total /\ IsFlag(argv[Consumed + 1])
           /\ \E f \in STRING, v \in STRING :
                /\ f = argv[Consumed + 1].name /\ SetFlag(f, v)
                /\ \/ /\ f \in BoolFlags(Set) /\ Consumed' = Consumed + 1
                      /\ v = IF argv[Consumed + 1].val \in Yes THEN "true" ELSE "false"
                   \/ /\ f \in ValueFlags(Set) /\ Consumed' = Consumed + 1
                      /\ argv[Consumed + 1].val # Unset /\ v = Value(Consumed + 1)
                   \/ /\ f \in ValueFlags(Set) /\ Consumed' = Consumed + 2
                      /\ argv[Consumed + 1].val = Unset /\ v = Value(Consumed + 1)
                      /\ Consumed + 2 \in 1..Total
<1> DEFINE n == Consumed + 1
           a == Head(rest)
<1>1. /\ pc \in {"global", "local"} /\ pc' = pc /\ rest # <<>> /\ IsFlag(a)
      /\ Total' = Total
  BY DEF ReadFlag, Parsing, Total
<1>2. /\ n \in 1..Total /\ a = argv[n] /\ a \in Argument
      /\ Left > 1 => Consumed + 2 \in 1..Total /\ rest[2] = argv[Consumed + 2]
  BY <1>1, HeadPlaced
<1>3. a.name \in STRING /\ a.val \in STRING /\ {"true", "false"} \subseteq STRING
  <2>1. \A b \in Argument : b.name \in STRING /\ b.val \in STRING
    BY DEF Argument
  <2>2. {"true", "false"} \subseteq STRING
    BY StringsAssumption
  <2> QED
    BY <2>1, <2>2, <1>2
<1>4. Total \in Nat /\ Left \in Nat /\ Consumed \in 0..Total /\ Left = Total - Consumed
  BY LineNumbers DEF LineKept
<1>5. rest' = Tail(rest) => Consumed' = n
  <2>1. rest' = Tail(rest) => Left' = Left - 1
    BY <1>1, TailOf DEF Left, LineKept
  <2> QED
    BY <2>1, <1>1, <1>4 DEF Consumed
<1>6. CASE /\ a.name \in BoolFlags(Set)
           /\ SetFlag(a.name, IF a.val \in Yes THEN "true" ELSE "false")
           /\ rest' = Tail(rest)
  BY <1>1, <1>2, <1>3, <1>5, <1>6
<1>7. CASE /\ a.name \in ValueFlags(Set) /\ a.val # Unset
           /\ SetFlag(a.name, a.val)
           /\ rest' = Tail(rest)
  <2>1. Value(n) = a.val
    BY <1>2, <1>7 DEF Value
  <2> QED
    BY <1>1, <1>2, <1>3, <1>5, <1>7, <2>1
<1>8. CASE /\ TakesNext(a) /\ Len(rest) > 1
           /\ SetFlag(a.name, Text(rest[2]))
           /\ rest' = SubSeq(rest, 3, Len(rest))
  <2>1. Consumed' = Consumed + 2 /\ Left > 1
    <3>1. Left' = Left - 2 /\ Left > 1
      BY <1>8, WithoutTwo DEF LineKept, Left
    <3> QED
      BY <3>1, <1>1, <1>4 DEF Consumed
  <2>2. n < Total /\ n + 1 = Consumed + 2
    BY <1>2, <1>4, <2>1
  <2>3. Value(n) = Text(rest[2])
    <3>1. n < Len(argv)
      BY <2>2 DEF Total
    <3> QED
      BY <2>1, <2>2, <3>1, <1>2, <1>8 DEF Value, TakesNext
  <2>4. Text(rest[2]) \in STRING
    <3>1. 2 \in 1..Left
      BY <1>4, <2>1
    <3> QED
      BY <3>1, TextTyped
  <2> QED
    BY <1>1, <1>2, <1>3, <1>8, <2>1, <2>3, <2>4 DEF TakesNext
<1> HIDE DEF n, a
<1>9. \/ /\ a.name \in BoolFlags(Set)
         /\ SetFlag(a.name, IF a.val \in Yes THEN "true" ELSE "false")
         /\ rest' = Tail(rest)
      \/ /\ a.name \in ValueFlags(Set) /\ a.val # Unset
         /\ SetFlag(a.name, a.val)
         /\ rest' = Tail(rest)
      \/ /\ TakesNext(a) /\ Len(rest) > 1
         /\ SetFlag(a.name, Text(rest[2]))
         /\ rest' = SubSeq(rest, 3, Len(rest))
  BY DEF ReadFlag, a
<1> QED
  BY <1>6, <1>7, <1>8, <1>9

(***************************************************************************)
(* Stages and the place of the verb.                                       *)
(***************************************************************************)
\* Nothing begins before its stage.
LEMMA StagesKept ==
    ASSUME Next, Stages
    PROVE  Stages'
<1> USE DEF Stages
<1>1. CASE ReadFlag
  <2>1. pc \in {"global", "local"} /\ pc' = pc
    BY <1>1 DEF ReadFlag, Parsing
  <2>2. pc = "global" => local' = local
    BY <1>1 DEF ReadFlag, SetFlag
  <2>3. /\ at' = at /\ current' = current /\ docs' = docs
        /\ verb' = verb /\ kind' = kind /\ verbAt' = verbAt
    BY <1>1 DEF ReadFlag, inputVars, verbVars
  <2>4. turn' = turn /\ bad' = bad /\ touched' = touched
    BY <1>1, HandlersStay
  <2> QED
    BY <2>1, <2>2, <2>3, <2>4
<1>2. CASE BadFlag
  BY <1>2 DEF BadFlag, Parsing, Goto, Exit, inputVars, flagVars, verbVars, handlerVars
<1>3. CASE EndFlags
  BY <1>3 DEF EndFlags, Goto, inputVars, flagVars, verbVars, handlerVars, Verbs
<1>4. CASE Refuse
  BY <1>4 DEF Refuse, Exit, inputVars, flagVars, verbVars, handlerVars
<1>5. CASE Dispatch
  <2>1. pc' = "exit" \/ (pc' = "local" /\ verb' \in Verbs)
    BY <1>5 DEF Dispatch, Exit, Goto
  <2>2. pc = "dispatch" /\ at' = at /\ current' = current /\ docs' = docs
    BY <1>5 DEF Dispatch, inputVars
  <2>3. turn' = turn /\ bad' = bad /\ touched' = touched
    BY <1>5, HandlersStay
  <2> QED
    BY <2>1, <2>2, <2>3
<1>6. CASE CheckArguments
  <2>1. /\ pc = "arguments" /\ at' = at /\ current' = current /\ docs' = docs
        /\ verb' = verb /\ touched' = touched /\ turn' = turn /\ bad' = bad
    BY <1>6 DEF CheckArguments, inputVars, verbVars
  <2>2. \/ pc' = "exit"
        \/ pc' = "split" /\ verb \in {"apply", "policy", "inject", "delete"}
        \/ pc' = "work" /\ verb \in {"stream", "label"}
        \/ pc' = "env" /\ verb \notin {"policy", "stream"}
    BY <1>6 DEF CheckArguments, Exit, Goto
  <2> QED
    BY <2>1, <2>2
<1>7. CASE ReadDocument
  BY <1>7 DEF ReadDocument, lineVars, flagVars, verbVars, handlerVars
<1>8. CASE ReadLast
  <2>1. /\ pc = "split" /\ verb' = verb
        /\ \/ pc' = "exit" \/ pc' = "documents"
           \/ pc' = "env" /\ verb = "apply"
    BY <1>8 DEF ReadLast, Exit, Goto, verbVars
  <2>2. turn' = turn /\ bad' = bad /\ touched' = touched
    BY <1>8, HandlersStay
  <2> QED
    BY <2>1, <2>2
<1>9. CASE ResolveEnv
  <2>1. /\ pc = "env" /\ verb' = verb /\ touched' = touched
        /\ \/ pc' = "exit"
           \/ pc' = "targets" /\ verb \in {"apply", "delete"}
           \/ pc' = "work" /\ verb \notin {"apply", "delete"}
    BY <1>9 DEF ResolveEnv, Exit, Goto, verbVars
  <2> QED
    BY <2>1
<1>10. CASE ValidateDocument
  BY <1>10 DEF ValidateDocument, Stop, Step, Exit, verbVars, inputVars
<1>11. CASE AnnounceDocument
  BY <1>11 DEF AnnounceDocument, Stop, Step, Exit, verbVars, inputVars
<1>12. CASE CollectDocument
  BY <1>12 DEF CollectDocument, Stop, Step, Exit, Goto, verbVars, inputVars
<1>13. CASE InjectDocument
  BY <1>13 DEF InjectDocument, Stop, Step, Exit, verbVars, inputVars
<1>14. CASE ApplyDocument
  BY <1>14 DEF ApplyDocument, Stop, Step, Exit, verbVars, inputVars
<1>15. CASE DeleteTarget
  BY <1>15 DEF DeleteTarget, Stop, Step, Exit, verbVars, inputVars
<1>16. CASE Work
  BY <1>16 DEF Work, Exit, verbVars, inputVars
<1> QED
  BY <1>1, <1>2, <1>3, <1>4, <1>5, <1>6, <1>7, <1>8, <1>9, <1>10, <1>11, <1>12, <1>13,
     <1>14, <1>15, <1>16 DEF Next

\* Nothing happens behind the exit.
LEMMA ExitIsFinal ==
    ASSUME Next
    PROVE  pc # "exit"
<1>1. CASE ReadFlag \/ BadFlag \/ EndFlags \/ Refuse \/ Dispatch \/ CheckArguments
  BY <1>1 DEF ReadFlag, BadFlag, EndFlags, Refuse, Dispatch, CheckArguments, Parsing
<1>2. CASE ReadDocument \/ ReadLast \/ ResolveEnv \/ ValidateDocument \/ AnnounceDocument
  BY <1>2 DEF ReadDocument, ReadLast, ResolveEnv, ValidateDocument, AnnounceDocument
<1>3. CASE CollectDocument \/ InjectDocument \/ ApplyDocument \/ DeleteTarget \/ Work
  BY <1>3 DEF CollectDocument, InjectDocument, ApplyDocument, DeleteTarget, Work
<1> QED
  BY <1>1, <1>2, <1>3 DEF Next

\* Only four actions touch anything.
LEMMA TouchesStay ==
    ASSUME Next, ~InjectDocument, ~ApplyDocument, ~DeleteTarget, ~Work
    PROVE  touched' = touched
<1>1. CASE ReadFlag \/ BadFlag \/ EndFlags \/ Refuse \/ Dispatch \/ ReadDocument \/ ReadLast
  BY <1>1, HandlersStay
<1>2. CASE CheckArguments \/ ResolveEnv
  BY <1>2 DEF CheckArguments, ResolveEnv
<1>3. CASE ValidateDocument \/ AnnounceDocument \/ CollectDocument
  BY <1>3 DEF ValidateDocument, AnnounceDocument, CollectDocument
<1> QED
  BY <1>1, <1>2, <1>3 DEF Next

\* Those four have a verb.
LEMMA TouchersHaveVerb ==
    ASSUME InjectDocument \/ ApplyDocument \/ DeleteTarget \/ Work, Stages
    PROVE  verb \in Verbs /\ verb # "" /\ pc \in {"documents", "targets", "work"}
<1>1. pc \in {"documents", "targets", "work"}
  BY DEF InjectDocument, ApplyDocument, DeleteTarget, Work
<1>2. verb \in Verbs
  BY <1>1 DEF Stages
<1> QED
  BY <1>1, <1>2 DEF Verbs

\* What Dispatch knows of the verb it goes to.
LEMMA VerbDispatched ==
    ASSUME Dispatch, LineKept, Stages, verb' # verb
    PROVE  /\ verb' \in Verbs /\ verbAt' = Consumed + 1 /\ verbAt' \in 1..Total
           /\ argv[verbAt'].dashes = 0
           /\ \A i \in (verbAt' + 1)..Total :
                argv[i].dashes = 2 => argv[i].name \notin Globals
           /\ \/ pc' = "exit"
              \/ pc' = "local" /\ Left' = Left - 1
              \/ /\ pc' = "local" /\ Left' = Left - 2
                 /\ verb' \in {"get", "stream", "policy", "completion"}
<1>1. /\ Verb \in Verbs /\ verb' = Verb /\ verbAt' = Len(argv) - Len(Args)
      /\ ~globalFlagPositionHint(Args)
      /\ \/ pc' = "exit" \/ (pc' = "local" /\ rest' = Args)
         \/ /\ pc' = "local" /\ rest' = Tail(Args) /\ Hoists(Verb, Args)
            /\ Verb = "get" \/ Target \in Targets(Verb)
  BY DEF Dispatch, Stages, verbVars, Exit, Goto
<1>2. rest # <<>> /\ Verb = Text(Head(rest)) /\ Args = Tail(rest)
  BY <1>1, VerbThere
<1>3. /\ Consumed + 1 \in 1..Total /\ Head(rest) = argv[Consumed + 1]
      /\ \A k \in 1..Left : rest[k] = argv[Consumed + k]
  BY <1>2, HeadPlaced DEF LineKept
<1>n. Total \in Nat /\ Left \in Nat /\ Consumed \in 0..Total /\ Left = Total - Consumed
  BY LineNumbers DEF LineKept
<1>4. /\ Args \in Seq(Argument) /\ Len(Args) = Left - 1 /\ DOMAIN Args = 1..(Left - 1)
      /\ \A k \in 1..(Left - 1) : Args[k] = rest[k + 1]
  BY <1>2, TailOf DEF Left, LineKept
<1>5. verbAt' = Consumed + 1
  <2>1. verbAt' = Total - (Left - 1)
    BY <1>1, <1>4 DEF Total
  <2>2. Total - (Left - 1) = Consumed + 1
    BY <1>n
  <2> QED
    BY <2>1, <2>2
<1>6. argv[verbAt'].dashes = 0
  BY <1>1, <1>2, <1>3, <1>5 DEF LineKept
<1>7. ASSUME NEW i \in (verbAt' + 1)..Total, argv[i].dashes = 2
      PROVE  argv[i].name \notin Globals
  <2> DEFINE k == i - Consumed - 1
  <2>1. /\ k \in 1..(Left - 1) /\ k + 1 \in 1..Left /\ Consumed + (k + 1) = i
    <3>1. i \in (Consumed + 1 + 1)..Total
      BY <1>5
    <3> QED
      BY <3>1, <1>n
  <2>2. Args[k] = argv[i]
    BY <2>1, <1>3, <1>4
  <2>3. k \in DOMAIN Args
    BY <2>1, <1>4
  <2> QED
    BY <2>2, <2>3, <1>1, <1>7 DEF globalFlagPositionHint
<1>8. Hoists(Verb, Args) /\ (Verb = "get" \/ Target \in Targets(Verb))
      => Args # <<>> /\ Verb \in {"get", "stream", "policy", "completion"}
  BY TargetsOf DEF Hoists, Target
<1>9. Args # <<>> => Len(Tail(Args)) = Left - 1 - 1
  BY <1>4, TailOf
<1>10. Left - 1 - 1 = Left - 2
  BY <1>n
<1>11. \/ pc' = "exit"
       \/ pc' = "local" /\ Left' = Left - 1
       \/ /\ pc' = "local" /\ Left' = Left - 2
          /\ verb' \in {"get", "stream", "policy", "completion"}
  BY <1>1, <1>4, <1>8, <1>9, <1>10 DEF Left
<1> QED
  BY <1>1, <1>3, <1>5, <1>6, <1>7, <1>11

\* Less is left, so more has been read.
LEMMA FurtherOn ==
    ASSUME NEW t \in Nat, NEW c \in Nat, NEW d \in Nat, NEW l, NEW m, l = t - c, m = t - d
    PROVE  m = l - 1 \/ m = l - 2 => c + 1 <= d
OBVIOUS

\* The verb stays where it is.
LEMMA VerbPlacedKept ==
    ASSUME Next, LineKept, Stages, VerbPlaced
    PROVE  VerbPlaced'
<1>1. pc # "exit" /\ argv' = argv
  BY ExitIsFinal, GivenStays
<1>2. /\ Total' = Total /\ Left' \in Nat /\ Left' = Total - Consumed'
      /\ Consumed' \in Consumed..Total
      /\ Total \in Nat /\ Left \in Nat /\ Consumed \in 0..Total /\ Left = Total - Consumed
  BY LineKeptKept, LineNumbers DEF LineKept
<1>3. Left' = Left - 1 \/ Left' = Left - 2 => Consumed + 1 <= Consumed'
  <2>1. Total \in Nat /\ Consumed \in Nat /\ Consumed' \in Nat
    BY <1>2
  <2>2. Left' = Total - Consumed' /\ Left = Total - Consumed
    BY <1>2
  <2> QED
    BY <2>1, <2>2, FurtherOn
<1>4. verb' = "" => ~touched'
  <2>1. CASE InjectDocument \/ ApplyDocument \/ DeleteTarget \/ Work
    <3>1. verb # "" /\ pc \in {"documents", "targets", "work"}
      BY <2>1, TouchersHaveVerb
    <3>2. ~Dispatch
      BY <3>1 DEF Dispatch
    <3> QED
      BY <3>1, <3>2, VerbStays
  <2>2. CASE ~(InjectDocument \/ ApplyDocument \/ DeleteTarget \/ Work)
    <3>1. touched' = touched
      BY <2>2, TouchesStay
    <3>2. CASE Dispatch
      BY <3>1, <3>2 DEF Dispatch, Stages, VerbPlaced
    <3>3. CASE ~Dispatch
      BY <3>1, <3>3, VerbStays DEF VerbPlaced
    <3> QED
      BY <3>2, <3>3
  <2> QED
    BY <2>1, <2>2
<1>5. CASE ~Dispatch
  <2>1. verb' = verb /\ verbAt' = verbAt
    BY <1>5, VerbStays
  <2>2. verb # "" => verbAt \in 1..Total /\ verbAt <= Consumed
    BY <1>1 DEF VerbPlaced
  <2>3. verb # "" => verbAt <= Consumed'
    <3>1. verbAt \in 1..Total /\ verbAt <= Consumed => verbAt <= Consumed'
      BY <1>2
    <3> QED
      BY <3>1, <2>2
  <2> QED
    BY <1>1, <1>2, <1>4, <2>1, <2>3 DEF VerbPlaced
<1>6. CASE Dispatch /\ verb' # ""
  <2>1. /\ verbAt' = Consumed + 1 /\ verbAt' \in 1..Total /\ argv[verbAt'].dashes = 0
        /\ \A i \in (verbAt' + 1)..Total :
             argv[i].dashes = 2 => argv[i].name \notin Globals
        /\ pc' = "exit" \/ Left' = Left - 1 \/ Left' = Left - 2
    <3>1. verb' # verb
      BY <1>6 DEF Dispatch, Stages
    <3> QED
      BY <1>6, <3>1, VerbDispatched
  <2>2. pc' = "exit" \/ verbAt' <= Consumed'
    BY <1>3, <2>1
  <2> QED
    BY <1>1, <1>2, <1>4, <2>1, <2>2 DEF VerbPlaced
<1>7. CASE Dispatch /\ verb' = ""
  BY <1>4, <1>7 DEF VerbPlaced
<1> QED
  BY <1>5, <1>6, <1>7

\* A flag that is set was typed.
LEMMA FlagsTypedKept ==
    ASSUME Next, LineKept, Stages, VerbPlaced, FlagsTyped
    PROVE  FlagsTyped'
<1>1. /\ argv' = argv /\ Total' = Total /\ Total \in Nat /\ Consumed \in 0..Total
      /\ DOMAIN argv = 1..Total
  BY GivenStays, LineNumbers DEF Total, LineKept
<1>2. CASE ReadFlag
  <2>1. verbAt' = verbAt /\ verb' = verb
    BY <1>2 DEF ReadFlag, verbVars
  <2>2. /\ pc \in {"global", "local"}
        /\ Consumed + 1 \in 1..Total /\ IsFlag(argv[Consumed + 1])
        /\ \E f \in STRING, v \in STRING :
             /\ f = argv[Consumed + 1].name /\ SetFlag(f, v)
             /\ f \in BoolFlags(Set) \/ v = Value(Consumed + 1)
    BY <1>2, FlagRead
  <2>3. PICK f \in STRING, v \in STRING :
             /\ f = argv[Consumed + 1].name /\ SetFlag(f, v)
             /\ f \in BoolFlags(Set) \/ v = Value(Consumed + 1)
    BY <2>2
  <2>4. CASE pc = "global"
    <3>1. global' = With(global, f, v) /\ local' = local
      BY <2>3, <2>4 DEF SetFlag
    <3>2. v = Value(Consumed + 1)
      BY <2>3, <2>4, FlagsOfExecute DEF Set
    <3>3. ASSUME NEW g \in DOMAIN global'
          PROVE  \E i \in DOMAIN argv :
                    IsFlag(argv[i]) /\ argv[i].name = g /\ global'[g] = Value(i)
      <4>1. CASE g = f
        <5>1. global'[g] = v
          BY <3>1, <4>1 DEF With
        <5>2. Consumed + 1 \in DOMAIN argv
          BY <1>1, <2>2
        <5> QED
          BY <4>1, <5>1, <5>2, <2>2, <2>3, <3>2
      <4>2. CASE g # f
        <5>1. g \in DOMAIN global /\ global'[g] = global[g]
          BY <3>1, <3>3, <4>2 DEF With
        <5> QED
          BY <5>1 DEF FlagsTyped
      <4> QED
        BY <4>1, <4>2
    <3> QED
      BY <1>1, <2>1, <3>1, <3>3 DEF FlagsTyped, Value
  <2>5. CASE pc = "local"
    <3>1. local' = With(local, f, v) /\ global' = global
      BY <2>3, <2>5 DEF SetFlag
    <3>2. Consumed + 1 \in (verbAt + 1)..Total
      <4>1. verb # "" /\ pc # "exit"
        BY <2>5 DEF Stages, Verbs
      <4>2. verbAt \in 1..Total /\ verbAt <= Consumed
        BY <4>1 DEF VerbPlaced
      <4> QED
        BY <4>2, <2>2, <1>1
    <3>3. ASSUME NEW g \in DOMAIN local'
          PROVE  /\ local'[g] \in STRING
                 /\ \E i \in (verbAt + 1)..Total :
                      IsFlag(argv[i]) /\ argv[i].name = g
      <4>1. CASE g = f
        <5>1. local'[g] = v
          BY <3>1, <4>1 DEF With
        <5> QED
          BY <4>1, <5>1, <2>2, <2>3, <3>2
      <4>2. CASE g # f
        <5>1. g \in DOMAIN local /\ local'[g] = local[g]
          BY <3>1, <3>3, <4>2 DEF With
        <5> QED
          BY <5>1 DEF FlagsTyped
      <4> QED
        BY <4>1, <4>2
    <3> QED
      BY <1>1, <2>1, <3>1, <3>3 DEF FlagsTyped, Value
  <2> QED
    BY <2>2, <2>4, <2>5
<1>3. CASE ~ReadFlag
  <2>1. global' = global /\ local' = local
    BY <1>3, FlagsStay
  <2>2. CASE Dispatch
    <3>1. DOMAIN local = {}
      BY <2>2 DEF Dispatch, Stages, NoFlags
    <3> QED
      BY <1>1, <2>1, <3>1 DEF FlagsTyped, Value
  <2>3. CASE ~Dispatch
    BY <1>1, <2>1, <2>3, VerbStays DEF FlagsTyped, Value
  <2> QED
    BY <2>2, <2>3
<1> QED
  BY <1>2, <1>3

(***************************************************************************)
(* The flags that count.                                                   *)
(***************************************************************************)
\* What the places of a line are.
LEMMA Places ==
    ASSUME NEW n \in Nat
    PROVE  /\ \A i \in 1..(n + 1) : i \in 1..n \/ i = n + 1
           /\ \A i \in 1..(n + 2) : i \in 1..n \/ i = n + 1 \/ i = n + 2
           /\ \A i \in 1..n : /\ n + 1 \in (i + 1)..(n + 1) /\ n + 1 \in (i + 1)..(n + 2)
                              /\ \A j \in (i + 1)..n : /\ j \in (i + 1)..(n + 1)
                                                       /\ j \in (i + 1)..(n + 2)
           /\ n + 2 > 1 /\ (n + 2) - 1 = n + 1
OBVIOUS

\* An argument that is no flag f does not change which of them counts.
LEMMA CountsOn ==
    ASSUME NEW flags, NEW f, NEW n \in Nat, Counts(flags, f, n),
           ~(IsFlag(argv[n + 1]) /\ argv[n + 1].name = f)
    PROVE  Counts(flags, f, n + 1)
<1> SUFFICES ASSUME NEW i \in 1..(n + 1), Own(i, f), LastUpTo(i, f, n + 1)
             PROVE  f \in DOMAIN flags /\ flags[f] = Value(i)
  BY DEF Counts
<1>1. i # n + 1
  BY DEF Own
<1>2. i \in 1..n
  BY <1>1, Places
<1>3. LastUpTo(i, f, n)
  BY <1>2, Places DEF LastUpTo
<1> QED
  BY <1>2, <1>3 DEF Counts

\* The flag just read counts, one before it that has another name still does, and what
\* was read as its value does not.
LEMMA CountsWith ==
    ASSUME NEW flags, NEW f, NEW n \in Nat, Counts(flags, f, n), NEW m,
           IsFlag(argv[n + 1]),
           m = n + 1 \/ (m = n + 2 /\ argv[n + 1].val = Unset)
    PROVE  Counts(With(flags, argv[n + 1].name, Value(n + 1)), f, m)
<1> DEFINE h == argv[n + 1].name
           now == With(flags, h, Value(n + 1))
<1> SUFFICES ASSUME NEW i \in 1..m, Own(i, f), LastUpTo(i, f, m)
             PROVE  f \in DOMAIN now /\ now[f] = Value(i)
  BY DEF Counts
<1>1. CASE i \in 1..n
  <2>1. h # f
    BY <1>1, Places DEF LastUpTo
  <2>2. LastUpTo(i, f, n)
    BY <1>1, Places DEF LastUpTo
  <2>3. f \in DOMAIN flags /\ flags[f] = Value(i)
    BY <1>1, <2>2 DEF Counts
  <2> QED
    BY <2>1, <2>3 DEF With
<1>2. CASE i = n + 1
  <2>1. h = f
    BY <1>2 DEF Own
  <2> QED
    BY <1>2, <2>1 DEF With
<1>3. CASE i = n + 2 /\ argv[n + 1].val = Unset
  BY <1>3, Places DEF Own
<1> QED
  BY <1>1, <1>2, <1>3, Places

\* Only parsing leads to the front of the program.
LEMMA FrontSteps ==
    ASSUME Next, Stages, pc' \in {"global", "dispatch"}
    PROVE  ReadFlag \/ BadFlag \/ EndFlags
<1>1. ~Refuse /\ ~Dispatch
  BY DEF Refuse, Dispatch, Exit, Goto
<1>2. ~CheckArguments
  BY DEF CheckArguments, Exit, Goto
<1>3. ~ReadDocument /\ ~ReadLast /\ ~ResolveEnv
  BY DEF ReadDocument, ReadLast, ResolveEnv, lineVars, Exit, Goto
<1>4. ~ValidateDocument /\ ~AnnounceDocument /\ ~CollectDocument
  BY DEF ValidateDocument, AnnounceDocument, CollectDocument, Step, Stop, Exit, Goto
<1>5. ~InjectDocument /\ ~ApplyDocument /\ ~DeleteTarget /\ ~Work
  BY DEF InjectDocument, ApplyDocument, DeleteTarget, Work, Step, Stop, Exit, Goto
<1> QED
  BY <1>1, <1>2, <1>3, <1>4, <1>5 DEF Next

\* Among the global flags the last one counts.
LEMMA GlobalsCountKept ==
    ASSUME Next, LineKept, Stages, VerbPlaced, GlobalsCount
    PROVE  GlobalsCount'
<1>1. argv' = argv
  BY GivenStays
<1>3. Consumed \in Nat
  BY LineNumbers DEF LineKept
<1>4. CASE ReadFlag /\ pc = "global"
  <2>1. PICK f \in STRING, v \in STRING :
          /\ f = argv[Consumed + 1].name /\ SetFlag(f, v)
          /\ \/ f \in BoolFlags(Set)
             \/ Consumed' = Consumed + 1 /\ v = Value(Consumed + 1)
             \/ /\ Consumed' = Consumed + 2 /\ v = Value(Consumed + 1)
                /\ argv[Consumed + 1].val = Unset
    BY <1>4, FlagRead
  <2>2. IsFlag(argv[Consumed + 1]) /\ pc' = "global" /\ verb' = ""
    <3>1. verb' = verb
      BY <1>4 DEF ReadFlag, verbVars
    <3> QED
      BY <1>4, <3>1, FlagRead DEF Stages
  <2>3. /\ global' = With(global, argv[Consumed + 1].name, Value(Consumed + 1))
        /\ \/ Consumed' = Consumed + 1
           \/ Consumed' = Consumed + 2 /\ argv[Consumed + 1].val = Unset
    BY <1>4, <2>1, FlagsOfExecute DEF SetFlag, Set
  <2>4. ASSUME NEW g \in Globals
        PROVE  Counts(global', g, Consumed')
    <3>1. Counts(global, g, Consumed)
      BY <1>4 DEF GlobalsCount
    <3> QED
      BY <1>3, <2>2, <2>3, <3>1, CountsWith
  <2> QED
    BY <2>2, <2>4, <1>1 DEF GlobalsCount, Counts, Own, LastUpTo, Value
<1>5. CASE ReadFlag /\ pc = "local"
  <2>1. pc' = "local" /\ verb' = verb /\ verbAt' = verbAt /\ global' = global
    BY <1>5 DEF ReadFlag, verbVars, SetFlag
  <2> QED
    BY <2>1, <1>1 DEF GlobalsCount, Counts, Own, LastUpTo, Value
<1>6. CASE (BadFlag \/ EndFlags) /\ pc = "global"
  <2>1. pc' = "dispatch" /\ global' = global /\ verb' = ""
    BY <1>6 DEF BadFlag, EndFlags, Goto, flagVars, verbVars, Stages
  <2>2. ASSUME NEW g \in Globals, rest' # <<>>
        PROVE  Counts(global, g, Consumed')
    <3>1. Counts(global, g, Consumed)
      BY <1>6 DEF GlobalsCount
    <3>2. CASE rest' = rest
      <4>1. Consumed' = Consumed
        BY <3>2, <1>1 DEF Consumed, Total, Left
      <4> QED
        BY <3>1, <4>1
    <3>3. CASE rest # <<>> /\ rest' = Tail(rest)
      <4>1. ~(IsFlag(Head(rest)) /\ Head(rest).name = g)
        <5>1. CASE EndFlags
          BY <3>3, <5>1 DEF EndFlags
        <5>2. CASE BadFlag
          <6>1. ~(TakesNext(Head(rest)) /\ Len(rest) = 1)
            <7>1. Len(rest) # 1
              BY <2>2, <3>3, TailOf, EmptySeq DEF LineKept
            <7> QED
              BY <7>1
          <6>2. BoolFlags("kkctl") = {}
            BY DEF BoolFlags
          <6>3. Head(rest).name \notin ValueFlags("kkctl")
            BY <1>6, <5>2, <6>1, <6>2 DEF BadFlag, Set
          <6> QED
            BY <6>3, FlagsOfExecute
        <5> QED
          BY <1>6, <5>1, <5>2
      <4>2. Head(rest) = argv[Consumed + 1] /\ Consumed' = Consumed + 1
        <5>1. Left' = Left - 1 /\ Total' = Total
          BY <3>3, <1>1, TailOf DEF Left, Total, LineKept
        <5>2. Total \in Nat /\ Left \in Nat
          BY LineNumbers DEF LineKept
        <5>3. Consumed' = Consumed + 1
          BY <5>1, <5>2 DEF Consumed
        <5> QED
          BY <3>3, <5>3, HeadPlaced
      <4> QED
        BY <1>3, <3>1, <4>1, <4>2, CountsOn
    <3> QED
      BY <1>6, <3>2, <3>3 DEF BadFlag, EndFlags, Parsing
  <2> QED
    BY <2>1, <2>2, <1>1 DEF GlobalsCount, Counts, Own, LastUpTo, Value
<1>7. CASE Dispatch
  <2>1. pc' # "dispatch" /\ pc' # "global" /\ global' = global /\ pc = "dispatch"
    BY <1>7 DEF Dispatch, Exit, Goto, flagVars
  <2>2. ASSUME NEW g \in Globals, verb' # ""
        PROVE  Counts(global, g, verbAt')
    <3>1. verb' # verb
      BY <1>7, <2>2 DEF Dispatch, Stages
    <3>2. verbAt' = Consumed + 1 /\ argv[Consumed + 1].dashes = 0
      BY <1>7, <3>1, VerbDispatched
    <3>3. rest # <<>>
      BY <1>7, <3>1, VerbThere DEF Dispatch, verbVars
    <3>4. Counts(global, g, Consumed)
      BY <2>1, <3>3 DEF GlobalsCount
    <3>5. ~IsFlag(argv[Consumed + 1])
      BY <3>2 DEF IsFlag
    <3> QED
      BY <1>3, <3>2, <3>4, <3>5, CountsOn
  <2> QED
    BY <2>1, <2>2, <1>1 DEF GlobalsCount, Counts, Own, LastUpTo, Value
<1>8. CASE ~ReadFlag /\ ~Dispatch /\ ~(pc = "global" /\ (BadFlag \/ EndFlags))
  <2>1. pc' \notin {"global", "dispatch"}
    <3>1. (BadFlag \/ EndFlags) /\ pc # "global" => pc' \notin {"global", "dispatch"}
      BY DEF BadFlag, EndFlags, Parsing, Exit, Goto
    <3> QED
      BY <1>8, <3>1, FrontSteps
  <2>2. verb' = verb /\ verbAt' = verbAt /\ global' = global
    BY <1>8, VerbStays, FlagsStay
  <2> QED
    BY <2>1, <2>2, <1>1 DEF GlobalsCount, Counts, Own, LastUpTo, Value
<1> QED
  BY <1>4, <1>5, <1>6, <1>7, <1>8 DEF ReadFlag, Parsing

\* The places of a line behind its verb.
LEMMA PlacesBehind ==
    ASSUME NEW lo \in Nat, NEW n \in Nat
    PROVE  /\ \A i \in (lo + 1)..(n + 2) : i \in (lo + 1)..n \/ i = n + 1 \/ i = n + 2
           /\ \A i \in (lo + 1)..(n + 1) : i \in (lo + 1)..n \/ i = n + 1
           /\ \A i \in (lo + 1)..n : i \in 1..n
           /\ (lo + 1)..lo = {}
OBVIOUS

\* An argument that is no flag says nothing of a dry run.
LEMMA DryRunOn ==
    ASSUME NEW flags, NEW n \in Nat, verbAt \in Nat, DryRunCounts(flags, n),
           ~IsFlag(argv[n + 1])
    PROVE  DryRunCounts(flags, n + 1)
<1> SUFFICES ASSUME NEW i \in (verbAt + 1)..(n + 1), Own(i, "dry-run"), argv[i].val \in Yes,
                    LastUpTo(i, "dry-run", n + 1)
             PROVE  Given(flags, "dry-run") = "true"
  BY DEF DryRunCounts
<1>1. i # n + 1
  BY DEF Own
<1>2. i \in (verbAt + 1)..n /\ i \in 1..n
  BY <1>1, PlacesBehind
<1>3. LastUpTo(i, "dry-run", n)
  BY <1>2, Places DEF LastUpTo
<1> QED
  BY <1>2, <1>3 DEF DryRunCounts

\* A flag just read counts if it is --dry-run, and otherwise leaves that one alone.
LEMMA DryRunWith ==
    ASSUME NEW flags, NEW n \in Nat, verbAt \in Nat, DryRunCounts(flags, n), NEW m, NEW v,
           IsFlag(argv[n + 1]),
           m = n + 1 \/ (m = n + 2 /\ argv[n + 1].val = Unset),
           argv[n + 1].name = "dry-run" /\ argv[n + 1].val \in Yes => v = "true"
    PROVE  DryRunCounts(With(flags, argv[n + 1].name, v), m)
<1> DEFINE h == argv[n + 1].name
           now == With(flags, h, v)
<1> SUFFICES ASSUME NEW i \in (verbAt + 1)..m, Own(i, "dry-run"), argv[i].val \in Yes,
                    LastUpTo(i, "dry-run", m)
             PROVE  Given(now, "dry-run") = "true"
  BY DEF DryRunCounts
<1>1. CASE i \in (verbAt + 1)..n
  <2>1. i \in 1..n
    BY <1>1, PlacesBehind
  <2>2. h # "dry-run"
    BY <2>1, Places DEF LastUpTo
  <2>3. LastUpTo(i, "dry-run", n)
    BY <2>1, Places DEF LastUpTo
  <2>4. Given(flags, "dry-run") = "true"
    BY <1>1, <2>3 DEF DryRunCounts
  <2> QED
    BY <2>2, <2>4 DEF With, Given
<1>2. CASE i = n + 1
  BY <1>2 DEF Own, With, Given
<1>3. CASE i = n + 2 /\ argv[n + 1].val = Unset
  BY <1>3, Places DEF Own
<1> QED
  BY <1>1, <1>2, <1>3, PlacesBehind

\* A dry run stays one.
LEMMA DryRunKeptKept ==
    ASSUME Next, LineKept, Stages, VerbPlaced, DryRunKept
    PROVE  DryRunKept'
<1>1. argv' = argv /\ pc # "exit"
  BY GivenStays, ExitIsFinal
<1>2. Consumed \in Nat
  BY LineNumbers DEF LineKept
<1>3. ReadFlag \/ BadFlag \/ EndFlags \/ Dispatch => ~touched /\ ~touched'
  <2>1. ReadFlag \/ BadFlag \/ EndFlags \/ Dispatch => ~touched
    BY DEF ReadFlag, BadFlag, EndFlags, Dispatch, Parsing, Stages
  <2> QED
    BY <2>1, HandlersStay
<1>4. CASE ReadFlag /\ pc = "local" /\ verb \in {"apply", "upgrade"}
  <2>1. PICK f \in STRING, v \in STRING :
          /\ f = argv[Consumed + 1].name /\ SetFlag(f, v)
          /\ \/ /\ Consumed' = Consumed + 1
                /\ v = IF argv[Consumed + 1].val \in Yes THEN "true" ELSE "false"
             \/ /\ f \in ValueFlags(Set) /\ Consumed' = Consumed + 1
                /\ argv[Consumed + 1].val # Unset
             \/ /\ f \in ValueFlags(Set) /\ Consumed' = Consumed + 2
                /\ argv[Consumed + 1].val = Unset
    BY <1>4, FlagRead
  <2>2. IsFlag(argv[Consumed + 1]) /\ pc' = "local" /\ verb' = verb /\ verbAt' = verbAt
    BY <1>4, FlagRead DEF ReadFlag, verbVars
  <2>3. local' = With(local, argv[Consumed + 1].name, v)
    BY <1>4, <2>1 DEF SetFlag
  <2>4. f \in ValueFlags(Set) => f # "dry-run"
    BY <1>4, FlagsOfDryRun DEF Set
  <2>5. verbAt \in Nat
    <3>1. verb # ""
      BY <1>4
    <3>2. verbAt \in 1..Total /\ Total \in Nat
      BY <3>1, LineNumbers DEF VerbPlaced, LineKept
    <3> QED
      BY <3>2
  <2>6. DryRunCounts(local, Consumed)
    BY <1>1, <1>4 DEF DryRunKept
  <2>7. DryRunCounts(local', Consumed')
    <3>1. \/ Consumed' = Consumed + 1
          \/ Consumed' = Consumed + 2 /\ argv[Consumed + 1].val = Unset
      BY <2>1
    <3>2. argv[Consumed + 1].name = "dry-run" /\ argv[Consumed + 1].val \in Yes => v = "true"
      BY <2>1, <2>4
    <3> QED
      BY <1>2, <2>2, <2>3, <2>5, <2>6, <3>1, <3>2, DryRunWith
  <2> QED
    BY <1>1, <1>3, <1>4, <2>2, <2>7
       DEF DryRunKept, DryRunCounts, Own, LastUpTo, Stages
<1>5. CASE EndFlags /\ pc = "local" /\ verb \in {"apply", "upgrade"}
  <2>1. /\ local' = local /\ pc' = "arguments" /\ verb' = verb /\ verbAt' = verbAt
        /\ \/ rest' = rest
           \/ rest # <<>> /\ rest' = Tail(rest) /\ ~IsFlag(Head(rest))
    BY <1>5 DEF EndFlags, Goto, flagVars, verbVars
  <2>2. DryRunCounts(local, Consumed)
    BY <1>1, <1>5 DEF DryRunKept
  <2>3. DryRunCounts(local, Consumed')
    <3>1. CASE rest' = rest
      <4>1. Consumed' = Consumed
        BY <3>1, <1>1 DEF Consumed, Total, Left
      <4> QED
        BY <2>2, <4>1
    <3>2. CASE rest # <<>> /\ rest' = Tail(rest) /\ ~IsFlag(Head(rest))
      <4>1. Head(rest) = argv[Consumed + 1] /\ Consumed' = Consumed + 1
        <5>1. Left' = Left - 1 /\ Total' = Total
          BY <3>2, <1>1, TailOf DEF Left, Total, LineKept
        <5>2. Total \in Nat /\ Left \in Nat
          BY LineNumbers DEF LineKept
        <5>3. Consumed' = Consumed + 1
          BY <5>1, <5>2 DEF Consumed
        <5> QED
          BY <3>2, <5>3, HeadPlaced
      <4>2. verbAt \in Nat
        <5>1. verb # ""
          BY <1>5
        <5>2. verbAt \in 1..Total /\ Total \in Nat
          BY <5>1, LineNumbers DEF VerbPlaced, LineKept
        <5> QED
          BY <5>2
      <4> QED
        BY <1>2, <2>2, <3>2, <4>1, <4>2, DryRunOn
    <3> QED
      BY <2>1, <3>1, <3>2
  <2> QED
    BY <1>1, <1>3, <1>5, <2>1, <2>3
       DEF DryRunKept, DryRunCounts, Own, LastUpTo, Given, DryRun
<1>6. CASE BadFlag \/ (EndFlags /\ pc = "global") \/ (ReadFlag /\ pc = "global")
  <2>1. verb' = verb /\ (pc = "global" => verb = "")
    BY <1>6 DEF ReadFlag, BadFlag, EndFlags, verbVars, Stages
  <2>2. pc = "global" \/ pc' = "exit"
    BY <1>6 DEF BadFlag, Parsing, Exit
  <2> QED
    BY <1>3, <1>6, <2>1, <2>2 DEF DryRunKept
<1>7. CASE /\ (ReadFlag \/ EndFlags) /\ pc = "local"
           /\ verb \notin {"apply", "upgrade"}
  BY <1>7, VerbStays DEF DryRunKept, ReadFlag, EndFlags, verbVars
<1>8. CASE Dispatch
  <2>1. pc' \in {"exit", "local"} /\ (pc' = "exit" \/ verb' # verb)
    BY <1>8 DEF Dispatch, Exit, Goto, Stages, Verbs
  <2>2. CASE pc' = "local" /\ verb' \in {"apply", "upgrade"}
    <3>1. verbAt' = Consumed + 1 /\ Left' = Left - 1
      BY <1>8, <2>1, <2>2, VerbDispatched
    <3>2. Total' = Total /\ Total \in Nat /\ Left \in Nat
      BY <1>1, LineNumbers DEF LineKept, Total
    <3>3. Consumed' = Consumed + 1
      BY <3>1, <3>2 DEF Consumed
    <3>4. (verbAt' + 1)..Consumed' = {}
      BY <1>2, <3>1, <3>3
    <3> QED
      BY <1>3, <1>8, <2>2, <3>4 DEF DryRunKept, DryRunCounts
  <2> QED
    BY <1>3, <1>8, <2>1, <2>2 DEF DryRunKept
<1>9. CASE ~ReadFlag /\ ~BadFlag /\ ~EndFlags /\ ~Dispatch
  <2>1. rest' = rest /\ local' = local /\ verb' = verb /\ verbAt' = verbAt
    BY <1>9, RestStays, FlagsStay, VerbStays
  <2>2. Consumed' = Consumed
    BY <1>1, <2>1 DEF Consumed, Total, Left
  <2>3. verb \in {"apply", "upgrade"} => DryRunCounts(local, Consumed)'
    BY <1>1, <2>1, <2>2 DEF DryRunKept, DryRunCounts, Own, LastUpTo
  <2>4. DryRun' = DryRun
    BY <2>1 DEF DryRun
  <2>5. verb = "apply" /\ (touched' \/ pc' \in {"env", "targets"}) => ~DryRun
    <3>1. CASE Refuse \/ CheckArguments
      BY <3>1 DEF Refuse, CheckArguments, Exit, Goto, handlerVars, Stages
    <3>2. CASE ReadDocument
      BY <3>2 DEF ReadDocument, lineVars, handlerVars, DryRunKept
    <3>3. CASE ReadLast
      BY <3>3 DEF ReadLast, Exit, Goto, handlerVars, Stages
    <3>4. CASE ResolveEnv
      BY <3>4 DEF ResolveEnv, DryRunKept
    <3>5. CASE ValidateDocument \/ AnnounceDocument \/ CollectDocument \/ InjectDocument
      BY <3>5 DEF ValidateDocument, AnnounceDocument, CollectDocument, InjectDocument,
                  Step, Stop, Exit, Goto, DryRunKept
    <3>6. CASE ApplyDocument \/ DeleteTarget
      BY <3>6 DEF ApplyDocument, DeleteTarget, DryRunKept
    <3>7. CASE Work
      BY <3>7 DEF Work, Stages
    <3> QED
      BY <1>9, <3>1, <3>2, <3>3, <3>4, <3>5, <3>6, <3>7 DEF Next
  <2>6. verb = "upgrade" /\ touched' => ~DryRun
    <3>1. CASE InjectDocument \/ ApplyDocument \/ DeleteTarget
      BY <3>1 DEF InjectDocument, ApplyDocument, DeleteTarget
    <3>2. CASE Work
      BY <3>2 DEF Work
    <3>3. CASE ~InjectDocument /\ ~ApplyDocument /\ ~DeleteTarget /\ ~Work
      BY <3>3, TouchesStay DEF DryRunKept
    <3> QED
      BY <3>1, <3>2, <3>3
  <2> QED
    BY <2>1, <2>3, <2>4, <2>5, <2>6 DEF DryRunKept
<1> QED
  BY <1>4, <1>5, <1>6, <1>7, <1>8, <1>9 DEF ReadFlag, EndFlags, Parsing

\* A command works where it has found it is to work.
LEMMA PlaceKeptKept ==
    ASSUME Next, Stages, PlaceKept
    PROVE  PlaceKept'
<1>1. CASE ReadFlag \/ BadFlag \/ EndFlags \/ Refuse \/ Dispatch
  <2>1. ~touched' /\ pc' \notin {"targets", "work"}
    <3>1. ~touched
      BY <1>1 DEF ReadFlag, BadFlag, EndFlags, Refuse, Dispatch, Parsing, Stages
    <3>2. touched' = touched
      BY <1>1, HandlersStay
    <3>3. pc' \notin {"targets", "work"}
      BY <1>1 DEF ReadFlag, BadFlag, EndFlags, Refuse, Dispatch, Parsing, Exit, Goto
    <3> QED
      BY <3>1, <3>2, <3>3
  <2> QED
    BY <2>1 DEF PlaceKept
<1>2. CASE ~ReadFlag /\ ~BadFlag /\ ~EndFlags /\ ~Refuse /\ ~Dispatch
  <2>1. global' = global /\ local' = local /\ verb' = verb /\ host' = host
    BY <1>2, FlagsStay, VerbStays, GivenStays
  <2>2. resolvedEnv' = resolvedEnv
    BY <2>1 DEF resolvedEnv, detectEnv, inCluster
  <2>3. Dialed' = Dialed
    BY <2>1 DEF Dialed
  <2>4. verb \in NeedsEnv /\ (touched' \/ pc' \in {"targets", "work"}) =>
          env' = resolvedEnv /\ env' # ""
    <3>1. CASE CheckArguments
      <4>1. /\ ~touched' /\ pc' # "targets"
            /\ pc' = "work" => verb \in {"stream", "label"}
        BY <3>1 DEF CheckArguments, Exit, Goto, Stages
      <4> QED
        BY <4>1 DEF NeedsEnv
    <3>2. CASE ReadDocument \/ ReadLast
      BY <3>2 DEF ReadDocument, ReadLast, lineVars, handlerVars, Exit, Goto, Stages
    <3>3. CASE ResolveEnv
      <4>1. env' = resolvedEnv /\ ~touched'
        BY <3>3 DEF ResolveEnv, Stages
      <4>2. env' = "" /\ verb # "sysdump" => pc' = "exit"
        BY <3>3 DEF ResolveEnv, Exit
      <4> QED
        BY <4>1, <4>2 DEF NeedsEnv
    <3>4. CASE ValidateDocument \/ AnnounceDocument \/ CollectDocument
      BY <3>4 DEF ValidateDocument, AnnounceDocument, CollectDocument, Step, Stop, Exit,
                  Goto, Stages
    <3>5. CASE InjectDocument
      BY <3>5 DEF InjectDocument, NeedsEnv
    <3>6. CASE ApplyDocument \/ DeleteTarget \/ Work
      BY <3>6 DEF ApplyDocument, DeleteTarget, Work, PlaceKept
    <3> QED
      BY <1>2, <3>1, <3>2, <3>3, <3>4, <3>5, <3>6 DEF Next
  <2>5. verb = "stream" /\ (touched' \/ pc' = "work") => server' = Dialed
    <3>1. CASE CheckArguments
      BY <3>1 DEF CheckArguments, Exit, Goto, Stages
    <3>2. CASE ReadDocument \/ ReadLast
      BY <3>2 DEF ReadDocument, ReadLast, lineVars, handlerVars, Exit, Goto, Stages
    <3>3. CASE ResolveEnv
      BY <3>3 DEF ResolveEnv, Stages
    <3>4. CASE ValidateDocument \/ AnnounceDocument \/ CollectDocument \/ InjectDocument
      BY <3>4 DEF ValidateDocument, AnnounceDocument, CollectDocument, InjectDocument,
                  Stages
    <3>5. CASE ApplyDocument \/ DeleteTarget \/ Work
      BY <3>5 DEF ApplyDocument, DeleteTarget, Work, PlaceKept
    <3> QED
      BY <1>2, <3>1, <3>2, <3>3, <3>4, <3>5 DEF Next
  <2> QED
    BY <2>1, <2>2, <2>3, <2>4, <2>5 DEF PlaceKept
<1> QED
  BY <1>1, <1>2

(***************************************************************************)
(* The documents of a file.                                                *)
(***************************************************************************)
\* What Append gives.
LEMMA AppendOf ==
    ASSUME NEW S, NEW s \in Seq(S), NEW x \in S
    PROVE  /\ Append(s, x) \in Seq(S) /\ Len(s) \in Nat
           /\ DOMAIN s = 1..Len(s) /\ DOMAIN Append(s, x) = 1..(Len(s) + 1)
           /\ \A k \in 1..Len(s) : Append(s, x)[k] = s[k]
           /\ Append(s, x)[Len(s) + 1] = x
OBVIOUS

\* The place behind the last one of a sequence.
LEMMA PlaceBehind ==
    ASSUME NEW n \in Nat
    PROVE  /\ 1..(n + 1) = 1..n \cup {n + 1}
           /\ \A d, e \in 1..(n + 1) : d < e => d \in 1..n
           /\ \A d \in 1..n : d # n + 1 /\ d < n + 1 /\ d \in Nat
OBVIOUS

\* The numbers of a document that gets one more.
LEMMA NumbersAppended ==
    ASSUME NEW S, NEW s \in Seq(S), NEW x \in S
    PROVE  Numbers(Append(s, x)) = Numbers(s) \cup {x}
<1>1. /\ Len(s) \in Nat
      /\ DOMAIN s = 1..Len(s) /\ DOMAIN Append(s, x) = DOMAIN s \cup {Len(s) + 1}
      /\ \A k \in DOMAIN s : Append(s, x)[k] = s[k]
      /\ Append(s, x)[Len(s) + 1] = x
  BY AppendOf, PlaceBehind
<1> QED
  BY <1>1 DEF Numbers

\* What the flush of the document being read does to the documents.
LEMMA FlushedIs ==
    ASSUME NEW D, docs \in Seq(Seq(D)), current \in Seq(D)
    PROVE  \/ Flushed = docs /\ IsBlank(current)
           \/ /\ ~IsBlank(current) /\ Len(docs) \in Nat
              /\ DOMAIN docs = 1..Len(docs) /\ DOMAIN Flushed = 1..(Len(docs) + 1)
              /\ DOMAIN Flushed = DOMAIN docs \cup {Len(docs) + 1}
              /\ \A d \in DOMAIN docs : Flushed[d] = docs[d]
              /\ Flushed[Len(docs) + 1] = current
              /\ Flushed \in Seq(Seq(D))
<1>1. CASE IsBlank(current)
  BY <1>1 DEF Flushed
<1>2. CASE ~IsBlank(current)
  <2>1. Flushed = Append(docs, current)
    BY <1>2 DEF Flushed
  <2>2. /\ Append(docs, current) \in Seq(Seq(D)) /\ Len(docs) \in Nat
        /\ DOMAIN docs = 1..Len(docs) /\ DOMAIN Append(docs, current) = 1..(Len(docs) + 1)
        /\ \A k \in 1..Len(docs) : Append(docs, current)[k] = docs[k]
        /\ Append(docs, current)[Len(docs) + 1] = current
    BY AppendOf
  <2>3. 1..(Len(docs) + 1) = 1..Len(docs) \cup {Len(docs) + 1}
    BY <2>2, PlaceBehind
  <2> QED
    BY <1>2, <2>1, <2>2, <2>3
<1> QED
  BY <1>1, <1>2

\* Lines on both sides of a separator, and lines on the same side of all of them.
LEMMA BothSides ==
    ASSUME NEW a \in Nat, NEW i \in Nat, NEW j \in Nat, NEW k \in i..(a - 1), j < a,
           k \notin j..(a - 1)
    PROVE  i < j /\ k \in i..j
OBVIOUS

\* A stretch that ends before a line goes on up to it.
LEMMA Stretch ==
    ASSUME NEW a \in Nat, NEW i \in Nat, NEW j \in Nat, j < a
    PROVE  i..j \subseteq i..(a - 1)
OBVIOUS

\* A flush adds a stretch, apart from the others.
LEMMA FlushKeeps ==
    ASSUME NEW D \in SUBSET Nat, docs \in Seq(Seq(D)), current \in Seq(D), at \in Nat,
           FoundKept, ReadingKept
    PROVE  /\ \A d \in DOMAIN Flushed : Rising(Flushed[d]) /\ Unbroken(Flushed[d])
           /\ \A d, e \in DOMAIN Flushed : d < e => Apart(Flushed[d], Flushed[e])
           /\ \A d \in DOMAIN Flushed : \A i \in Numbers(Flushed[d]) : i < at /\ i \in D
<1>1. /\ \A i \in Numbers(current) : i \in D
      /\ \A d \in DOMAIN docs : \A i \in Numbers(docs[d]) : i \in D
  BY DEF Numbers
<1>2. Unbroken(current)
  <2> SUFFICES ASSUME NEW i \in Numbers(current), NEW j \in Numbers(current), NEW k \in i..j
               PROVE  ~Separates(k)
    BY DEF Unbroken
  <2>1. i \in Nat /\ j \in Nat /\ j < at
    BY <1>1 DEF ReadingKept
  <2>2. k \in i..(at - 1)
    BY <2>1, Stretch
  <2> QED
    BY <2>2 DEF ReadingKept
<1>3. ASSUME NEW d \in DOMAIN docs
      PROVE  Apart(docs[d], current)
  <2> SUFFICES ASSUME NEW i \in Numbers(docs[d]), NEW j \in Numbers(current)
               PROVE  i < j /\ \E k \in i..j : Separates(k)
    BY DEF Apart
  <2>1. i \in Nat /\ j \in Nat /\ j < at
    BY <1>1 DEF ReadingKept
  <2>2. PICK k \in i..(at - 1) : Separates(k)
    BY DEF ReadingKept
  <2>3. k \notin j..(at - 1)
    BY <2>2 DEF ReadingKept
  <2> QED
    BY <2>1, <2>2, <2>3, BothSides
<1>4. \A d \in DOMAIN docs : \A i \in Numbers(docs[d]) : i < at
  BY DEF ReadingKept
<1>5. Rising(current) /\ \A i \in Numbers(current) : i < at
  BY DEF ReadingKept
<1>6. CASE Flushed = docs
  BY <1>1, <1>4, <1>6 DEF FoundKept
<1>7. CASE /\ Len(docs) \in Nat
           /\ DOMAIN docs = 1..Len(docs) /\ DOMAIN Flushed = 1..(Len(docs) + 1)
           /\ DOMAIN Flushed = DOMAIN docs \cup {Len(docs) + 1}
           /\ \A d \in DOMAIN docs : Flushed[d] = docs[d]
           /\ Flushed[Len(docs) + 1] = current
  <2>1. \A d \in DOMAIN Flushed : Rising(Flushed[d]) /\ Unbroken(Flushed[d])
    BY <1>2, <1>5, <1>7 DEF FoundKept
  <2>2. \A d \in DOMAIN Flushed : \A i \in Numbers(Flushed[d]) : i < at /\ i \in D
    BY <1>1, <1>4, <1>5, <1>7
  <2>3. ASSUME NEW d \in DOMAIN Flushed, NEW e \in DOMAIN Flushed, d < e
        PROVE  Apart(Flushed[d], Flushed[e])
    <3>1. d \in DOMAIN docs /\ Flushed[d] = docs[d]
      BY <1>7, <2>3, PlaceBehind
    <3>2. CASE e \in DOMAIN docs
      BY <1>7, <2>3, <3>1, <3>2 DEF FoundKept
    <3>3. CASE e = Len(docs) + 1
      BY <1>3, <1>7, <3>1, <3>3
    <3> QED
      BY <1>7, <3>2, <3>3
  <2> QED
    BY <2>1, <2>2, <2>3
<1> QED
  BY <1>6, <1>7, FlushedIs

\* An empty document.
LEMMA EmptyDoc ==
    Rising(<<>>) /\ Numbers(<<>>) = {}
BY DEF Rising, Numbers

\* The places of a file up to its next line.
LEMMA Onwards ==
    ASSUME NEW a \in Nat
    PROVE  /\ a < a + 1 /\ a \in a..((a + 1) - 1)
           /\ \A i \in Nat : i < a => i < a + 1 /\ a \in i..((a + 1) - 1)
           /\ \A i \in Nat : \A k \in i..(a - 1) : k \in i..((a + 1) - 1)
           /\ \A i \in Nat : \A k \in i..((a + 1) - 1) : k \in i..(a - 1) \/ k = a
           /\ \A k \in a..((a + 1) - 1) : k = a
           /\ \A i \in 1..((a + 1) - 1) : i \in 1..(a - 1) \/ i = a
OBVIOUS

\* Adding the line that is read to the document that is read.
LEMMA RisingAppended ==
    ASSUME NEW D \in SUBSET Nat, NEW s \in Seq(D), NEW a \in D, Rising(s),
           \A i \in Numbers(s) : i < a
    PROVE  Rising(Append(s, a))
<1>1. /\ Len(s) \in Nat /\ DOMAIN s = 1..Len(s) /\ DOMAIN Append(s, a) = 1..(Len(s) + 1)
      /\ \A k \in 1..Len(s) : Append(s, a)[k] = s[k]
      /\ Append(s, a)[Len(s) + 1] = a
  BY AppendOf
<1> SUFFICES ASSUME NEW k \in 1..(Len(s) + 1), NEW l \in 1..(Len(s) + 1), k < l
             PROVE  Append(s, a)[k] < Append(s, a)[l]
  BY <1>1 DEF Rising
<1>2. k \in 1..Len(s) /\ (l \in 1..Len(s) \/ l = Len(s) + 1)
  BY <1>1, PlaceBehind
<1>3. CASE l \in 1..Len(s)
  BY <1>1, <1>2, <1>3 DEF Rising
<1>4. CASE l = Len(s) + 1
  BY <1>1, <1>2, <1>4 DEF Numbers
<1> QED
  BY <1>2, <1>3, <1>4

\* What a document is depends on the file alone.
LEMMA StretchesStay ==
    ASSUME input' = input
    PROVE  /\ FoundKept' <=>
                /\ \A d \in DOMAIN docs' : Rising(docs'[d]) /\ Unbroken(docs'[d])
                /\ \A d, e \in DOMAIN docs' : d < e => Apart(docs'[d], docs'[e])
           /\ ReadingKept' <=>
                /\ \A d \in DOMAIN docs' : \A i \in Numbers(docs'[d]) :
                      i < at' /\ \E k \in i..(at' - 1) : Separates(k)
                /\ Rising(current')
                /\ \A i \in Numbers(current') :
                      i < at' /\ \A k \in i..(at' - 1) : ~Separates(k)
BY DEF FoundKept, ReadingKept, Rising, Unbroken, Apart, Separates, Numbers

\* A separator closes the document that is read.
LEMMA SeparatorRead ==
    ASSUME NEW D \in SUBSET Nat, docs \in Seq(Seq(D)), current \in Seq(D), at \in Nat,
           FoundKept, ReadingKept, input' = input, Separates(at),
           docs' = Flushed, current' = <<>>, at' = at + 1
    PROVE  FoundKept' /\ ReadingKept'
<1>1. /\ \A d \in DOMAIN Flushed : Rising(Flushed[d]) /\ Unbroken(Flushed[d])
      /\ \A d, e \in DOMAIN Flushed : d < e => Apart(Flushed[d], Flushed[e])
      /\ \A d \in DOMAIN Flushed : \A i \in Numbers(Flushed[d]) : i < at /\ i \in D
  BY FlushKeeps
<1>2. \A d \in DOMAIN Flushed : \A i \in Numbers(Flushed[d]) :
         i < at + 1 /\ \E k \in i..((at + 1) - 1) : Separates(k)
  BY <1>1, Onwards
<1> QED
  BY <1>1, <1>2, EmptyDoc, StretchesStay

\* Any other line goes on with it.
LEMMA OtherRead ==
    ASSUME NEW D \in SUBSET Nat, docs \in Seq(Seq(D)), current \in Seq(D), at \in D,
           FoundKept, ReadingKept, input' = input, ~Separates(at),
           docs' = docs, current' = Append(current, at), at' = at + 1
    PROVE  FoundKept' /\ ReadingKept'
<1>a. /\ \A i \in Numbers(current) : i \in D
      /\ \A d \in DOMAIN docs : \A i \in Numbers(docs[d]) : i \in D
  BY DEF Numbers
<1>1. \A d \in DOMAIN docs : \A i \in Numbers(docs[d]) : i \in Nat
  BY <1>a
<1>2. \A i \in Numbers(current) : i \in Nat
  BY <1>a
<1>3. at \in Nat
  OBVIOUS
<1>4. ASSUME NEW d \in DOMAIN docs, NEW i \in Numbers(docs[d])
      PROVE  i < at + 1 /\ \E k \in i..((at + 1) - 1) : Separates(k)
  <2>1. PICK k \in i..(at - 1) : Separates(k)
    BY DEF ReadingKept
  <2>2. i \in Nat /\ i < at
    BY <1>1 DEF ReadingKept
  <2>3. k \in i..((at + 1) - 1) /\ i < at + 1
    BY <1>3, <2>2, Onwards
  <2> QED
    BY <2>1, <2>3
<1>5. Rising(Append(current, at))
  <2>1. Rising(current) /\ \A i \in Numbers(current) : i < at
    BY DEF ReadingKept
  <2> QED
    BY <2>1, RisingAppended
<1>6. ASSUME NEW i \in Numbers(Append(current, at))
      PROVE  i < at + 1 /\ \A k \in i..((at + 1) - 1) : ~Separates(k)
  <2>1. i \in Numbers(current) \/ i = at
    BY NumbersAppended
  <2>2. CASE i \in Numbers(current)
    <3>1. i \in Nat /\ i < at /\ \A k \in i..(at - 1) : ~Separates(k)
      BY <1>2, <2>2 DEF ReadingKept
    <3> QED
      BY <1>3, <3>1, Onwards
  <2>3. CASE i = at
    BY <1>3, <2>3, Onwards
  <2> QED
    BY <2>1, <2>2, <2>3
<1>7. FoundKept'
  BY StretchesStay DEF FoundKept
<1>8. ReadingKept'
  BY <1>4, <1>5, <1>6, StretchesStay
<1> QED
  BY <1>7, <1>8

\* What the types say of the file and its documents.
LEMMA FileTyped ==
    ASSUME TypeOK
    PROVE  /\ DOMAIN input \in SUBSET Nat /\ DOMAIN input = 1..Len(input)
           /\ Len(input) \in Nat
           /\ docs \in Seq(Seq(DOMAIN input)) /\ current \in Seq(DOMAIN input)
           /\ at \in 1..(Len(input) + 1) /\ at \in Nat
           /\ at <= Len(input) => at \in DOMAIN input
<1>1. /\ input \in Seq(Lines) /\ at \in 1..(Len(input) + 1)
      /\ docs \in Seq(Seq(DOMAIN input)) /\ current \in Seq(DOMAIN input)
  BY DEF TypeOK
<1>2. Len(input) \in Nat /\ DOMAIN input = 1..Len(input)
  BY <1>1
<1> QED
  BY <1>1, <1>2

\* The documents stay stretches of the file.
LEMMA DocsKeptKept ==
    ASSUME Next, TypeOK, Stages, DocsKept
    PROVE  DocsKept'
<1>1. input' = input
  BY GivenStays
<1>2. CASE ReadDocument
  <2>1. /\ pc = "split" /\ at <= Len(input) /\ at' = at + 1
        /\ \/ Separates(at) /\ docs' = Flushed /\ current' = <<>>
           \/ ~Separates(at) /\ docs' = docs /\ current' = Append(current, at)
    BY <1>2 DEF ReadDocument, SplitLine, Separates
  <2>2. FoundKept /\ ReadingKept
    BY <2>1 DEF DocsKept
  <2>3. CASE Separates(at) /\ docs' = Flushed /\ current' = <<>>
    BY <1>1, <2>1, <2>2, <2>3, FileTyped, SeparatorRead DEF DocsKept
  <2>4. CASE ~Separates(at) /\ docs' = docs /\ current' = Append(current, at)
    BY <1>1, <2>1, <2>2, <2>4, FileTyped, OtherRead DEF DocsKept
  <2> QED
    BY <2>1, <2>3, <2>4
<1>3. CASE ReadLast
  <2>1. pc = "split" /\ docs' = Flushed /\ pc' # "split"
    BY <1>3 DEF ReadLast, SplitEnd, Exit, Goto
  <2>2. FoundKept /\ ReadingKept
    BY <2>1 DEF DocsKept
  <2>3. FoundKept'
    BY <1>1, <2>1, <2>2, FileTyped, FlushKeeps, StretchesStay
  <2> QED
    BY <2>1, <2>3 DEF DocsKept
<1>4. CASE ~ReadDocument /\ ~ReadLast
  <2>1. at' = at /\ current' = current /\ docs' = docs
    BY <1>4, FileStays
  <2>2. FoundKept => FoundKept'
    BY <1>1, <2>1, StretchesStay DEF FoundKept
  <2>3. pc' = "split" => docs = <<>> /\ current = <<>>
    <3>1. CASE ReadFlag \/ BadFlag \/ EndFlags \/ Refuse \/ Dispatch
      BY <3>1 DEF ReadFlag, BadFlag, EndFlags, Refuse, Dispatch, Parsing, Exit, Goto
    <3>2. CASE CheckArguments
      BY <3>2 DEF CheckArguments, Stages
    <3>3. CASE ResolveEnv \/ ValidateDocument \/ AnnounceDocument \/ CollectDocument
      BY <3>3 DEF ResolveEnv, ValidateDocument, AnnounceDocument, CollectDocument, Step,
                  Stop, Exit, Goto
    <3>4. CASE InjectDocument \/ ApplyDocument \/ DeleteTarget \/ Work
      BY <3>4 DEF InjectDocument, ApplyDocument, DeleteTarget, Work, Step, Stop, Exit, Goto
    <3> QED
      BY <1>4, <3>1, <3>2, <3>3, <3>4 DEF Next
  <2>4. docs = <<>> /\ current = <<>> => ReadingKept'
    BY <1>1, <2>1, EmptyDoc, StretchesStay
  <2> QED
    BY <2>2, <2>3, <2>4 DEF DocsKept
<1> QED
  BY <1>2, <1>3, <1>4

\* No line is lost.
LEMMA LinesKeptKept ==
    ASSUME Next, TypeOK, Stages, LinesKept
    PROVE  LinesKept'
<1>1. input' = input
  BY GivenStays
<1>2. /\ docs \in Seq(Seq(DOMAIN input)) /\ current \in Seq(DOMAIN input)
      /\ at \in Nat /\ (at <= Len(input) => at \in DOMAIN input)
  BY FileTyped
<1>3. LinesKept' <=> \A i \in 1..(at' - 1) :
                        (~Separates(i) /\ input[i] # "") =>
                           \/ \E d \in DOMAIN docs' : i \in Numbers(docs'[d])
                           \/ pc' = "split" /\ i \in Numbers(current')
  BY <1>1 DEF LinesKept, Separates, Numbers
<1>4. ASSUME pc = "split", NEW i \in 1..(at - 1), ~Separates(i), input[i] # ""
      PROVE  /\ \/ \E d \in DOMAIN Flushed : i \in Numbers(Flushed[d])
             /\ \/ \E d \in DOMAIN docs : i \in Numbers(docs[d])
                \/ i \in Numbers(current)
  <2>1. \/ \E d \in DOMAIN docs : i \in Numbers(docs[d])
        \/ i \in Numbers(current)
    BY <1>4 DEF LinesKept
  <2>2. ASSUME IsBlank(current)
        PROVE  i \notin Numbers(current)
    BY <1>4, <2>2 DEF IsBlank, Numbers
  <2>3. \/ Flushed = docs /\ IsBlank(current)
        \/ /\ DOMAIN Flushed = DOMAIN docs \cup {Len(docs) + 1}
           /\ \A d \in DOMAIN docs : Flushed[d] = docs[d]
           /\ Flushed[Len(docs) + 1] = current
    BY <1>2, FlushedIs
  <2> QED
    BY <2>1, <2>2, <2>3
<1>5. CASE ReadDocument
  <2>1. /\ pc = "split" /\ pc' = "split" /\ at <= Len(input) /\ at' = at + 1
        /\ \/ Separates(at) /\ docs' = Flushed /\ current' = <<>>
           \/ ~Separates(at) /\ docs' = docs /\ current' = Append(current, at)
    BY <1>5 DEF ReadDocument, SplitLine, Separates, lineVars
  <2>2. \A i \in 1..((at + 1) - 1) : i \in 1..(at - 1) \/ i = at
    BY <1>2, Onwards
  <2>3. CASE Separates(at) /\ docs' = Flushed
    BY <1>3, <1>4, <2>1, <2>2, <2>3
  <2>4. CASE docs' = docs /\ current' = Append(current, at)
    <3>1. Numbers(current') = Numbers(current) \cup {at}
      BY <1>2, <2>1, <2>4, NumbersAppended
    <3> QED
      BY <1>3, <1>4, <2>1, <2>2, <2>4, <3>1
  <2> QED
    BY <2>1, <2>3, <2>4
<1>6. CASE ReadLast
  <2>1. pc = "split" /\ docs' = Flushed /\ at' = at
    BY <1>6 DEF ReadLast, SplitEnd
  <2> QED
    BY <1>3, <1>4, <2>1
<1>7. CASE ~ReadDocument /\ ~ReadLast
  <2>1. at' = at /\ current' = current /\ docs' = docs
    BY <1>7, FileStays
  <2>2. pc # "split"
    <3>1. pc = "split" => /\ ~Refuse /\ ~ReadFlag /\ ~BadFlag /\ ~EndFlags
                          /\ ~Dispatch /\ ~CheckArguments
      BY DEF Refuse, ReadFlag, BadFlag, EndFlags, Dispatch, CheckArguments, Parsing
    <3>2. pc = "split" => /\ ~ResolveEnv /\ ~ValidateDocument
                          /\ ~AnnounceDocument /\ ~CollectDocument
      BY DEF ResolveEnv, ValidateDocument, AnnounceDocument, CollectDocument
    <3>3. pc = "split" => ~InjectDocument /\ ~ApplyDocument /\ ~DeleteTarget /\ ~Work
      BY DEF InjectDocument, ApplyDocument, DeleteTarget, Work
    <3> QED
      BY <1>7, <3>1, <3>2, <3>3 DEF Next
  <2> QED
    BY <1>3, <2>1, <2>2 DEF LinesKept
<1> QED
  BY <1>5, <1>6, <1>7

(***************************************************************************)
(* What policy validate says.                                              *)
(***************************************************************************)
\* What is made of a document depends on the file alone.
LEMMA JudgementStays ==
    ASSUME input' = input, NEW doc
    PROVE  validatePolicyDoc(doc)' = validatePolicyDoc(doc) /\ Named(doc)' = Named(doc)
<1>1. Read(doc)' = Read(doc)
  BY DEF Read
<1>2. ManifestIn(doc)' = ManifestIn(doc)
  BY <1>1 DEF ManifestIn
<1>3. /\ Decodes(doc, policyDoc)' = Decodes(doc, policyDoc)
      /\ Decodes(doc, policyManifest)' = Decodes(doc, policyManifest)
  BY <1>1, <1>2 DEF Decodes, policyDoc, policyManifest
<1> QED
  BY <1>2, <1>3 DEF validatePolicyDoc, Named, Name

\* What a document has for a name, whatever it is decoded into.
LEMMA NameTyped ==
    ASSUME NEW doc, NEW target, Decodes(doc, target)
    PROVE  Name(doc) \in STRING \cup {NoName}
<1>1. CASE Read(doc) = {}
  BY <1>1 DEF Name, ManifestIn, EmptyManifest
<1>2. CASE Read(doc) # {}
  <2>1. Read(doc) \subseteq Policies \cup {Broken}
    BY DEF Read, Content
  <2>2. (CHOOSE p \in Read(doc) : TRUE) \in Read(doc)
    BY <1>2
  <2>3. (CHOOSE p \in Read(doc) : TRUE) \in Policies
    BY <2>1, <2>2 DEF Decodes
  <2>4. ManifestIn(doc) = ManifestOf[CHOOSE p \in Read(doc) : TRUE]
    BY <1>2 DEF ManifestIn
  <2>5. ManifestIn(doc) \in Manifest
    BY <2>3, <2>4, PoliciesAssumption
  <2> QED
    BY <2>5 DEF Name, Manifest
<1> QED
  BY <1>1, <1>2

\* The documents a loop has been at.
LEMMA OneMore ==
    ASSUME NEW t \in Nat, NEW n \in Nat
    PROVE  /\ \A d \in 1..n : d < t + 1 => d < t \/ d = t
           /\ t > n => \A d \in 1..n : d < t
           /\ ~(t <= n) => t > n
           /\ \A d \in 1..n : ~(d < 1)
OBVIOUS

\* Where the steps of the loops lead, and what else they leave alone.
LEMMA OtherSteps ==
    ASSUME Next, Stages, ~ValidateDocument, ~CollectDocument, ~ReadLast
    PROVE  /\ pc' # "documents" \/ (pc' = pc /\ verb' \notin {"policy", "delete"})
           /\ verb' = "policy" /\ pc' = "exit" /\ code' = 0 => docs' = <<>>
           /\ verb' = "delete" /\ pc' \in {"env", "targets"} =>
                docs' = <<>> \/ (pc \in {"env", "targets"} /\ verb = "delete" /\ docs' = docs)
<1>1. CASE ReadFlag \/ EndFlags \/ Refuse \/ Dispatch
  <2>1. pc' \notin {"documents", "env", "targets"}
    BY <1>1 DEF ReadFlag, EndFlags, Refuse, Dispatch, Parsing, Exit, Goto
  <2>2. docs' = docs /\ docs = <<>>
    BY <1>1 DEF ReadFlag, EndFlags, Refuse, Dispatch, Parsing, inputVars, Stages
  <2> QED
    BY <2>1, <2>2
<1>2. CASE BadFlag \/ CheckArguments
  <2>1. pc' \notin {"documents", "targets"}
    BY <1>2 DEF BadFlag, CheckArguments, Parsing, Exit, Goto
  <2>2. docs' = docs /\ docs = <<>>
    BY <1>2 DEF BadFlag, CheckArguments, Parsing, inputVars, Stages
  <2> QED
    BY <2>1, <2>2
<1>3. CASE ReadDocument
  BY <1>3 DEF ReadDocument, lineVars
<1>4. CASE ResolveEnv
  BY <1>4 DEF ResolveEnv, Exit, Goto, Stages, verbVars, inputVars
<1>5. CASE AnnounceDocument \/ InjectDocument
  BY <1>5 DEF AnnounceDocument, InjectDocument, Step, Stop, Exit, verbVars
<1>6. CASE ApplyDocument \/ DeleteTarget
  BY <1>6 DEF ApplyDocument, DeleteTarget, Step, Stop, Exit, verbVars, inputVars
<1>7. CASE Work
  BY <1>7 DEF Work, Exit, Stages, verbVars
<1> QED
  BY <1>1, <1>2, <1>3, <1>4, <1>5, <1>6, <1>7 DEF Next

\* A document that has been judged or collected stays so.
LEMMA JudgedKept ==
    ASSUME Next, TypeOK, Stages, JudgedSoFar, CollectedSoFar
    PROVE  JudgedSoFar' /\ CollectedSoFar'
<1>1. \A doc : validatePolicyDoc(doc)' = validatePolicyDoc(doc) /\ Named(doc)' = Named(doc)
  BY GivenStays, JudgementStays
<1>2. /\ JudgedSoFar' <=>
           (verb' = "policy" =>
              /\ pc' = "documents" /\ ~bad' =>
                   \A d \in DOMAIN docs' : d < turn' => validatePolicyDoc(docs'[d]) = {}
              /\ pc' = "exit" /\ code' = 0 =>
                   \A d \in DOMAIN docs' : validatePolicyDoc(docs'[d]) = {})
      /\ CollectedSoFar' <=>
           (verb' = "delete" =>
              /\ pc' = "documents" =>
                   \A d \in DOMAIN docs' : d < turn' => Named(docs'[d])
              /\ pc' \in {"env", "targets"} => \A d \in DOMAIN docs' : Named(docs'[d]))
  BY <1>1 DEF JudgedSoFar, CollectedSoFar
<1>3. /\ turn \in Nat /\ Len(docs) \in Nat /\ DOMAIN docs = 1..Len(docs)
  <2>1. turn \in Nat /\ docs \in Seq(Seq(DOMAIN input))
    BY DEF TypeOK
  <2> QED
    BY <2>1
<1>4. CASE ValidateDocument
  <2>1. /\ pc = "documents" /\ verb = "policy" /\ verb' = verb /\ docs' = docs
    BY <1>4 DEF ValidateDocument, verbVars, inputVars
  <2>2. \/ turn > Len(docs) /\ pc' = "exit" /\ (code' = 0 => ~bad)
        \/ /\ pc' = "documents" /\ turn' = turn + 1
           /\ ~bad' => ~bad /\ validatePolicyDoc(docs[turn]) = {}
    <3>1. CASE turn > Len(docs)
      BY <1>4, <3>1 DEF ValidateDocument, Stop, Exit
    <3>2. CASE ~(turn > Len(docs))
      <4>1. bad' = (bad \/ validatePolicyDoc(docs[turn]) # {}) /\ Step(<<>>)
        BY <1>4, <3>2 DEF ValidateDocument, Doc
      <4>2. ~bad' => ~bad /\ validatePolicyDoc(docs[turn]) = {}
        BY <4>1
      <4> QED
        BY <2>1, <4>1, <4>2 DEF Step
    <3> QED
      BY <3>1, <3>2
  <2>3. ~bad => \A d \in DOMAIN docs : d < turn => validatePolicyDoc(docs[d]) = {}
    BY <2>1 DEF JudgedSoFar
  <2>4. /\ \A d \in DOMAIN docs : d < turn + 1 => d < turn \/ d = turn
        /\ turn > Len(docs) => \A d \in DOMAIN docs : d < turn
    BY <1>3, OneMore
  <2> QED
    BY <1>2, <2>1, <2>2, <2>3, <2>4
<1>5. CASE CollectDocument
  <2>1. /\ pc = "documents" /\ verb = "delete" /\ verb' = verb /\ docs' = docs
    BY <1>5 DEF CollectDocument, verbVars, inputVars
  <2>2. \/ turn > Len(docs) /\ pc' = "env"
        \/ pc' = "exit"
        \/ pc' = "documents" /\ turn' = turn + 1 /\ Named(docs[turn])
    BY <1>5, <2>1 DEF CollectDocument, Step, Stop, Exit, Goto, Doc
  <2>3. \A d \in DOMAIN docs : d < turn => Named(docs[d])
    BY <2>1 DEF CollectedSoFar
  <2>4. /\ \A d \in DOMAIN docs : d < turn + 1 => d < turn \/ d = turn
        /\ turn > Len(docs) => \A d \in DOMAIN docs : d < turn
    BY <1>3, OneMore
  <2> QED
    BY <1>2, <2>1, <2>2, <2>3, <2>4
<1>6. CASE ReadLast
  <2>1. /\ pc = "split" /\ verb' = verb /\ turn' = 1
        /\ \/ pc' = "exit" /\ (verb # "inject" => code' # 0)
           \/ pc' = "env" /\ verb = "apply"
           \/ pc' = "documents"
    <3>1. turn' = turn
      BY <1>6, HandlersStay
    <3> QED
      BY <1>6, <3>1 DEF ReadLast, Exit, Goto, verbVars, Stages
  <2>2. \A d \in DOMAIN docs' : ~(d < 1)
    <3>1. docs' = Flushed
      BY <1>6 DEF ReadLast, SplitEnd
    <3>2. DOMAIN Flushed = 1..Len(docs) \/ DOMAIN Flushed = 1..(Len(docs) + 1)
      BY <1>3, FileTyped, FlushedIs
    <3> QED
      BY <1>3, <3>1, <3>2, OneMore
  <2> QED
    BY <1>2, <2>1, <2>2
<1>7. CASE ~ValidateDocument /\ ~CollectDocument /\ ~ReadLast
  <2>1. /\ pc' # "documents" \/ verb' \notin {"policy", "delete"}
        /\ verb' = "policy" /\ pc' = "exit" /\ code' = 0 => docs' = <<>>
        /\ verb' = "delete" /\ pc' \in {"env", "targets"} =>
             docs' = <<>> \/ (pc \in {"env", "targets"} /\ verb = "delete" /\ docs' = docs)
    BY <1>7, OtherSteps
  <2>2. DOMAIN <<>> = {}
    OBVIOUS
  <2> QED
    BY <1>2, <2>1, <2>2 DEF CollectedSoFar
<1> QED
  BY <1>4, <1>5, <1>6, <1>7

(***************************************************************************)
(* Types.                                                                  *)
(***************************************************************************)
\* The file, and what has been found in it.
LEMMA FileTypeKept ==
    ASSUME Next, TypeOK
    PROVE  /\ input' \in Seq(Lines) /\ at' \in 1..(Len(input') + 1)
           /\ current' \in Seq(DOMAIN input') /\ docs' \in Seq(Seq(DOMAIN input'))
<1>1. input' = input /\ input \in Seq(Lines)
  BY GivenStays DEF TypeOK
<1>2. /\ DOMAIN input \in SUBSET Nat /\ Len(input) \in Nat
      /\ docs \in Seq(Seq(DOMAIN input)) /\ current \in Seq(DOMAIN input)
      /\ at \in 1..(Len(input) + 1) /\ at \in Nat
      /\ at <= Len(input) => at \in DOMAIN input
  BY FileTyped
<1>3. Flushed \in Seq(Seq(DOMAIN input))
  BY <1>2, FlushedIs
<1>4. CASE ReadDocument
  <2>1. /\ at <= Len(input) /\ at' = at + 1
        /\ \/ docs' = Flushed /\ current' = <<>>
           \/ docs' = docs /\ current' = Append(current, at)
    BY <1>4 DEF ReadDocument, SplitLine
  <2>2. at + 1 \in 1..(Len(input) + 1)
    BY <1>2, <2>1
  <2>3. Append(current, at) \in Seq(DOMAIN input) /\ <<>> \in Seq(DOMAIN input)
    BY <1>2, <2>1, AppendOf
  <2> QED
    BY <1>1, <1>2, <1>3, <2>1, <2>2, <2>3
<1>5. CASE ReadLast
  BY <1>1, <1>2, <1>3, <1>5 DEF ReadLast, SplitEnd
<1>6. CASE ~ReadDocument /\ ~ReadLast
  BY <1>1, <1>2, <1>6, FileStays
<1> QED
  BY <1>4, <1>5, <1>6

\* What a flag set defines depends on the target alone.
LEMMA FlagSetsStay ==
    ASSUME kind' = kind, verb' = verb
    PROVE  (ValueFlags(verb) \cup BoolFlags(verb))' = ValueFlags(verb) \cup BoolFlags(verb)
BY DEF ValueFlags, BoolFlags

\* Each flag set holds the flags it defines.
LEMMA FlagSetsKept ==
    ASSUME Next, TypeOK, LineKept, Stages
    PROVE  /\ DOMAIN global' \subseteq ValueFlags("kkctl")'
           /\ DOMAIN local' \subseteq (ValueFlags(verb) \cup BoolFlags(verb))'
<1>1. ValueFlags("kkctl")' = ValueFlags("kkctl")
  BY DEF ValueFlags
<1>2. /\ DOMAIN global \subseteq ValueFlags("kkctl")
      /\ DOMAIN local \subseteq ValueFlags(verb) \cup BoolFlags(verb)
  BY DEF TypeOK
<1>3. CASE ReadFlag
  <2>1. kind' = kind /\ verb' = verb
    BY <1>3 DEF ReadFlag, verbVars
  <2>2. /\ pc \in {"global", "local"}
        /\ \E f \in STRING, v \in STRING : SetFlag(f, v) /\ f \in ValueFlags(Set) \cup BoolFlags(Set)
    BY <1>3, FlagRead
  <2>3. PICK f \in STRING, v \in STRING : SetFlag(f, v) /\ f \in ValueFlags(Set) \cup BoolFlags(Set)
    BY <2>2
  <2>4. CASE pc = "global"
    <3>1. global' = With(global, f, v) /\ local' = local /\ f \in ValueFlags("kkctl")
      BY <2>3, <2>4, FlagsOfExecute DEF SetFlag, Set
    <3>2. DOMAIN global' = DOMAIN global \cup {f}
      BY <3>1 DEF With
    <3> QED
      BY <1>1, <1>2, <2>1, <3>1, <3>2, FlagSetsStay
  <2>5. CASE pc = "local"
    <3>1. /\ local' = With(local, f, v) /\ global' = global
          /\ f \in ValueFlags(verb) \cup BoolFlags(verb)
      BY <2>3, <2>5 DEF SetFlag, Set
    <3>2. DOMAIN local' = DOMAIN local \cup {f}
      BY <3>1 DEF With
    <3> QED
      BY <1>1, <1>2, <2>1, <3>1, <3>2, FlagSetsStay
  <2> QED
    BY <2>2, <2>4, <2>5
<1>4. CASE Dispatch
  <2>1. DOMAIN local = {} /\ global' = global /\ local' = local
    BY <1>4 DEF Dispatch, flagVars, Stages, NoFlags
  <2> QED
    BY <1>1, <1>2, <2>1
<1>5. CASE ~ReadFlag /\ ~Dispatch
  <2>1. global' = global /\ local' = local /\ kind' = kind /\ verb' = verb
    BY <1>5, FlagsStay, VerbStays
  <2> QED
    BY <1>1, <1>2, <2>1, FlagSetsStay
<1> QED
  BY <1>3, <1>4, <1>5

\* The value of a flag on the line is a string.
LEMMA ValueTyped ==
    ASSUME LineKept, NEW i \in DOMAIN argv
    PROVE  Value(i) \in STRING
<1>1. argv[i].val \in STRING
  <2>1. argv[i] \in Argument
    BY DEF LineKept
  <2> QED
    BY <2>1 DEF Argument
<1>2. i < Len(argv) => Text(argv[i + 1]) \in STRING
  <2>1. DOMAIN argv = 1..Total /\ Total \in Nat
    BY LineNumbers DEF LineKept
  <2>2. i < Total => i + 1 \in DOMAIN argv
    BY <2>1
  <2> QED
    BY <2>2 DEF LineKept, Total
<1> QED
  BY <1>1, <1>2, StringsAssumption DEF Value

\* A stream dials a string.
LEMMA DialedTyped ==
    ASSUME LineKept, FlagsTyped
    PROVE  Dialed \in STRING
<1>1. "server" \in DOMAIN local => local["server"] \in STRING
  BY DEF FlagsTyped
<1>2. "server" \in DOMAIN global => global["server"] \in STRING
  BY ValueTyped DEF FlagsTyped
<1>3. Given(local, "server") \in STRING /\ Given(global, "server") \in STRING
  BY <1>1, <1>2, StringsAssumption DEF Given
<1>4. host.file \in STRING /\ "localhost:36890" \in STRING
  BY StringsAssumption DEF LineKept
<1> QED
  BY <1>3, <1>4 DEF Dialed

\* Counting through a list.
LEMMA InList ==
    ASSUME NEW n \in Nat, NEW t \in Nat \ {0}
    PROVE  /\ t <= n => t \in 1..n
           /\ n > 0 => n - 1 \in Nat
           /\ n = 0 => 1..(n - 1) = {}
           /\ \A k \in 1..(n - 1) : k + 1 \in 1..n
           /\ t + 1 \in Nat \ {0}
OBVIOUS

\* What delete has collected has a name, from the documents or from the line.
LEMMA NamesTyped ==
    ASSUME TypeOK, LineKept, turn <= Len(Names),
           \A d \in DOMAIN docs : Named(docs[d])
    PROVE  Names[turn] \in STRING \cup {NoName}
<1>1. turn \in Nat \ {0}
  BY DEF TypeOK
<1>2. CASE File # ""
  <2>1. Names = [i \in DOMAIN docs |-> Name(docs[i])]
    BY <1>2 DEF Names
  <2>2. DOMAIN docs = 1..Len(docs) /\ Len(docs) \in Nat
    <3>1. docs \in Seq(Seq(DOMAIN input))
      BY FileTyped
    <3> QED
      BY <3>1
  <2>3. Names \in Seq({Name(docs[i]) : i \in DOMAIN docs}) /\ Len(Names) = Len(docs)
    BY <2>1, <2>2
  <2>4. turn \in DOMAIN docs
    BY <1>1, <2>2, <2>3, InList
  <2>5. Decodes(docs[turn], policyManifest)
    BY <2>4 DEF Named
  <2> QED
    BY <2>1, <2>4, <2>5, NameTyped
<1>3. CASE File = ""
  <2>1. Names = [i \in 1..(Left - 1) |-> Text(rest[i + 1])]
    BY <1>3 DEF Names, Left
  <2>2. Left \in Nat
    BY LineNumbers DEF LineKept
  <2>3. turn \in 1..(Left - 1)
    <3>1. CASE Left > 0
      <4>1. Left - 1 \in Nat
        BY <2>2, <3>1, InList
      <4>2. Len(Names) = Left - 1
        BY <2>1, <4>1
      <4> QED
        BY <1>1, <4>1, <4>2, InList
    <3>2. CASE Left = 0
      <4>1. 1..(Left - 1) = 1..0
        BY <3>2
      <4>2. Names = [i \in 1..0 |-> Text(rest[i + 1])]
        BY <2>1, <4>1
      <4>3. Len(Names) = 0
        BY <4>2
      <4> QED
        BY <1>1, <4>3
    <3> QED
      BY <2>2, <3>1, <3>2
  <2>4. turn + 1 \in 1..Left
    BY <2>2, <2>3, InList
  <2> QED
    BY <2>1, <2>3, <2>4, TextTyped
<1> QED
  BY <1>2, <1>3

\* Where the program is.
LEMMA PointTyped ==
    ASSUME Next, TypeOK
    PROVE  pc' \in Points /\ code' \in 0..2
<1>1. pc \in Points /\ code \in 0..2
  BY DEF TypeOK
<1>2. 0 \in 0..2 /\ 1 \in 0..2 /\ 2 \in 0..2
  OBVIOUS
<1>3. CASE ReadFlag \/ ReadDocument
  BY <1>1, <1>3 DEF ReadFlag, ReadDocument, lineVars
<1>4. CASE BadFlag \/ EndFlags \/ Refuse
  BY <1>1, <1>2, <1>4 DEF BadFlag, EndFlags, Refuse, Exit, Goto, Points
<1>5. CASE Dispatch
  BY <1>1, <1>2, <1>5 DEF Dispatch, Exit, Goto, Points
<1>6. CASE CheckArguments
  BY <1>1, <1>2, <1>6 DEF CheckArguments, Exit, Goto, Points
<1>7. CASE ReadLast \/ ResolveEnv
  BY <1>1, <1>2, <1>7 DEF ReadLast, ResolveEnv, Exit, Goto, Points
<1>8. CASE ValidateDocument \/ AnnounceDocument \/ CollectDocument
  BY <1>1, <1>2, <1>8 DEF ValidateDocument, AnnounceDocument, CollectDocument, Step, Stop,
                          Exit, Goto, Points
<1>9. CASE InjectDocument \/ ApplyDocument \/ DeleteTarget
  BY <1>1, <1>2, <1>9 DEF InjectDocument, ApplyDocument, DeleteTarget, Step, Stop, Exit,
                          Points
<1>10. CASE Work
  BY <1>2, <1>10 DEF Work, Exit, Points
<1> QED
  BY <1>3, <1>4, <1>5, <1>6, <1>7, <1>8, <1>9, <1>10 DEF Next

\* The verb, where it stands, and what it is about.
LEMMA VerbTyped ==
    ASSUME Next, TypeOK, LineKept, Stages
    PROVE  verb' \in Verbs \cup {""} /\ verbAt' \in 0..Len(argv') /\ kind' \in STRING
<1>1. /\ verb \in Verbs \cup {""} /\ verbAt \in 0..Len(argv) /\ kind \in STRING
      /\ argv' = argv
  BY GivenStays DEF TypeOK
<1>2. CASE ~Dispatch
  BY <1>1, <1>2, VerbStays
<1>3. CASE Dispatch
  <2>1. verb = "" /\ verbAt = 0 /\ kind = ""
    BY <1>3 DEF Dispatch, Stages
  <2>2. (verb' = verb /\ verbAt' = verbAt) \/ (verb' # verb /\ verb' \in Verbs)
    BY <1>3, <2>1 DEF Dispatch, verbVars, Verbs
  <2>3. verb' # verb => verbAt' \in 0..Len(argv)
    <3>1. verb' # verb => verbAt' \in 1..Total
      BY <1>3, VerbDispatched
    <3>2. Total \in Nat
      BY LineNumbers DEF LineKept
    <3> QED
      BY <3>1, <3>2 DEF Total
  <2>4. kind' = kind \/ kind' = Target
    BY <1>3 DEF Dispatch, verbVars
  <2>5. Target \in STRING
    <3>1. CASE Args = <<>>
      BY <3>1, StringsAssumption DEF Target
    <3>2. CASE Args # <<>>
      <4>1. rest # <<>> /\ rest \in Seq(Argument) /\ Args = Tail(rest)
        BY <3>2 DEF Args, LineKept
      <4>2. Args \in Seq(Argument) /\ Left \in Nat /\ DOMAIN Args = 1..(Left - 1)
            /\ \A k \in 1..(Left - 1) : Args[k] = rest[k + 1]
        BY <4>1, TailOf DEF Left
      <4>3. Head(Args) = Args[1] /\ 1 \in DOMAIN Args
        BY <3>2, <4>2
      <4>4. Head(Args) = rest[1 + 1] /\ 1 + 1 \in 1..Left
        BY <4>2, <4>3, InList
      <4> QED
        BY <3>2, <4>4, TextTyped DEF Target
    <3> QED
      BY <3>1, <3>2
  <2> QED
    BY <1>1, <2>2, <2>3, <2>4, <2>5
<1> QED
  BY <1>2, <1>3

\* What a handler finds out and counts.
LEMMA HandlersTyped ==
    ASSUME Next, TypeOK, LineKept, Stages, FlagsTyped
    PROVE  /\ env' \in {"", "k8s", "docker"} /\ server' \in STRING
           /\ bad' \in BOOLEAN /\ touched' \in BOOLEAN
<1>1. /\ env \in {"", "k8s", "docker"} /\ server \in STRING
      /\ bad \in BOOLEAN /\ touched \in BOOLEAN
  BY DEF TypeOK
<1>2. CASE \/ ReadFlag \/ BadFlag \/ EndFlags \/ Refuse \/ Dispatch
           \/ ReadDocument \/ ReadLast
  BY <1>1, <1>2, HandlersStay
<1>3. CASE CheckArguments
  <2>1. server' = server \/ server' = Dialed
    BY <1>3 DEF CheckArguments
  <2> QED
    BY <1>1, <1>3, <2>1, DialedTyped DEF CheckArguments
<1>4. CASE ResolveEnv
  <2>1. resolvedEnv \in {"", "k8s", "docker"}
    BY DEF resolvedEnv, detectEnv
  <2> QED
    BY <1>1, <1>4, <2>1 DEF ResolveEnv
<1>5. CASE ValidateDocument
  BY <1>1, <1>5 DEF ValidateDocument
<1>6. CASE AnnounceDocument \/ CollectDocument
  BY <1>1, <1>6 DEF AnnounceDocument, CollectDocument
<1>7. CASE InjectDocument \/ ApplyDocument \/ DeleteTarget
  BY <1>1, <1>7 DEF InjectDocument, ApplyDocument, DeleteTarget
<1>8. CASE Work
  BY <1>1, <1>8 DEF Work
<1> QED
  BY <1>2, <1>3, <1>4, <1>5, <1>6, <1>7, <1>8 DEF Next

\* The loop goes on to the next document, and some names are done.
LEMMA StepTyped ==
    ASSUME TypeOK, NEW names \in Seq(STRING \cup {NoName}),
           Step(names) \/ (done' = done /\ (turn' = turn \/ turn' = 1))
    PROVE  turn' \in Nat \ {0} /\ done' \in Seq(STRING \cup {NoName})
<1>1. turn \in Nat \ {0} /\ done \in Seq(STRING \cup {NoName})
  BY DEF TypeOK
<1>2. turn + 1 \in Nat \ {0} /\ 1 \in Nat \ {0}
  BY <1>1, InList
<1>3. done \o names \in Seq(STRING \cup {NoName})
  BY <1>1
<1> QED
  BY <1>1, <1>2, <1>3 DEF Step

\* A list of one.
LEMMA JustOne ==
    ASSUME NEW S, NEW s \in S
    PROVE  <<s>> \in Seq(S)
OBVIOUS

\* What has been done has a name.
LEMMA DoneTyped ==
    ASSUME Next, TypeOK, LineKept, CollectedSoFar
    PROVE  turn' \in Nat \ {0} /\ done' \in Seq(STRING \cup {NoName})
<1>1. <<>> \in Seq(STRING \cup {NoName})
  OBVIOUS
<1>2. \A n \in STRING \cup {NoName} : <<n>> \in Seq(STRING \cup {NoName})
  BY JustOne
<1>3. ASSUME NEW target, Decodes(Doc, target)
      PROVE  <<Name(Doc)>> \in Seq(STRING \cup {NoName})
  BY <1>2, <1>3, NameTyped
<1>4. CASE \/ ReadFlag \/ BadFlag \/ EndFlags \/ Refuse \/ Dispatch
           \/ ReadDocument \/ ReadLast
  BY <1>1, <1>4, HandlersStay, StepTyped
<1>5. CASE CheckArguments \/ ResolveEnv \/ Work
  <2>1. turn' = turn /\ done' = done
    BY <1>5 DEF CheckArguments, ResolveEnv, Work
  <2> QED
    BY <1>1, <2>1, StepTyped
<1>6. CASE ValidateDocument
  <2>1. Step(<<>>) \/ (done' = done /\ turn' = turn)
    BY <1>6 DEF ValidateDocument, Stop
  <2> QED
    BY <1>1, <2>1, StepTyped
<1>7. CASE AnnounceDocument
  <2>1. \/ Step(<<>>) \/ (done' = done /\ turn' = turn)
        \/ Decodes(Doc, policyManifest) /\ Step(<<Name(Doc)>>)
    BY <1>7 DEF AnnounceDocument, Stop
  <2> QED
    BY <1>1, <1>3, <2>1, StepTyped
<1>8. CASE CollectDocument
  <2>1. Step(<<>>) \/ (done' = done /\ (turn' = turn \/ turn' = 1))
    BY <1>8 DEF CollectDocument, Stop
  <2> QED
    BY <1>1, <2>1, StepTyped
<1>9. CASE InjectDocument
  <2>1. \/ Step(<<>>) \/ (done' = done /\ turn' = turn)
        \/ Decodes(Doc, selectorLabels) /\ Step(<<Name(Doc)>>)
    BY <1>9 DEF InjectDocument, Stop
  <2> QED
    BY <1>1, <1>3, <2>1, StepTyped
<1>10. CASE ApplyDocument
  <2>1. \/ done' = done /\ turn' = turn
        \/ Decodes(Doc, policyManifest) /\ Step(<<Name(Doc)>>)
    BY <1>10 DEF ApplyDocument, Stop, Named
  <2> QED
    BY <1>1, <1>3, <2>1, StepTyped
<1>11. CASE DeleteTarget
  <2>1. \/ Step(<<>>) \/ (done' = done /\ turn' = turn)
        \/ turn <= Len(Names) /\ Step(<<Names[turn]>>)
    BY <1>11 DEF DeleteTarget, Stop
  <2>2. \A d \in DOMAIN docs : Named(docs[d])
    BY <1>11 DEF DeleteTarget, CollectedSoFar
  <2>3. turn <= Len(Names) => <<Names[turn]>> \in Seq(STRING \cup {NoName})
    BY <1>2, <2>2, NamesTyped
  <2> QED
    BY <1>1, <2>1, <2>3, StepTyped
<1> QED
  BY <1>4, <1>5, <1>6, <1>7, <1>8, <1>9, <1>10, <1>11 DEF Next

\* All of it.
LEMMA TypeKept ==
    ASSUME Next, TypeOK, LineKept, Stages, FlagsTyped, CollectedSoFar
    PROVE  TypeOK'
BY PointTyped, VerbTyped, FlagSetsKept, HandlersTyped, FileTypeKept, DoneTyped DEF TypeOK

(***************************************************************************)
(* The invariant holds.                                                    *)
(***************************************************************************)
\* A command line that has not been read yet.
LEMMA Beginning ==
    ASSUME NEW t \in Nat
    PROVE  /\ 0 \in 0..t /\ 0 \in 0..2 /\ t - t = 0 /\ t <= t
           /\ 1 \in 1..(t + 1) /\ 1 \in Nat \ {0}
           /\ 1..(1 - 1) = {} /\ 1..0 = {}
           /\ \A k \in 1..t : 0 + k = k
OBVIOUS

\* It begins with the types.
LEMMA TypeInit == Init => TypeOK
<1> SUFFICES ASSUME Init PROVE TypeOK
  OBVIOUS
<1>1. PICK i \in Invocations : argv = i.argv /\ input = i.input /\ host = i.host
  BY DEF Init
<1>2. argv \in Seq(Argument) /\ input \in Seq(Lines)
  BY <1>1, InvocationsAssumption
<1>3. Len(argv) \in Nat /\ Len(input) \in Nat
  BY <1>2
<1>4. /\ pc \in Points /\ verb \in Verbs \cup {""} /\ kind \in STRING
      /\ env \in {"", "k8s", "docker"} /\ server \in STRING
      /\ bad \in BOOLEAN /\ touched \in BOOLEAN
  BY StringsAssumption DEF Init, Points
<1>5. DOMAIN global = {} /\ DOMAIN local = {}
  BY DEF Init, NoFlags
<1>6. verbAt = 0 /\ code = 0 /\ at = 1 /\ turn = 1
  BY DEF Init, SplitInit
<1>7. verbAt \in 0..Len(argv) /\ code \in 0..2 /\ at \in 1..(Len(input) + 1) /\ turn \in Nat \ {0}
  BY <1>3, <1>6, Beginning
<1>8. /\ current \in Seq(DOMAIN input) /\ docs \in Seq(Seq(DOMAIN input))
      /\ done \in Seq(STRING \cup {NoName})
  <2>1. \A S : <<>> \in Seq(S)
    OBVIOUS
  <2>2. current = <<>> /\ docs = <<>> /\ done = <<>>
    BY DEF Init, SplitInit
  <2> QED
    BY <2>1, <2>2
<1> QED
  BY <1>2, <1>4, <1>5, <1>7, <1>8 DEF TypeOK

\* It begins with the line unread.
LEMMA LineInit == Init => LineKept /\ Consumed = 0
<1> SUFFICES ASSUME Init PROVE LineKept /\ Consumed = 0
  OBVIOUS
<1>1. PICK i \in Invocations : argv = i.argv /\ host = i.host /\ rest = argv
  BY DEF Init
<1>2. argv \in Seq(Argument) /\ host.file \in STRING
  BY <1>1, InvocationsAssumption
<1>3. \A k \in DOMAIN argv : /\ Text(argv[k]) \in STRING
                             /\ Text(argv[k]) \in Verbs => argv[k].dashes = 0
  BY <1>1, StringsAssumption
<1>4. Left = Total /\ Total \in Nat
  BY <1>1, <1>2 DEF Left, Total
<1>5. Consumed = 0 /\ Left <= Total
  BY <1>4, Beginning DEF Consumed
<1>6. \A k \in 1..Left : rest[k] = argv[Consumed + k]
  BY <1>1, <1>4, <1>5, Beginning
<1> QED
  BY <1>1, <1>2, <1>3, <1>5, <1>6 DEF LineKept

\* The invariant holds at the start.
LEMMA InvariantInit == Init => LineInv
<1> SUFFICES ASSUME Init PROVE LineInv
  OBVIOUS
<1>1. TypeOK /\ LineKept /\ Consumed = 0
  BY TypeInit, LineInit
<1>2. /\ pc = "global" /\ verb = "" /\ kind = "" /\ ~touched /\ ~bad
      /\ global = NoFlags /\ local = NoFlags
  BY DEF Init
<1>3. /\ verbAt = 0 /\ at = 1 /\ turn = 1 /\ current = <<>> /\ docs = <<>>
  BY DEF Init, SplitInit
<1>4. Stages
  BY <1>2, <1>3 DEF Stages
<1>5. VerbPlaced
  BY <1>2 DEF VerbPlaced
<1>6. FlagsTyped
  BY <1>2 DEF FlagsTyped, NoFlags
<1>7. GlobalsCount
  <2>1. \A f \in Globals : Counts(global, f, Consumed)
    BY <1>1, Beginning DEF Counts
  <2> QED
    BY <1>2, <2>1 DEF GlobalsCount
<1>8. DryRunKept /\ PlaceKept
  BY <1>2 DEF DryRunKept, PlaceKept, NeedsEnv
<1>9. DocsKept
  <2>1. DOMAIN docs = {}
    BY <1>3
  <2> QED
    BY <1>2, <2>1 DEF DocsKept, FoundKept
<1>10. LinesKept
  BY <1>3, Beginning DEF LinesKept
<1>11. JudgedSoFar /\ CollectedSoFar
  BY <1>2 DEF JudgedSoFar, CollectedSoFar
<1> QED
  BY <1>1, <1>4, <1>5, <1>6, <1>7, <1>8, <1>9, <1>10, <1>11 DEF LineInv

\* Every step keeps it.
LEMMA InvariantKept == LineInv /\ [Next]_vars => LineInv'
<1>1. ASSUME LineInv, Next
      PROVE  LineInv'
  <2>1. /\ TypeOK /\ LineKept /\ Stages /\ VerbPlaced /\ FlagsTyped /\ GlobalsCount
        /\ DryRunKept /\ PlaceKept /\ DocsKept /\ LinesKept /\ JudgedSoFar /\ CollectedSoFar
    BY <1>1 DEF LineInv
  <2>2. TypeOK' /\ LineKept' /\ Stages'
    BY <1>1, <2>1, TypeKept, LineKeptKept, StagesKept
  <2>3. VerbPlaced' /\ FlagsTyped' /\ GlobalsCount'
    BY <1>1, <2>1, VerbPlacedKept, FlagsTypedKept, GlobalsCountKept
  <2>4. DryRunKept' /\ PlaceKept'
    BY <1>1, <2>1, DryRunKeptKept, PlaceKeptKept
  <2>5. DocsKept' /\ LinesKept' /\ JudgedSoFar' /\ CollectedSoFar'
    BY <1>1, <2>1, DocsKeptKept, LinesKeptKept, JudgedKept
  <2> QED
    BY <2>2, <2>3, <2>4, <2>5 DEF LineInv
<1>2. ASSUME LineInv, UNCHANGED vars
      PROVE  LineInv'
  <2> USE <1>2 DEF vars, inputVars, lineVars, flagVars, verbVars, handlerVars
  <2>1. Total' = Total /\ Left' = Left /\ Consumed' = Consumed
    BY DEF Total, Left, Consumed
  <2>2. TypeOK'
    <3>1. /\ ValueFlags("kkctl")' = ValueFlags("kkctl")
          /\ (ValueFlags(verb) \cup BoolFlags(verb))' = ValueFlags(verb) \cup BoolFlags(verb)
      BY FlagSetsStay DEF ValueFlags
    <3>2. TypeOK
      BY DEF LineInv
    <3> QED
      BY <3>1, <3>2 DEF TypeOK
  <2>3. LineKept' /\ Stages'
    BY <2>1 DEF LineInv, LineKept, Stages
  <2>4. VerbPlaced' /\ FlagsTyped'
    <3>1. \A i : Value(i)' = Value(i)
      BY DEF Value
    <3> QED
      BY <2>1, <3>1 DEF LineInv, VerbPlaced, FlagsTyped
  <2>5. GlobalsCount'
    <3>1. /\ \A i, f : Own(i, f)' = Own(i, f)
          /\ \A i, f, n : LastUpTo(i, f, n)' = LastUpTo(i, f, n)
          /\ \A i : Value(i)' = Value(i)
      BY DEF Own, LastUpTo, Value
    <3>2. \A f \in Globals : /\ Counts(global, f, Consumed)' = Counts(global, f, Consumed)
                             /\ Counts(global, f, verbAt)' = Counts(global, f, verbAt)
      BY <2>1, <3>1 DEF Counts
    <3> QED
      BY <3>2 DEF LineInv, GlobalsCount
  <2>6. DryRunKept' /\ PlaceKept'
    BY <2>1 DEF LineInv, DryRunKept, PlaceKept, DryRunCounts, LastUpTo, Own, DryRun,
           resolvedEnv, detectEnv, inCluster, Dialed
  <2>7. DocsKept' /\ LinesKept'
    <3>1. FoundKept' = FoundKept /\ ReadingKept' = ReadingKept
      BY StretchesStay DEF FoundKept, ReadingKept
    <3>2. \A i : Separates(i)' = Separates(i)
      BY DEF Separates
    <3> QED
      BY <3>1, <3>2 DEF LineInv, DocsKept, LinesKept
  <2>8. \A doc : validatePolicyDoc(doc)' = validatePolicyDoc(doc) /\ Named(doc)' = Named(doc)
    BY JudgementStays
  <2>9. JudgedSoFar' /\ CollectedSoFar'
    BY <2>8 DEF LineInv, JudgedSoFar, CollectedSoFar
  <2> QED
    BY <2>2, <2>3, <2>4, <2>5, <2>6, <2>7, <2>9 DEF LineInv
<1> QED
  BY <1>1, <1>2

\* The invariant of the command line and of its file, in every reachable state.
THEOREM Invariance == Spec => []LineInv
BY InvariantInit, InvariantKept, PTL DEF Spec

\* Every variable stays within its type: each flag set holds only flags it defines,
\* and what a command names as done is a name.
THEOREM Typing == Spec => []TypeOK
<1>1. LineInv => TypeOK
  BY DEF LineInv
<1> QED
  BY <1>1, Invariance, PTL

(***************************************************************************)
(* Where a command works, and whether it heeds its flags.                  *)
(***************************************************************************)
\* Nothing is changed in an environment by guess, whatever is typed and whatever the
\* host shows: resolvedEnv and detectEnv leave no third way.
THEOREM WorksWhereAsked == Spec => []RunsWhereAsked
<1>1. LineInv => RunsWhereAsked
  <2> SUFFICES ASSUME LineInv, touched, verb \in NeedsEnv
               PROVE  \/ \E i \in DOMAIN argv :
                           IsFlag(argv[i]) /\ argv[i].name = "env" /\ Value(i) = env
                      \/ /\ env = "docker"
                         /\ host.found \cap {"kubeconfig", "admin.conf"} = {}
                         /\ ~({"serviceHost", "token"} \subseteq host.found)
                      \/ env = "k8s" /\ "docker.sock" \notin host.found
    BY DEF RunsWhereAsked
  <2>1. env = resolvedEnv /\ env # ""
    BY DEF LineInv, PlaceKept
  <2>2. CASE Given(global, "env") = ""
    <3>1. env = detectEnv
      BY <2>1, <2>2 DEF resolvedEnv
    <3> QED
      BY <2>1, <3>1 DEF detectEnv, inCluster
  <2>3. CASE Given(global, "env") # ""
    <3>1. env = Given(global, "env")
      BY <2>1, <2>3 DEF resolvedEnv
    <3>2. "env" \in DOMAIN global /\ env = global["env"]
      BY <2>3, <3>1 DEF Given
    <3> QED
      BY <3>2 DEF LineInv, FlagsTyped
  <2> QED
    BY <2>2, <2>3
<1> QED
  BY <1>1, Invariance, PTL

\* A --dry-run that is read is heeded: only words that end the reading hide it.
THEOREM DryRunIsHeeded == Spec => []DryRunHeeded
<1>1. LineInv => DryRunHeeded
  <2> SUFFICES ASSUME LineInv, touched, verb \in {"apply", "upgrade"}, rest = <<>>,
                      NEW i \in (verbAt + 1)..Len(argv),
                      Own(i, "dry-run"), argv[i].val \in Yes,
                      \A j \in (i + 1)..Len(argv) :
                         IsFlag(argv[j]) => argv[j].name # "dry-run"
               PROVE  FALSE
    BY DEF DryRunHeeded
  <2>1. DryRunCounts(local, Consumed) /\ ~DryRun
    BY DEF LineInv, DryRunKept
  <2>2. Consumed = Total
    <3>1. Total \in Nat /\ Left = 0
      BY LineNumbers DEF LineInv, LineKept, Left
    <3> QED
      BY <3>1 DEF Consumed
  <2>3. LastUpTo(i, "dry-run", Consumed) /\ i \in (verbAt + 1)..Consumed
    BY <2>2 DEF LastUpTo, Total
  <2> QED
    BY <2>1, <2>3 DEF DryRunCounts, DryRun
<1> QED
  BY <1>1, Invariance, PTL

\* What lies ahead of a place, and what behind.
LEMMA AheadOrBehind ==
    ASSUME NEW t \in Nat, NEW at0 \in 1..t, NEW i \in 1..t
    PROVE  /\ i < at0 \/ i = at0 \/ i \in (at0 + 1)..t
           /\ i < at0 => i \in 1..at0
           /\ i \in (at0 + 1)..t => ~(i < at0)
           /\ \A j \in (i + 1)..at0 : j \in 1..t /\ ~(j <= i) /\ (j < at0 \/ j = at0)
OBVIOUS

\* The last global flag a command was given is the one it has kept.
LEMMA LastIsKept ==
    ASSUME LineInv, touched, NEW f \in Globals, NEW i \in Last(f)
    PROVE  Given(global, f) = Value(i) /\ Value(i) # ""
<1>1. /\ verb # "" /\ verbAt \in 1..Total /\ argv[verbAt].dashes = 0
      /\ \A k \in (verbAt + 1)..Total : argv[k].dashes = 2 => argv[k].name \notin Globals
  BY DEF LineInv, VerbPlaced
<1>2. Total \in Nat /\ DOMAIN argv = 1..Total
  BY LineNumbers DEF LineInv, LineKept
<1>3. Counts(global, f, verbAt)
  BY <1>1 DEF LineInv, GlobalsCount
<1>4. /\ i \in 1..Total /\ IsFlag(argv[i]) /\ argv[i].name = f
      /\ argv[i].dashes = 2 \/ i < verbAt
      /\ Own(i, f) /\ Value(i) # "" /\ \A j \in Meant(f) : j <= i
  BY <1>2 DEF Last, Meant
<1>5. ~IsFlag(argv[verbAt])
  <2>1. argv[verbAt].dashes = 0
    BY <1>1
  <2>2. ~(0 > 0)
    OBVIOUS
  <2> QED
    BY <2>1, <2>2 DEF IsFlag
<1>6. i < verbAt /\ i \in 1..verbAt
  <2>1. i # verbAt
    BY <1>4, <1>5
  <2>2. i \notin (verbAt + 1)..Total
    <3>1. SUFFICES ASSUME i \in (verbAt + 1)..Total PROVE FALSE
      OBVIOUS
    <3>2. argv[i].dashes # 2
      BY <1>1, <1>4, <3>1
    <3>3. i < verbAt
      BY <1>4, <3>2
    <3> QED
      BY <1>1, <1>2, <1>4, <3>1, <3>3, AheadOrBehind
  <2> QED
    BY <1>1, <1>2, <1>4, <2>1, <2>2, AheadOrBehind
<1>7. LastUpTo(i, f, verbAt)
  <2> SUFFICES ASSUME NEW j \in (i + 1)..verbAt, IsFlag(argv[j]), argv[j].name = f
               PROVE  FALSE
    BY DEF LastUpTo
  <2>1. j \in 1..Total /\ ~(j <= i) /\ (j < verbAt \/ j = verbAt)
    BY <1>1, <1>2, <1>4, AheadOrBehind
  <2>2. j < verbAt
    BY <1>5, <2>1
  <2>3. j \in Meant(f)
    BY <1>2, <2>1, <2>2 DEF Meant
  <2> QED
    BY <1>4, <2>1, <2>3
<1>8. f \in DOMAIN global /\ global[f] = Value(i)
  BY <1>3, <1>4, <1>6, <1>7 DEF Counts
<1> QED
  BY <1>4, <1>8 DEF Given

\* The last --env counts for the commands that resolve an environment, the last --server
\* for a stream, wherever on the line they stand: the hint refuses what Go would not have
\* read.  label and inject read no --env.
THEOREM EnvAndServerAreHeeded == Spec => []EnvAndServerHeeded
<1>1. LineInv => EnvAndServerHeeded
  <2> SUFFICES ASSUME LineInv, touched
               PROVE  EnvAndServerHeeded
    BY DEF EnvAndServerHeeded
  <2>1. ASSUME verb \in NeedsEnv, NEW i \in Last("env")
        PROVE  env = Value(i)
    <3>1. Given(global, "env") = Value(i) /\ Value(i) # ""
      BY LastIsKept DEF Globals
    <3>2. env = resolvedEnv /\ env # ""
      BY <2>1 DEF LineInv, PlaceKept
    <3> QED
      BY <3>1, <3>2 DEF resolvedEnv
  <2>2. ASSUME verb = "stream", NEW i \in Last("server"),
               ~\E k \in (verbAt + 1)..Len(argv) : argv[k].dashes = 1 /\ argv[k].name = "server"
        PROVE  server = Value(i)
    <3>1. Given(global, "server") = Value(i) /\ Value(i) # ""
      BY LastIsKept DEF Globals
    <3>2. server = Dialed
      BY <2>2 DEF LineInv, PlaceKept
    <3>3. "server" \notin DOMAIN local
      <4> SUFFICES ASSUME "server" \in DOMAIN local PROVE FALSE
        OBVIOUS
      <4>1. PICK k \in (verbAt + 1)..Total : IsFlag(argv[k]) /\ argv[k].name = "server"
        BY DEF LineInv, FlagsTyped
      <4>2. argv[k].dashes # 1
        BY <2>2, <4>1 DEF Total
      <4>3. argv[k].dashes # 2
        BY <2>2, <4>1 DEF LineInv, VerbPlaced, Globals
      <4>4. argv[k] \in Argument
        <5>1. /\ verbAt \in 1..Total /\ Total \in Nat /\ DOMAIN argv = 1..Total
              /\ argv \in Seq(Argument)
          BY <2>2, LineNumbers DEF LineInv, LineKept, VerbPlaced
        <5>2. k \in DOMAIN argv
          BY <4>1, <5>1
        <5> QED
          BY <5>1, <5>2
      <4>5. argv[k].dashes \in 0..2 /\ argv[k].dashes > 0
        BY <4>1, <4>4 DEF Argument, IsFlag
      <4> QED
        BY <4>2, <4>3, <4>5
    <3> QED
      BY <3>1, <3>2, <3>3 DEF Dialed, Given
  <2> QED
    BY <2>1, <2>2 DEF EnvAndServerHeeded
<1> QED
  BY <1>1, Invariance, PTL

(***************************************************************************)
(* What becomes of a file.                                                 *)
(***************************************************************************)
\* The lines a document has read it stands for.
LEMMA InNumbers ==
    ASSUME NEW i, NEW d \in DOMAIN docs
    PROVE  In(i, d) <=> i \in Numbers(docs[d])
BY DEF In, Numbers

\* A line is in one document at most, and documents are in the order of the file.
LEMMA OneDocument ==
    ASSUME TypeOK, FoundKept, NEW d \in DOMAIN docs, NEW e \in DOMAIN docs,
           NEW i \in Numbers(docs[d]), NEW j \in Numbers(docs[e]), i <= j
    PROVE  /\ i = j => d = e
           /\ d <= e
           /\ d = e => \A k \in i..j : ~Separates(k)
           /\ d # e => \E k \in i..j : Separates(k)
<1>1. i \in Nat /\ j \in Nat
  <2>1. docs[d] \in Seq(DOMAIN input) /\ docs[e] \in Seq(DOMAIN input)
    BY FileTyped
  <2>2. i \in DOMAIN input /\ j \in DOMAIN input
    BY <2>1 DEF Numbers
  <2> QED
    BY <2>2, FileTyped
<1>2. d \in Nat /\ e \in Nat
  BY FileTyped
<1>3. d < e => i < j /\ \E k \in i..j : Separates(k)
  BY DEF FoundKept, Apart
<1>4. e < d => j < i
  BY DEF FoundKept, Apart
<1>5. d = e => \A k \in i..j : ~Separates(k)
  BY DEF FoundKept, Unbroken
<1>6. ~(e < d) /\ (i = j => ~(d < e))
  BY <1>1, <1>3, <1>4
<1>7. d <= e /\ (d # e => d < e) /\ (i = j => d = e)
  BY <1>2, <1>6
<1> QED
  BY <1>3, <1>5, <1>7

\* A line between two lines of the file is one of the file.
LEMMA Between ==
    ASSUME NEW n \in Nat, NEW a \in 1..(n + 1), a > n, NEW i \in 1..n, NEW j \in 1..n
    PROVE  /\ i \in 1..(a - 1) /\ j \in 1..(a - 1)
           /\ \A k \in i..j : k \in 1..n
           /\ i <= i /\ j <= j
OBVIOUS

\* A file whose separators are all `---` is split as YAML splits it.
THEOREM SplitAsYAML == Spec => []PlainFilesAsYAML
<1>1. LineInv => PlainFilesAsYAML
  <2> SUFFICES ASSUME LineInv, Plain, at > Len(input), pc # "split",
                      NEW i \in Significant, NEW j \in Significant, i <= j
               PROVE  \E d, e \in DOMAIN docs :
                        /\ d <= e
                        /\ {f \in DOMAIN docs : In(i, f)} = {d}
                        /\ {f \in DOMAIN docs : In(j, f)} = {e}
                        /\ (d = e) = ~(\E k \in i..j : input[k] = "---")
    BY DEF PlainFilesAsYAML
  <2>1. TypeOK /\ FoundKept /\ LinesKept
    BY DEF LineInv, DocsKept
  <2>2. /\ DOMAIN input = 1..Len(input) /\ Len(input) \in Nat
        /\ at \in 1..(Len(input) + 1)
    BY <2>1, FileTyped
  <2>3. i \in 1..Len(input) /\ j \in 1..Len(input)
    BY <2>2 DEF Significant
  <2>4. /\ i \in 1..(at - 1) /\ j \in 1..(at - 1) /\ i <= i /\ j <= j
        /\ \A k \in i..j : k \in DOMAIN input
    BY <2>2, <2>3, Between
  <2>5. \A k \in DOMAIN input : Separates(k) <=> input[k] = "---"
    BY DEF Plain, Separates
  <2>6. PICK d \in DOMAIN docs : i \in Numbers(docs[d])
    BY <2>1, <2>2, <2>3, <2>4, <2>5 DEF LinesKept, Significant
  <2>7. PICK e \in DOMAIN docs : j \in Numbers(docs[e])
    BY <2>1, <2>2, <2>3, <2>4, <2>5 DEF LinesKept, Significant
  <2>8. \A f \in DOMAIN docs : In(i, f) => f = d
    BY <2>1, <2>4, <2>6, InNumbers, OneDocument
  <2>9. \A f \in DOMAIN docs : In(j, f) => f = e
    BY <2>1, <2>4, <2>7, InNumbers, OneDocument
  <2>10. {f \in DOMAIN docs : In(i, f)} = {d} /\ {f \in DOMAIN docs : In(j, f)} = {e}
    BY <2>6, <2>7, <2>8, <2>9, InNumbers
  <2>11. d <= e /\ ((d = e) <=> ~(\E k \in i..j : Separates(k)))
    BY <2>1, <2>6, <2>7, OneDocument
  <2>12. (d = e) = ~(\E k \in i..j : input[k] = "---")
    BY <2>4, <2>5, <2>11
  <2> QED
    BY <2>10, <2>11, <2>12
<1> QED
  BY <1>1, Invariance, PTL

\* What nobody complains about has a name, which apply and delete read unless labels or
\* namespace have a wrong type.
LEMMA ValidIsNamed ==
    ASSUME NEW doc, validatePolicyDoc(doc) = {}
    PROVE  Named(doc) \/ "labels" \in ManifestIn(doc).mistyped
<1>1. Decodes(doc, policyDoc) /\ Complaints(ManifestIn(doc)) = {}
  BY DEF validatePolicyDoc
<1>2. "name" \notin Complaints(ManifestIn(doc))
  BY <1>1
<1>3. ManifestIn(doc).name # NoName
  BY <1>2 DEF Complaints
<1>4. "labels" \notin ManifestIn(doc).mistyped => Decodes(doc, policyManifest)
  BY <1>1 DEF Decodes, policyDoc, policyManifest
<1> QED
  BY <1>3, <1>4 DEF Named, Name

\* Behind no commented separator, all content of a document is read.
LEMMA ReadUnlessCommented ==
    ASSUME TypeOK, FoundKept, NEW d \in DOMAIN docs, NEW i \in Numbers(docs[d]),
           input[i] \in Content
    PROVE  input[i] \in Read(docs[d]) \/ \E k \in 1..i : input[k] = Commented
<1> SUFFICES ASSUME \A k \in 1..i : input[k] # Commented
             PROVE  input[i] \in Read(docs[d])
  OBVIOUS
<1>1. PICK l \in DOMAIN docs[d] : docs[d][l] = i
  BY DEF Numbers
<1>2. /\ docs[d] \in Seq(DOMAIN input) /\ DOMAIN input \in SUBSET Nat
      /\ DOMAIN input = 1..Len(input)
  BY FileTyped
<1>3. \A m \in 1..l : docs[d][m] \in 1..i
  <2> SUFFICES ASSUME NEW m \in 1..l PROVE docs[d][m] \in 1..i
    OBVIOUS
  <2>1. /\ DOMAIN docs[d] = 1..Len(docs[d]) /\ Len(docs[d]) \in Nat
        /\ \A k \in DOMAIN docs[d] : docs[d][k] \in DOMAIN input
    BY <1>2
  <2>2. m \in DOMAIN docs[d] /\ (m < l \/ m = l)
    BY <1>1, <2>1
  <2>3. m < l => docs[d][m] < i
    BY <1>1, <2>2 DEF FoundKept, Rising
  <2> QED
    BY <1>1, <1>2, <2>1, <2>2, <2>3
<1>4. \A m \in 1..l : input[docs[d][m]] # Commented
  BY <1>3
<1> QED
  BY <1>1, <1>4 DEF Read

\* What policy validate accepts, apply and delete accept unless its labels or namespace
\* have a wrong type, and nothing of it has gone unread but what stands behind a
\* commented separator.
THEOREM AcceptedUpToLabels == Spec => []AcceptedButForLabels
<1>1. LineInv => AcceptedButForLabels
  <2> SUFFICES ASSUME LineInv, pc = "exit", verb = "policy", code = 0
               PROVE  /\ \A d \in DOMAIN docs :
                           Named(docs[d]) \/ "labels" \in ManifestIn(docs[d]).mistyped
                      /\ \A i \in 1..(at - 1) :
                           input[i] \in Content =>
                              \E d \in DOMAIN docs :
                                 /\ In(i, d)
                                 /\ \/ input[i] \in Read(docs[d])
                                    \/ \E k \in 1..i : input[k] = Commented
    BY DEF AcceptedButForLabels
  <2>1. TypeOK /\ FoundKept /\ LinesKept
    BY DEF LineInv, DocsKept
  <2>2. \A d \in DOMAIN docs :
           Named(docs[d]) \/ "labels" \in ManifestIn(docs[d]).mistyped
    BY ValidIsNamed DEF LineInv, JudgedSoFar
  <2>3. ASSUME NEW i \in 1..(at - 1), input[i] \in Content
        PROVE  \E d \in DOMAIN docs :
                  /\ In(i, d)
                  /\ \/ input[i] \in Read(docs[d])
                     \/ \E k \in 1..i : input[k] = Commented
    <3>1. ~Separates(i) /\ input[i] # ""
      BY <2>3, PoliciesAssumption DEF Separates
    <3>2. PICK d \in DOMAIN docs : i \in Numbers(docs[d])
      BY <2>1, <3>1 DEF LinesKept
    <3> QED
      BY <2>1, <2>3, <3>2, InNumbers, ReadUnlessCommented
  <2> QED
    BY <2>2, <2>3
<1> QED
  BY <1>1, Invariance, PTL
====
