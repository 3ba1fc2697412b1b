---- MODULE K8sObjectsProofs ----
(***************************************************************************)
(* Proofs about K8sObjects, for any number of processes, policies, runs    *)
(* and failing requests: the types, that a success is complete, that       *)
(* nothing runs without what it depends on, and that an uninstall leaves   *)
(* behind only what the controllers will remove.                           *)
(***************************************************************************)
EXTENDS K8sObjects, FiniteSetTheorems, SequenceTheorems, TLAPS

\* What runs only with what: the first of each pair needs the second.
Needs == {<<"Operator", CRD>>, <<"Agent", CRD>>, <<"Relay", CRD>>,
          <<"Operator", "OperatorRole">>, <<"Agent", "AgentRole">>,
          <<"WebhookConfiguration", "WebhookService">>}
Users == {"Operator", "Agent", "Relay", "WebhookConfiguration"}
Workloads == {"Operator", "Agent", "Relay"}

\* What is needed comes first, or last.
Upward(s)   == \A i, j \in DOMAIN s : i < j => <<s[i], s[j]>> \notin Needs
Downward(s) == \A i, j \in DOMAIN s : i < j => <<s[j], s[i]>> \notin Needs

Installing == {"apply", "rollout", "hook", "status"}
Removing   == {"remove", "list", "purge"}

\* Where a command is says what it was asked to do and what its loop runs over.
AtWork(p) ==
    /\ pc[p] # "idle" => req[p] \in Requests[p]
    /\ pc[p] \in Installing => req[p].op = "install"
    /\ pc[p] \in Removing => req[p].op = "uninstall"
    /\ pc[p] = "put" => req[p].op = "apply"
    /\ pc[p] = "take" => req[p].op = "delete"
    /\ pc[p] \in {"apply", "hook"} =>
          left[p] \in Seq(Objects) /\ left[p] # <<>> /\ Upward(left[p])
    /\ pc[p] = "apply" => "WebhookConfiguration" \notin ToSet(left[p])
    /\ pc[p] = "remove" =>
          /\ left[p] \in Seq(Objects) /\ left[p] # <<>> /\ Downward(left[p])
          /\ Len(left[p]) <= Len(Work(req[p]))
    /\ pc[p] \in {"put", "take", "purge"} => left[p] \in Seq(Policies) /\ left[p] # <<>>
    /\ pc[p] = "hook" => req[p].hook

WorkTyped == /\ req \in [Procs -> Request \cup {NoRequest}]
             /\ known \in [Procs -> (SUBSET Kinds) \cup {Undiscovered}]
             /\ \A p \in Procs : AtWork(p)

\* No other command and no deletion comes between an install, apply or delete and
\* what it does; for an orderly install that is so until it ends, for a command
\* that is alone until the next one begins.
Undisturbed(p) ==
    /\ pc[p] \in Busy \cup {"ok"} /\ req[p].op # "uninstall"
    /\ \/ solo[p] /\ calm[p]
       \/ orderly /\ pc[p] \in Installing

Alone == \A p \in Procs : Undisturbed(p) =>
             ending = {} /\ \A q \in Procs \ {p} : pc[q] \notin Busy

\* What such a command has done: all of its work but what its loop has still left.
DoneSoFar(p) ==
    /\ pc[p] = "apply" =>
          ToSet(k8sManifestsWithoutWebhook) \subseteq there \cup ToSet(left[p])
    /\ (req[p].op = "install" /\ pc[p] # "apply") =>
          ToSet(k8sManifestsWithoutWebhook) \subseteq there
    /\ pc[p] = "hook" => ToSet(manifestWebhook) \subseteq there \cup ToSet(left[p])
    /\ (pc[p] \in {"status", "ok"} /\ req[p].op = "install" /\ req[p].hook) =>
          ToSet(manifestWebhook) \subseteq there
    /\ pc[p] = "put" => ToSet(req[p].list) \subseteq policies \cup ToSet(left[p])
    /\ (pc[p] = "ok" /\ req[p].op = "apply") => ToSet(req[p].list) \subseteq policies
    /\ pc[p] = "take" => ToSet(req[p].list) \cap policies \subseteq ToSet(left[p])
    /\ (pc[p] = "ok" /\ req[p].op = "delete") => ToSet(req[p].list) \cap policies = {}

Progress == \A p \in Procs : Undisturbed(p) => DoneSoFar(p)

OneAtATime == orderly => \A p, q \in Procs : pc[p] \in Busy /\ pc[q] \in Busy => p = q

\* An uninstall that has removed everything so far.
RemovedSoFar ==
    orderly => \A p \in Procs : pc[p] = "remove" => Users \cap there \subseteq ToSet(left[p])

\* An uninstall that has begun to remove, and has the webhook still before it.
HookToGo == \E p \in Procs : /\ pc[p] = "remove" /\ Len(left[p]) < Len(Work(req[p]))
                             /\ "WebhookConfiguration" \in ToSet(left[p])

\* Nothing that others need goes before them, be it removed or left to a controller.
NeededStay ==
    orderly =>
       /\ there \cap Workloads # {} => CRD \in there /\ CRD \notin ending
       /\ "Operator" \in there => "OperatorRole" \in there
       /\ "Agent" \in there => "AgentRole" \in there
       /\ "WebhookConfiguration" \in there =>
             /\ "WebhookService" \in there \/ ~Holds(Namespace)
             /\ "WebhookService" \in there \/ HookToGo
             /\ Namespace \notin ending \/ HookToGo

ObjectsInv == /\ TypeOK /\ WorkTyped /\ Alone /\ Progress
              /\ OneAtATime /\ RemovedSoFar /\ NeededStay

\* The embedded manifests, object by object.
Names == {Namespace, CRD, "OperatorRole", "Operator", "Certificate", "WebhookService",
          "WebhookConfiguration", "AgentRole", "Agent", "Relay"}

\* What an install without the webhook goes through.
LEMMA WithoutWebhook ==
    LET work == k8sManifestsWithoutWebhook IN
    /\ work \in Seq(Names) /\ Len(work) = 10
    /\ work[1] = Namespace /\ work[2] = CRD /\ work[3] = Namespace
    /\ work[4] = "OperatorRole" /\ work[5] = "Operator" /\ work[6] = Namespace
    /\ work[7] = "AgentRole" /\ work[8] = "Agent" /\ work[9] = Namespace
    /\ work[10] = "Relay"
  BY DEF k8sManifestsWithoutWebhook, manifestNamespace, manifestCRD, manifestOperator,
         manifestDaemonSet, manifestRelay, Names

\* All the manifests there are, the webhook's among them.
LEMMA WithWebhook ==
    LET all == k8sManifests IN
    /\ all \in Seq(Names) /\ Len(all) = 14
    /\ all[1] = Namespace /\ all[2] = CRD /\ all[3] = Namespace /\ all[4] = "OperatorRole"
    /\ all[5] = "Operator" /\ all[6] = Namespace /\ all[7] = "Certificate"
    /\ all[8] = "WebhookService" /\ all[9] = "WebhookConfiguration" /\ all[10] = Namespace
    /\ all[11] = "AgentRole" /\ all[12] = "Agent" /\ all[13] = Namespace
    /\ all[14] = "Relay"
  BY DEF k8sManifests, manifestNamespace, manifestCRD, manifestOperator, manifestWebhook,
         manifestDaemonSet, manifestRelay, Names

\* The objects there may be.
LEMMA TheObjects == Objects = Names
<1>1. DOMAIN k8sManifests = 1..14 /\ \A i \in 1..14 : k8sManifests[i] \in Names
  BY WithWebhook, LenProperties, ElementOfSeq
<1>2. {1, 2, 4, 5, 7, 8, 9, 11, 12, 14} \subseteq 1..14
  OBVIOUS
<1>3. Objects = {k8sManifests[i] : i \in 1..14}
  BY <1>1 DEF Objects, ToSet
<1>4. Names \subseteq Objects
  BY <1>2, <1>3, WithWebhook DEF Names
<1> QED
  BY <1>1, <1>3, <1>4

\* The first element of a loop, and what is left behind it.
LEMMA Popped ==
    ASSUME NEW S, NEW s \in Seq(S), s # <<>>
    PROVE  /\ Head(s) \in S /\ Tail(s) \in Seq(S)
           /\ ToSet(s) = {Head(s)} \cup ToSet(Tail(s))
           /\ Len(s) = 1 <=> Tail(s) = <<>>
           /\ Upward(s) =>
                 Upward(Tail(s)) /\ \A x \in ToSet(Tail(s)) : <<Head(s), x>> \notin Needs
           /\ Downward(s) =>
                 Downward(Tail(s)) /\ \A x \in ToSet(Tail(s)) : <<x, Head(s)>> \notin Needs
<1>1. /\ Head(s) \in S /\ Tail(s) \in Seq(S) /\ Len(Tail(s)) = Len(s) - 1
      /\ \A i \in 1..Len(Tail(s)) : Tail(s)[i] = s[i + 1]
      /\ Len(s) \in Nat \ {0} /\ Head(s) = s[1]
  BY HeadTailProperties, EmptySeq
<1>2. DOMAIN s = 1..Len(s) /\ DOMAIN Tail(s) = 1..(Len(s) - 1)
  BY <1>1
<1>3. \A i \in 1..(Len(s) - 1) : i + 1 \in 1..Len(s) /\ 1 < i + 1 /\ Tail(s)[i] = s[i + 1]
  BY <1>1
<1>4. \A i \in 1..Len(s) : i = 1 \/ (i - 1 \in 1..(Len(s) - 1) /\ Tail(s)[i - 1] = s[i])
  BY <1>1
<1>5. 1 \in 1..Len(s)
  BY <1>1
<1>6. ToSet(s) = {Head(s)} \cup ToSet(Tail(s))
  <2>1. ASSUME NEW x \in ToSet(s), x # Head(s)
        PROVE  x \in ToSet(Tail(s))
    <3>1. PICK i \in 1..Len(s) : x = s[i]
      BY <1>2 DEF ToSet
    <3> QED
      BY <1>1, <1>2, <1>4, <2>1, <3>1 DEF ToSet
  <2>2. ASSUME NEW x \in ToSet(Tail(s))
        PROVE  x \in ToSet(s)
    <3>1. PICK i \in 1..(Len(s) - 1) : x = Tail(s)[i]
      BY <1>2 DEF ToSet
    <3> QED
      BY <1>2, <1>3, <3>1 DEF ToSet
  <2>3. Head(s) \in ToSet(s)
    BY <1>1, <1>2, <1>5 DEF ToSet
  <2> QED
    BY <2>1, <2>2, <2>3
<1>7. Len(s) = 1 <=> Tail(s) = <<>>
  <2>1. Len(s) = 1 <=> Len(Tail(s)) = 0
    BY <1>1
  <2>2. Len(Tail(s)) = 0 <=> Tail(s) = <<>>
    BY <1>1, EmptySeq
  <2> QED
    BY <2>1, <2>2
<1>8. \A x \in ToSet(Tail(s)) : \E j \in DOMAIN s : 1 < j /\ x = s[j]
  <2> SUFFICES ASSUME NEW x \in ToSet(Tail(s))
               PROVE  \E j \in DOMAIN s : 1 < j /\ x = s[j]
    OBVIOUS
  <2>1. PICK i \in 1..(Len(s) - 1) : x = Tail(s)[i]
    BY <1>2 DEF ToSet
  <2> WITNESS i + 1 \in DOMAIN s
  <2> QED
    BY <1>3, <2>1
<1>9. ASSUME NEW i \in DOMAIN Tail(s), NEW j \in DOMAIN Tail(s), i < j
      PROVE  /\ i + 1 \in DOMAIN s /\ j + 1 \in DOMAIN s /\ i + 1 < j + 1
             /\ Tail(s)[i] = s[i + 1] /\ Tail(s)[j] = s[j + 1]
  BY <1>2, <1>3, <1>9
<1>10. Upward(s) => Upward(Tail(s)) /\ \A x \in ToSet(Tail(s)) : <<Head(s), x>> \notin Needs
  <2> SUFFICES ASSUME Upward(s)
               PROVE  Upward(Tail(s)) /\ \A x \in ToSet(Tail(s)) : <<Head(s), x>> \notin Needs
    OBVIOUS
  <2>1. \A i, j \in DOMAIN s : i < j => <<s[i], s[j]>> \notin Needs
    BY DEF Upward
  <2>2. ASSUME NEW i \in DOMAIN Tail(s), NEW j \in DOMAIN Tail(s), i < j
        PROVE  <<Tail(s)[i], Tail(s)[j]>> \notin Needs
    BY <1>9, <2>1, <2>2
  <2>3. ASSUME NEW x \in ToSet(Tail(s))
        PROVE  <<Head(s), x>> \notin Needs
    <3>1. PICK j \in DOMAIN s : 1 < j /\ x = s[j]
      BY <1>8
    <3> QED
      BY <1>1, <1>2, <1>5, <2>1, <3>1
  <2> QED
    BY <2>2, <2>3 DEF Upward
<1>11. Downward(s) =>
          Downward(Tail(s)) /\ \A x \in ToSet(Tail(s)) : <<x, Head(s)>> \notin Needs
  <2> SUFFICES ASSUME Downward(s)
               PROVE  Downward(Tail(s)) /\ \A x \in ToSet(Tail(s)) : <<x, Head(s)>> \notin Needs
    OBVIOUS
  <2>1. \A i, j \in DOMAIN s : i < j => <<s[j], s[i]>> \notin Needs
    BY DEF Downward
  <2>2. ASSUME NEW i \in DOMAIN Tail(s), NEW j \in DOMAIN Tail(s), i < j
        PROVE  <<Tail(s)[j], Tail(s)[i]>> \notin Needs
    BY <1>9, <2>1, <2>2
  <2>3. ASSUME NEW x \in ToSet(Tail(s))
        PROVE  <<x, Head(s)>> \notin Needs
    <3>1. PICK j \in DOMAIN s : 1 < j /\ x = s[j]
      BY <1>8
    <3> QED
      BY <1>1, <1>2, <1>5, <2>1, <3>1
  <2> QED
    BY <2>2, <2>3 DEF Downward
<1> QED
  BY <1>1, <1>6, <1>7, <1>10, <1>11

\* What an install, and what the webhook's manifest, goes through: what is needed first.
LEMMA InstallWork ==
    /\ k8sManifestsWithoutWebhook \in Seq(Objects) /\ k8sManifestsWithoutWebhook # <<>>
    /\ Upward(k8sManifestsWithoutWebhook)
    /\ "WebhookConfiguration" \notin ToSet(k8sManifestsWithoutWebhook)
    /\ manifestWebhook \in Seq(Objects) /\ manifestWebhook # <<>> /\ Upward(manifestWebhook)
<1> DEFINE work == k8sManifestsWithoutWebhook
           hook == manifestWebhook
<1>1. /\ work \in Seq(Names) /\ Len(work) = 10
      /\ work[1] = Namespace /\ work[2] = CRD /\ work[3] = Namespace
      /\ work[4] = "OperatorRole" /\ work[5] = "Operator" /\ work[6] = Namespace
      /\ work[7] = "AgentRole" /\ work[8] = "Agent" /\ work[9] = Namespace
      /\ work[10] = "Relay"
  BY WithoutWebhook
<1>2. /\ hook \in Seq(Names) /\ Len(hook) = 4
      /\ hook[1] = Namespace /\ hook[2] = "Certificate"
      /\ hook[3] = "WebhookService" /\ hook[4] = "WebhookConfiguration"
  BY DEF manifestWebhook, Names
<1> HIDE DEF work, hook
<1>3. /\ work # <<>> /\ hook # <<>> /\ DOMAIN work = 1..10 /\ DOMAIN hook = 1..4
      /\ "WebhookConfiguration" \notin ToSet(work)
  <2>1. DOMAIN work = 1..10 /\ DOMAIN hook = 1..4
    BY <1>1, <1>2
  <2>2. 10 # Len(<<>>) /\ 4 # Len(<<>>)
    OBVIOUS
  <2>3. \A i \in 1..10 : i \in {1, 2, 3, 4, 5, 6, 7, 8, 9, 10}
    OBVIOUS
  <2>4. \A i \in 1..10 : work[i] # "WebhookConfiguration"
    BY <1>1, <2>3 DEF Namespace, CRD
  <2> QED
    BY <1>1, <1>2, <2>1, <2>2, <2>4 DEF ToSet
<1>4. Upward(work)
  <2>1. \A i \in 1..10 : i \in {1, 2, 3, 4, 5, 6, 7, 8, 9, 10}
    OBVIOUS
  <2>2. \A i \in 1..10 : /\ work[i] = CRD => i = 2
                         /\ work[i] = "OperatorRole" => i = 4
                         /\ work[i] = "AgentRole" => i = 7
                         /\ work[i] # "WebhookService"
                         /\ work[i] \in Users => i >= 5
                         /\ work[i] = "Agent" => i = 8
    BY <1>1, <2>1 DEF Namespace, CRD, Users
  <2>3. ASSUME NEW i \in 1..10, NEW j \in 1..10, i < j, <<work[i], work[j]>> \in Needs
        PROVE  FALSE
    <3>1. \/ work[i] = "Agent" /\ work[j] = "AgentRole"
          \/ work[i] \in Users /\ work[j] \in {CRD, "OperatorRole", "WebhookService"}
      BY <2>3 DEF Needs, Users
    <3> QED
      BY <2>2, <2>3, <3>1
  <2> QED
    BY <1>3, <2>3 DEF Upward
<1>5. Upward(hook)
  <2>1. \A i \in 1..4 : i \in {1, 2, 3, 4}
    OBVIOUS
  <2>2. \A i \in 1..4 : hook[i] \in Users => i = 4
    BY <1>2, <2>1 DEF Namespace, CRD, Users
  <2>3. ASSUME NEW i \in 1..4, NEW j \in 1..4, i < j, <<hook[i], hook[j]>> \in Needs
        PROVE  FALSE
    <3>1. hook[i] \in Users
      BY <2>3 DEF Needs, Users
    <3> QED
      BY <2>2, <2>3, <3>1
  <2> QED
    BY <1>3, <2>3 DEF Upward
<1> QED
  BY <1>1, <1>2, <1>3, <1>4, <1>5, TheObjects DEF work, hook

\* What an uninstall goes through: what is needed last, and everything there may be.
LEMMA UninstallWork ==
    /\ Reverse(k8sManifests) \in Seq(Objects) /\ Reverse(k8sManifests) # <<>>
    /\ Downward(Reverse(k8sManifests)) /\ Objects \subseteq ToSet(Reverse(k8sManifests))
    /\ Users \subseteq Objects
    /\ Len(Reverse(k8sManifests)) = 14
<1> DEFINE all == k8sManifests
           work == Reverse(all)
<1>1. /\ all \in Seq(Names) /\ Len(all) = 14
      /\ all[1] = Namespace /\ all[2] = CRD /\ all[3] = Namespace /\ all[4] = "OperatorRole"
      /\ all[5] = "Operator" /\ all[6] = Namespace /\ all[7] = "Certificate"
      /\ all[8] = "WebhookService" /\ all[9] = "WebhookConfiguration" /\ all[10] = Namespace
      /\ all[11] = "AgentRole" /\ all[12] = "Agent" /\ all[13] = Namespace
      /\ all[14] = "Relay"
  BY WithWebhook
<1> HIDE DEF all
<1>2. /\ work = [i \in 1..14 |-> all[(14 - i) + 1]]
      /\ DOMAIN work = 1..14 /\ \A i \in 1..14 : work[i] = all[(14 - i) + 1]
  BY <1>1 DEF Reverse
<1>3. \A i \in 1..14 : (14 - i) + 1 \in 1..14
  OBVIOUS
<1>4. \A i \in 1..14 : all[i] \in Names
  BY <1>1, ElementOfSeq
<1>5. work \in [1..14 -> Names]
  BY <1>2, <1>3, <1>4
<1>6. work \in Seq(Names) /\ Len(work) = 14
  BY <1>2, <1>5, SeqDef
<1>7. /\ work[1] = "Relay" /\ work[2] = Namespace /\ work[3] = "Agent"
      /\ work[4] = "AgentRole" /\ work[5] = Namespace
      /\ work[6] = "WebhookConfiguration" /\ work[7] = "WebhookService"
      /\ work[8] = "Certificate" /\ work[9] = Namespace /\ work[10] = "Operator"
      /\ work[11] = "OperatorRole" /\ work[12] = Namespace /\ work[13] = CRD
      /\ work[14] = Namespace
  BY <1>1, <1>2
<1> HIDE DEF work
<1>8. \A i \in 1..14 : i \in {1, 2, 3, 4, 5, 6, 7, 8, 9, 10, 11, 12, 13, 14}
  OBVIOUS
<1>9. \A i \in 1..14 : /\ work[i] = CRD => i = 13
                       /\ work[i] = "OperatorRole" => i = 11
                       /\ work[i] = "AgentRole" => i = 4
                       /\ work[i] = "WebhookService" => i = 7
                       /\ work[i] \in Workloads => i <= 10
                       /\ work[i] = "Agent" => i = 3
                       /\ work[i] = "WebhookConfiguration" => i = 6
  BY <1>7, <1>8 DEF Namespace, CRD, Workloads
<1>10. Downward(work)
  <2>1. ASSUME NEW i \in 1..14, NEW j \in 1..14, i < j, <<work[j], work[i]>> \in Needs
        PROVE  FALSE
    <3>1. \/ work[j] \in Workloads /\ work[i] \in {CRD, "OperatorRole"}
          \/ work[j] = "Agent" /\ work[i] = "AgentRole"
          \/ work[j] = "WebhookConfiguration" /\ work[i] = "WebhookService"
      BY <2>1 DEF Needs, Workloads
    <3> QED
      BY <1>9, <2>1, <3>1
  <2> QED
    BY <1>2, <2>1 DEF Downward
<1>11. Names \subseteq ToSet(work)
  <2>1. {1, 2, 3, 4, 6, 7, 8, 10, 11, 13} \subseteq DOMAIN work
    BY <1>2
  <2> QED
    BY <1>7, <2>1 DEF Names, ToSet
<1>12. work # <<>>
  <2>1. 14 # Len(<<>>)
    OBVIOUS
  <2> QED
    BY <1>6, <2>1
<1>13. Users \subseteq Names
  BY DEF Users, Names
<1> QED
  BY <1>6, <1>10, <1>11, <1>12, <1>13, TheObjects DEF work, all

\* The purge goes through the policies it has found.
LEMMA Listed ==
    ASSUME NEW S, IsFiniteSet(S)
    PROVE  SetToSeq(S) \in Seq(S) /\ (S # {} => SetToSeq(S) # <<>>)
<1>1. Cardinality(S) \in Nat /\ ExistsBijection(1..Cardinality(S), S)
  BY FS_CardinalityType
<1>2. \E f \in [1..Cardinality(S) -> S] : IsInjective(f)
  BY <1>1 DEF ExistsBijection, Bijection, Injection
<1>3. SetToSeq(S) \in [1..Cardinality(S) -> S]
  BY <1>2 DEF SetToSeq
<1>4. SetToSeq(S) \in Seq(S)
  BY <1>1, <1>3, SeqDef
<1>5. ASSUME NEW x \in S
      PROVE  SetToSeq(S) # <<>>
  <2>1. Cardinality(S) # 0
    BY FS_EmptySet
  <2>2. 1 \in DOMAIN SetToSeq(S)
    BY <1>1, <1>3, <2>1
  <2> QED
    BY <2>2
<1> QED
  BY <1>4, <1>5

\* The loop of a process goes on behind its first element, or ends.
LEMMA Proceeding ==
    ASSUME pc \in [Procs -> Points], left \in [Procs -> Seq(Objects \cup Policies)],
           NEW p \in Procs, NEW S, left[p] \in Seq(S), left[p] # <<>>,
           NEW after \in Points, Proceed(p, after)
    PROVE  /\ pc' \in [Procs -> Points] /\ left' \in [Procs -> Seq(Objects \cup Policies)]
           /\ \A q \in Procs \ {p} : pc'[q] = pc[q] /\ left'[q] = left[q]
           /\ left'[p] = Tail(left[p])
           /\ \/ left'[p] = <<>> /\ pc'[p] = after
              \/ left'[p] # <<>> /\ pc'[p] = pc[p]
<1>1. left' = [left EXCEPT ![p] = Tail(left[p])]
  BY DEF Proceed
<1>2. Tail(left[p]) \in Seq(Objects \cup Policies)
  BY Popped
<1>3. Len(left[p]) = 1 <=> Tail(left[p]) = <<>>
  BY Popped
<1>4. IF Len(left[p]) = 1 THEN pc' = [pc EXCEPT ![p] = after] ELSE pc' = pc
  BY DEF Proceed, Goto
<1>5. /\ left' \in [Procs -> Seq(Objects \cup Policies)]
      /\ \A q \in Procs \ {p} : left'[q] = left[q]
      /\ left'[p] = Tail(left[p])
  BY <1>1, <1>2
<1>6. CASE Len(left[p]) = 1
  <2>1. pc' = [pc EXCEPT ![p] = after]
    BY <1>4, <1>6
  <2>2. left'[p] = <<>>
    BY <1>3, <1>5, <1>6
  <2> QED
    BY <1>5, <2>1, <2>2
<1>7. CASE Len(left[p]) # 1
  BY <1>3, <1>4, <1>5, <1>7
<1> QED
  BY <1>6, <1>7

\* A process that gives up has nothing left.
LEMMA GivingUp ==
    ASSUME pc \in [Procs -> Points], left \in [Procs -> Seq(Objects \cup Policies)],
           NEW p \in Procs, NEW point \in Points, GiveUp(p, point)
    PROVE  /\ pc' \in [Procs -> Points] /\ left' \in [Procs -> Seq(Objects \cup Policies)]
           /\ \A q \in Procs \ {p} : pc'[q] = pc[q] /\ left'[q] = left[q]
           /\ pc'[p] = point
  BY DEF GiveUp, Goto

\* What a process knows of the API's kinds, and learns.
LEMMA Learning ==
    ASSUME WorkTyped, NEW p \in Procs, Learn(p)
    PROVE  /\ known' \in [Procs -> (SUBSET Kinds) \cup {Undiscovered}]
           /\ \A q \in Procs \ {p} : known'[q] = known[q]
<1>1. known \in [Procs -> (SUBSET Kinds) \cup {Undiscovered}]
  BY DEF WorkTyped
<1>2. known[p] \in (SUBSET Kinds) \cup {Undiscovered}
  BY <1>1
<1>3. KnownBy(p) \subseteq Kinds
  <2>1. CASE known[p] # Undiscovered
    BY <1>2, <2>1 DEF KnownBy
  <2>2. CASE known[p] = Undiscovered
    BY <2>2 DEF KnownBy
  <2> QED
    BY <2>1, <2>2
<1> QED
  BY <1>1, <1>3 DEF Learn

\* What the loop of a busy process is at.
LEMMA AtHand ==
    ASSUME TypeOK, WorkTyped, NEW p \in Procs
    PROVE  /\ pc[p] \in Busy => req[p] \in Request /\ req[p] \in Requests[p]
           /\ pc[p] \in {"apply", "hook", "remove"} => Current(p) \in Objects
           /\ pc[p] \in {"put", "take", "purge"} => Current(p) \in Policies
           /\ pc[p] \in {"apply", "hook", "remove", "put", "take", "purge"} => left[p] # <<>>
<1>1. AtWork(p) /\ pc[p] \in Points /\ "idle" \notin Busy
  BY DEF WorkTyped, TypeOK, Busy
<1>2. Requests[p] \subseteq Request
  BY ConstantsAssumption DEF ConstantsAssumption
<1>3. pc[p] \in Busy => req[p] \in Request /\ req[p] \in Requests[p]
  BY <1>1, <1>2 DEF AtWork
<1>4. pc[p] \in {"apply", "hook", "remove"} => left[p] \in Seq(Objects) /\ left[p] # <<>>
  BY <1>1 DEF AtWork
<1>5. pc[p] \in {"put", "take", "purge"} => left[p] \in Seq(Policies) /\ left[p] # <<>>
  BY <1>1 DEF AtWork
<1>6. pc[p] \in {"apply", "hook", "remove"} => Current(p) \in Objects
  BY <1>4, Popped DEF Current
<1>7. pc[p] \in {"put", "take", "purge"} => Current(p) \in Policies
  BY <1>5, Popped DEF Current
<1> QED
  BY <1>3, <1>4, <1>5, <1>6, <1>7

\* The initial states satisfy the invariant: nothing has begun, and the cluster has
\* none or all of the objects.
LEMMA InitInv == Init => ObjectsInv
<1> SUFFICES ASSUME Init
             PROVE  ObjectsInv
  OBVIOUS
<1> USE ConstantsAssumption DEF ConstantsAssumption
<1>1. TypeOK
  <2>1. /\ there \subseteq Objects /\ policies \subseteq Policies
        /\ policies # {} => CRD \in there
    BY TheObjects DEF Init, Names
  <2>2. left \in [Procs -> Seq(Objects \cup Policies)]
    BY EmptySeq DEF Init
  <2> QED
    BY <2>1, <2>2 DEF Init, TypeOK, Points
<1>2. WorkTyped
  BY DEF Init, WorkTyped, AtWork, Installing, Removing
<1>3. \A p \in Procs : pc[p] = "idle"
  BY DEF Init
<1>4. "idle" \notin Busy \cup {"ok", "remove"}
  BY DEF Busy
<1>5. Alone /\ Progress
  BY <1>3, <1>4 DEF Alone, Progress, Undisturbed
<1>6. OneAtATime /\ RemovedSoFar
  BY <1>3, <1>4 DEF OneAtATime, RemovedSoFar
<1>7. NeededStay
  <2>1. CASE there = {}
    BY <2>1 DEF NeededStay
  <2>2. CASE there = Objects /\ ending = {}
    BY <2>2, TheObjects DEF NeededStay, Names
  <2> QED
    BY <2>1, <2>2 DEF Init
<1> QED
  BY <1>1, <1>2, <1>5, <1>6, <1>7 DEF ObjectsInv

\* A step of a command is its own: the others stay where they are, and what the
\* commands are for, and have for themselves, does not change.
LEMMA OthersStay ==
    ASSUME TypeOK, WorkTyped, NEW p \in Procs, Step(p) \/ Kill(p)
    PROVE  /\ pc[p] \in Busy
           /\ pc' \in [Procs -> Points] /\ left' \in [Procs -> Seq(Objects \cup Policies)]
           /\ known' \in [Procs -> (SUBSET Kinds) \cup {Undiscovered}]
           /\ \A q \in Procs \ {p} : pc'[q] = pc[q] /\ left'[q] = left[q]
           /\ req' = req /\ solo' = solo /\ calm' = calm /\ runs' = runs
           /\ orderly' \in BOOLEAN /\ (orderly' => orderly)
<1> DEFINE Typed == /\ pc' \in [Procs -> Points]
                    /\ left' \in [Procs -> Seq(Objects \cup Policies)]
                    /\ \A q \in Procs \ {p} : pc'[q] = pc[q] /\ left'[q] = left[q]
           Known == known' \in [Procs -> (SUBSET Kinds) \cup {Undiscovered}]
           Same  == /\ req' = req /\ solo' = solo /\ calm' = calm /\ runs' = runs
                    /\ orderly' \in BOOLEAN /\ (orderly' => orderly)
           Goal  == pc[p] \in Busy /\ Typed /\ Known /\ Same
<1>1. /\ pc \in [Procs -> Points] /\ left \in [Procs -> Seq(Objects \cup Policies)]
      /\ orderly \in BOOLEAN /\ known \in [Procs -> (SUBSET Kinds) \cup {Undiscovered}]
      /\ IsFiniteSet(Policies)
  BY ConstantsAssumption DEF TypeOK, WorkTyped, ConstantsAssumption
<1>2. {"apply", "hook", "status", "remove", "list", "purge", "put", "take", "rollout",
       "ok", "failed", "killed"} \subseteq Points
  BY DEF Points, Busy, Ended
<1>3. ASSUME NEW point \in Points, GiveUp(p, point)
      PROVE  Typed
  BY <1>1, <1>3, GivingUp
<1>4. ASSUME pc[p] \in {"apply", "hook", "remove"}, NEW after \in Points, Proceed(p, after)
      PROVE  Typed
  <2>1. left[p] \in Seq(Objects) /\ left[p] # <<>>
    BY <1>4 DEF WorkTyped, AtWork
  <2> QED
    BY <1>1, <1>4, <2>1, Proceeding
<1>5. ASSUME pc[p] \in {"put", "take", "purge"}, NEW after \in Points, Proceed(p, after)
      PROVE  Typed
  <2>1. left[p] \in Seq(Policies) /\ left[p] # <<>>
    BY <1>5 DEF WorkTyped, AtWork
  <2> QED
    BY <1>1, <1>5, <2>1, Proceeding
<1>6. ASSUME ApplyObject(p)
      PROVE  Goal
  <2>1. pc[p] \in {"apply", "hook"} /\ pc[p] \in Busy
    BY <1>6 DEF ApplyObject, At, Busy
  <2>2. Typed
    <3>1. CASE Proceed(p, IF At(p, "apply") THEN "rollout" ELSE "status")
      BY <1>2, <1>4, <2>1, <3>1
    <3>2. CASE GiveUp(p, "failed")
      BY <1>2, <1>3, <3>2
    <3> QED
      BY <1>6, <3>1, <3>2 DEF ApplyObject
  <2>3. Known
    BY <1>6, Learning DEF ApplyObject
  <2>4. Same
    BY <1>1, <1>6 DEF ApplyObject, Frame
  <2> QED
    BY <2>1, <2>2, <2>3, <2>4
<1>7. ASSUME Rollout(p)
      PROVE  Goal
  <2>1. pc[p] \in Busy
    BY <1>7 DEF Rollout, At, Busy
  <2>2. manifestWebhook \in Seq(Objects \cup Policies) /\ <<>> \in Seq(Objects \cup Policies)
    BY InstallWork, EmptySeq, SeqMonotonic
  <2>3. Typed
    BY <1>1, <1>2, <1>7, <2>2 DEF Rollout, Goto
  <2> QED
    BY <1>1, <1>7, <2>1, <2>3 DEF Rollout, Frame
<1>8. ASSUME ShowStatus(p)
      PROVE  Goal
  <2>1. pc[p] \in Busy
    BY <1>8 DEF ShowStatus, At, Busy
  <2>2. Typed
    BY <1>1, <1>2, <1>8 DEF ShowStatus, Goto
  <2> QED
    BY <1>1, <1>8, <2>1, <2>2 DEF ShowStatus, Frame
<1>9. ASSUME RemoveObject(p)
      PROVE  Goal
  <2>1. pc[p] = "remove" /\ pc[p] \in Busy
    BY <1>9 DEF RemoveObject, At, Busy
  <2>2. Typed
    BY <1>2, <1>4, <1>9, <2>1 DEF RemoveObject
  <2>3. Known
    BY <1>9, Learning DEF RemoveObject
  <2> QED
    BY <1>1, <1>9, <2>1, <2>2, <2>3 DEF RemoveObject, Frame
<1>10. ASSUME RemoveFails(p)
       PROVE  Goal
  <2>1. pc[p] = "remove" /\ pc[p] \in Busy
    BY <1>10 DEF RemoveFails, At, Busy
  <2>2. Typed
    BY <1>2, <1>4, <1>10, <2>1 DEF RemoveFails
  <2> QED
    BY <1>1, <1>10, <2>1, <2>2 DEF RemoveFails, Frame
<1>11. ASSUME ListPolicies(p)
       PROVE  Goal
  <2> DEFINE found == IF "policies" \in KnownBy(p) /\ CRD \in there THEN policies ELSE {}
  <2>1. pc[p] \in Busy
    BY <1>11 DEF ListPolicies, At, Busy
  <2>2. found \subseteq Policies /\ IsFiniteSet(found)
    BY <1>1, FS_Subset DEF TypeOK
  <2>3. SetToSeq(found) \in Seq(Objects \cup Policies)
    BY <2>2, Listed, SeqMonotonic
  <2>4. /\ left' = [left EXCEPT ![p] = SetToSeq(found)]
        /\ pc' = [pc EXCEPT ![p] = IF found = {} THEN "ok" ELSE "purge"]
    BY <1>11 DEF ListPolicies, Goto
  <2> HIDE DEF found
  <2>5. Typed
    BY <1>1, <1>2, <2>3, <2>4
  <2>6. Known
    BY <1>11, Learning DEF ListPolicies
  <2> QED
    BY <1>1, <1>11, <2>1, <2>5, <2>6 DEF ListPolicies, Frame
<1>12. ASSUME PurgePolicy(p)
       PROVE  Goal
  <2>1. pc[p] = "purge" /\ pc[p] \in Busy
    BY <1>12 DEF PurgePolicy, At, Busy
  <2>2. Typed
    BY <1>2, <1>5, <1>12, <2>1 DEF PurgePolicy
  <2> QED
    BY <1>1, <1>12, <2>1, <2>2 DEF PurgePolicy, Frame
<1>13. ASSUME PutPolicy(p)
       PROVE  Goal
  <2>1. pc[p] = "put" /\ pc[p] \in Busy
    BY <1>13 DEF PutPolicy, At, Busy
  <2>2. Typed
    BY <1>2, <1>3, <1>5, <1>13, <2>1 DEF PutPolicy
  <2> QED
    BY <1>1, <1>13, <2>1, <2>2 DEF PutPolicy, Frame
<1>14. ASSUME TakePolicy(p)
       PROVE  Goal
  <2>1. pc[p] = "take" /\ pc[p] \in Busy
    BY <1>14 DEF TakePolicy, At, Busy
  <2>2. Typed
    BY <1>2, <1>3, <1>5, <1>14, <2>1 DEF TakePolicy
  <2> QED
    BY <1>1, <1>14, <2>1, <2>2 DEF TakePolicy, Frame
<1>15. ASSUME RequestFails(p)
       PROVE  Goal
  <2>1. pc[p] \in Busy
    BY <1>15 DEF RequestFails, At, Busy
  <2>2. Typed
    BY <1>2, <1>3, <1>15 DEF RequestFails
  <2> QED
    BY <1>1, <1>15, <2>1, <2>2 DEF RequestFails, Frame
<1>16. ASSUME Kill(p)
       PROVE  Goal
  <2>1. Typed
    BY <1>2, <1>3, <1>16 DEF Kill
  <2> QED
    BY <1>1, <1>16, <2>1 DEF Kill
<1> QED
  BY <1>6, <1>7, <1>8, <1>9, <1>10, <1>11, <1>12, <1>13, <1>14, <1>15, <1>16 DEF Step

\* Where a command begins, by what it is asked to do, and what its loop runs over.
LEMMA Assigned ==
    ASSUME NEW p \in Procs, NEW r \in Requests[p]
    PROVE  /\ r \in Request
           /\ \/ r.op = "install" /\ FirstPoint(r) = "apply"
                 /\ Work(r) = k8sManifestsWithoutWebhook
              \/ r.op = "uninstall" /\ FirstPoint(r) = "remove"
                 /\ Work(r) = Reverse(k8sManifests)
              \/ r.op = "apply" /\ FirstPoint(r) = "put" /\ Work(r) = r.list
              \/ r.op = "delete" /\ FirstPoint(r) = "take" /\ Work(r) = r.list
           /\ r.op \in {"apply", "delete"} => r.list \in Seq(Policies) /\ r.list # <<>>
           /\ Work(r) \in Seq(Objects \cup Policies)
<1>1. /\ r \in Request
      /\ r.op \in {"apply", "delete"} => r.list # <<>>
  BY ConstantsAssumption DEF ConstantsAssumption
<1>2. r.op \in {"install", "uninstall", "apply", "delete"} /\ r.list \in Seq(Policies)
  BY <1>1 DEF Request
<1>3. CASE r.op = "install"
  <2>1. FirstPoint(r) = "apply" /\ Work(r) = k8sManifestsWithoutWebhook
    BY <1>3 DEF FirstPoint, Work
  <2>2. Work(r) \in Seq(Objects \cup Policies)
    BY <2>1, InstallWork, SeqMonotonic
  <2> QED
    BY <1>1, <1>3, <2>1, <2>2
<1>4. CASE r.op = "uninstall"
  <2>1. FirstPoint(r) = "remove" /\ Work(r) = Reverse(k8sManifests)
    BY <1>4 DEF FirstPoint, Work
  <2>2. Work(r) \in Seq(Objects \cup Policies)
    BY <2>1, UninstallWork, SeqMonotonic
  <2> QED
    BY <1>1, <1>4, <2>1, <2>2
<1>5. CASE r.op = "apply"
  <2>1. FirstPoint(r) = "put" /\ Work(r) = r.list
    BY <1>5 DEF FirstPoint, Work
  <2>2. Work(r) \in Seq(Objects \cup Policies)
    BY <1>2, <2>1, SeqMonotonic
  <2> QED
    BY <1>1, <1>2, <1>5, <2>1, <2>2
<1>6. CASE r.op = "delete"
  <2>1. FirstPoint(r) = "take" /\ Work(r) = r.list
    BY <1>6 DEF FirstPoint, Work
  <2>2. Work(r) \in Seq(Objects \cup Policies)
    BY <1>2, <2>1, SeqMonotonic
  <2> QED
    BY <1>1, <1>2, <1>6, <2>1, <2>2
<1> QED
  BY <1>2, <1>3, <1>4, <1>5, <1>6

\* A command that begins has its own work before it; what it does to the history of
\* the others is never for the better.
LEMMA Beginning ==
    ASSUME TypeOK, WorkTyped, NEW p \in Procs, NEW r \in Requests[p], Begin(p, r)
    PROVE  /\ pc[p] \notin Busy
           /\ pc' \in [Procs -> Points] /\ left' \in [Procs -> Seq(Objects \cup Policies)]
           /\ known' \in [Procs -> (SUBSET Kinds) \cup {Undiscovered}]
           /\ req' \in [Procs -> Request \cup {NoRequest}]
           /\ \A q \in Procs \ {p} : pc'[q] = pc[q] /\ left'[q] = left[q] /\ req'[q] = req[q]
           /\ req'[p] = r /\ pc'[p] = FirstPoint(r) /\ left'[p] = Work(r)
           /\ solo' \in [Procs -> BOOLEAN] /\ calm' \in [Procs -> BOOLEAN]
           /\ orderly' \in BOOLEAN
           /\ \A q \in Procs \ {p} : solo'[q] => req[q].op = "uninstall"
           /\ (solo'[p] /\ r.op # "uninstall") => \A q \in Procs \ {p} : pc[q] \notin Busy
           /\ calm'[p] => ending = {}
           /\ orderly' => /\ orderly /\ \A q \in Procs \ {p} : pc[q] \notin Busy
                          /\ r.op = "install" => ending = {}
<1> DEFINE busy == {q \in Procs \ {p} : pc[q] \in Busy}
           Bears(a, b) == a.op = "uninstall" /\ b.op # "install"
<1>1. /\ pc \in [Procs -> Points] /\ left \in [Procs -> Seq(Objects \cup Policies)]
      /\ solo \in [Procs -> BOOLEAN] /\ calm \in [Procs -> BOOLEAN] /\ orderly \in BOOLEAN
      /\ known \in [Procs -> (SUBSET Kinds) \cup {Undiscovered}]
      /\ req \in [Procs -> Request \cup {NoRequest}]
  BY DEF TypeOK, WorkTyped
<1>2. Work(r) \in Seq(Objects \cup Policies) /\ r \in Request /\ FirstPoint(r) \in Points
  BY Assigned DEF Points, Busy
<1>3. /\ pc[p] \notin Busy /\ pc' = [pc EXCEPT ![p] = FirstPoint(r)]
      /\ left' = [left EXCEPT ![p] = Work(r)]
      /\ req' = [req EXCEPT ![p] = r] /\ known' = [known EXCEPT ![p] = Undiscovered]
  BY DEF Begin, Goto
<1>4. /\ solo' = [q \in Procs |-> IF q = p THEN \A o \in busy : Bears(r, req[o])
                                  ELSE solo[q] /\ Bears(req[q], r)]
      /\ calm' = [calm EXCEPT ![p] = (ending = {})]
      /\ orderly' = (orderly /\ busy = {} /\ (r.op = "install" => ending = {}))
  BY DEF Begin
<1>5. /\ pc' \in [Procs -> Points] /\ left' \in [Procs -> Seq(Objects \cup Policies)]
      /\ known' \in [Procs -> (SUBSET Kinds) \cup {Undiscovered}]
      /\ req' \in [Procs -> Request \cup {NoRequest}]
      /\ \A q \in Procs \ {p} : pc'[q] = pc[q] /\ left'[q] = left[q] /\ req'[q] = req[q]
      /\ req'[p] = r /\ pc'[p] = FirstPoint(r) /\ left'[p] = Work(r)
  BY <1>1, <1>2, <1>3
<1>6. calm' \in [Procs -> BOOLEAN] /\ (calm'[p] <=> ending = {})
  BY <1>1, <1>4
<1>7. /\ solo' \in [Procs -> BOOLEAN]
      /\ solo'[p] <=> \A o \in busy : Bears(r, req[o])
      /\ \A q \in Procs \ {p} : solo'[q] <=> (solo[q] /\ Bears(req[q], r))
  BY <1>1, <1>4
<1>8. orderly' \in BOOLEAN /\ (orderly' => orderly /\ busy = {} /\ (r.op = "install" => ending = {}))
  BY <1>1, <1>4
<1>9. \A q \in Procs \ {p} : solo'[q] => req[q].op = "uninstall"
  BY <1>7
<1>10. (solo'[p] /\ r.op # "uninstall") => \A q \in Procs \ {p} : pc[q] \notin Busy
  BY <1>7
<1> QED
  BY <1>3, <1>5, <1>6, <1>7, <1>8, <1>9, <1>10

\* What is in the cluster stays in order whatever a command does to it.
LEMMA ClusterStep ==
    ASSUME TypeOK, WorkTyped, NEW p \in Procs, Step(p) \/ Kill(p)
    PROVE  /\ there' \subseteq Objects /\ ending' \subseteq there' \cap {Namespace, CRD}
           /\ policies' \subseteq Policies /\ (policies' # {} => CRD \in there')
           /\ certManager' \in BOOLEAN /\ spared' \in [Procs -> SUBSET Objects]
           /\ errors' \in 0..MaxErrors
<1> DEFINE Cluster == /\ there' \subseteq Objects
                      /\ ending' \subseteq there' \cap {Namespace, CRD}
                      /\ policies' \subseteq Policies /\ (policies' # {} => CRD \in there')
                      /\ certManager' \in BOOLEAN
           Rest == spared' \in [Procs -> SUBSET Objects] /\ errors' \in 0..MaxErrors
<1>1. /\ there \subseteq Objects /\ ending \subseteq there \cap {Namespace, CRD}
      /\ policies \subseteq Policies /\ (policies # {} => CRD \in there)
      /\ certManager \in BOOLEAN /\ spared \in [Procs -> SUBSET Objects]
      /\ errors \in 0..MaxErrors
  BY DEF TypeOK
<1>2. /\ pc[p] \in {"apply", "hook", "remove"} => Current(p) \in Objects
      /\ pc[p] \in {"put", "take", "purge"} => Current(p) \in Policies
  BY AtHand
<1>3. ASSUME errors < MaxErrors, errors' = errors + 1
      PROVE  errors' \in 0..MaxErrors
  BY <1>1, <1>3, ConstantsAssumption DEF ConstantsAssumption
<1>4. CASE ApplyObject(p)
  <2>1. pc[p] \in {"apply", "hook"} /\ there' \in {there, there \cup {Current(p)}}
    BY <1>4 DEF ApplyObject, At
  <2>2. ending' = ending /\ policies' = policies /\ certManager' = certManager
    BY <1>4 DEF ApplyObject, Frame
  <2>3. Cluster
    BY <1>1, <1>2, <2>1, <2>2
  <2> QED
    BY <1>1, <1>4, <2>3 DEF ApplyObject
<1>5. CASE Rollout(p)
  BY <1>1, <1>5 DEF Rollout, Frame
<1>6. CASE ShowStatus(p)
  BY <1>1, <1>6 DEF ShowStatus, Frame
<1>7. CASE RemoveObject(p)
  <2>1. /\ pc[p] = "remove" /\ spared' = [spared EXCEPT ![p] = spared[p] \ {Current(p)}]
        /\ policies' = policies /\ certManager' = certManager /\ errors' = errors
        /\ IF Mapped(p, Current(p)) THEN Deletes(Current(p)) ELSE UNCHANGED <<there, ending>>
    BY <1>7 DEF RemoveObject, At, Frame
  <2>2. spared' \in [Procs -> SUBSET Objects]
    BY <1>1, <2>1
  <2>3. \/ there' = there /\ ending' = ending
        \/ there' = there /\ ending' = ending \cup ({Current(p)} \cap there)
           /\ Current(p) \in {Namespace, CRD}
        \/ there' = there \ {Current(p)} /\ ending' = ending /\ Current(p) \notin {Namespace, CRD}
    BY <2>1 DEF Deletes
  <2>4. Cluster
    BY <1>1, <2>1, <2>3
  <2> QED
    BY <1>1, <2>1, <2>2, <2>4
<1>8. CASE RemoveFails(p)
  <2>1. /\ pc[p] = "remove" /\ errors < MaxErrors /\ errors' = errors + 1
        /\ spared' = [spared EXCEPT ![p] = spared[p] \cup ({Current(p)} \ Namespaced)]
        /\ UNCHANGED <<there, ending, policies, certManager>>
    BY <1>8 DEF RemoveFails, At, Frame
  <2>2. spared' \in [Procs -> SUBSET Objects]
    BY <1>1, <1>2, <2>1
  <2> QED
    BY <1>1, <1>3, <2>1, <2>2
<1>9. CASE ListPolicies(p)
  BY <1>1, <1>9 DEF ListPolicies, Frame
<1>10. CASE PurgePolicy(p)
  BY <1>1, <1>10 DEF PurgePolicy, Frame
<1>11. CASE PutPolicy(p)
  <2>1. /\ pc[p] = "put"
        /\ UNCHANGED <<there, ending, certManager, spared, errors>>
        /\ \/ CRD \in there /\ policies' = policies \cup {Current(p)}
           \/ policies' = policies
    BY <1>11 DEF PutPolicy, At, Frame, AcceptsPolicy
  <2> QED
    BY <1>1, <1>2, <2>1
<1>12. CASE TakePolicy(p)
  BY <1>1, <1>12 DEF TakePolicy, Frame
<1>13. CASE RequestFails(p)
  <2>1. /\ errors < MaxErrors /\ errors' = errors + 1
        /\ UNCHANGED <<ending, certManager, spared>>
        /\ \/ /\ pc[p] \in {"apply", "hook"} /\ policies' = policies
              /\ there' \in {there, there \cup {Current(p)}}
           \/ /\ pc[p] = "put" /\ there' = there
              /\ \/ CRD \in there /\ policies' = policies \cup {Current(p)}
                 \/ policies' = policies
           \/ there' = there /\ policies' \in {policies, policies \ {Current(p)}}
    BY <1>13 DEF RequestFails, At, Frame, AcceptsPolicy
  <2>2. Cluster
    BY <1>1, <1>2, <2>1
  <2> QED
    BY <1>1, <1>3, <2>1, <2>2
<1>14. CASE Kill(p)
  BY <1>1, <1>14 DEF Kill, clusterVars
<1> QED
  BY <1>4, <1>5, <1>6, <1>7, <1>8, <1>9, <1>10, <1>11, <1>12, <1>13, <1>14 DEF Step

\* Every step keeps the variables in their types.
LEMMA TypeStep == ObjectsInv /\ [Next]_vars => TypeOK'
<1> SUFFICES ASSUME ObjectsInv, [Next]_vars
             PROVE  TypeOK'
  OBVIOUS
<1>1. TypeOK /\ WorkTyped
  BY DEF ObjectsInv
<1>2. ASSUME NEW p \in Procs, Step(p) \/ Kill(p)
      PROVE  TypeOK'
  <2>1. /\ pc' \in [Procs -> Points] /\ left' \in [Procs -> Seq(Objects \cup Policies)]
        /\ known' \in [Procs -> (SUBSET Kinds) \cup {Undiscovered}]
        /\ req' = req /\ solo' = solo /\ calm' = calm /\ runs' = runs /\ orderly' \in BOOLEAN
    BY <1>1, <1>2, OthersStay
  <2>2. /\ there' \subseteq Objects /\ ending' \subseteq there' \cap {Namespace, CRD}
        /\ policies' \subseteq Policies /\ (policies' # {} => CRD \in there')
        /\ certManager' \in BOOLEAN /\ spared' \in [Procs -> SUBSET Objects]
        /\ errors' \in 0..MaxErrors
    BY <1>1, <1>2, ClusterStep
  <2>3. \A q \in Procs : known'[q] # Undiscovered => known'[q] \subseteq Kinds
    BY <2>1
  <2> QED
    BY <1>1, <2>1, <2>2, <2>3 DEF TypeOK
<1>3. ASSUME NEW p \in Procs, NEW r \in Requests[p], Begin(p, r)
      PROVE  TypeOK'
  <2>1. /\ pc' \in [Procs -> Points] /\ left' \in [Procs -> Seq(Objects \cup Policies)]
        /\ known' \in [Procs -> (SUBSET Kinds) \cup {Undiscovered}]
        /\ \A q \in Procs \ {p} : req'[q] = req[q]
        /\ req'[p] = r
        /\ solo' \in [Procs -> BOOLEAN] /\ calm' \in [Procs -> BOOLEAN]
        /\ orderly' \in BOOLEAN
    BY <1>1, <1>3, Beginning
  <2>2. /\ UNCHANGED <<there, ending, policies, certManager, errors>>
        /\ spared' = [spared EXCEPT ![p] = {}] /\ runs < MaxRuns /\ runs' = runs + 1
    BY <1>3 DEF Begin, clusterVars
  <2>3. runs' \in 0..MaxRuns
    BY <1>1, <2>2, ConstantsAssumption DEF TypeOK, ConstantsAssumption
  <2>4. spared' \in [Procs -> SUBSET Objects]
    BY <1>1, <2>2 DEF TypeOK
  <2>5. \A q \in Procs : known'[q] # Undiscovered => known'[q] \subseteq Kinds
    BY <2>1
  <2>6. \A q \in Procs : req'[q] \in Requests[q] \cup {NoRequest}
    BY <1>1, <2>1 DEF TypeOK
  <2> QED
    BY <1>1, <2>1, <2>2, <2>3, <2>4, <2>5, <2>6 DEF TypeOK
<1>4. CASE EmptyNamespace
  BY <1>1, <1>4 DEF TypeOK, EmptyNamespace, Kkctls, history, Namespaced, Namespace, CRD
<1>5. CASE EmptyCRD
  BY <1>1, <1>5 DEF TypeOK, EmptyCRD, Kkctls, history
<1>6. CASE CertManagerComes
  BY <1>1, <1>6 DEF TypeOK, CertManagerComes, Kkctls, history
<1>7. CASE UNCHANGED vars
  BY <1>1, <1>7 DEF TypeOK, vars
<1> QED
  BY <1>2, <1>3, <1>4, <1>5, <1>6, <1>7 DEF Next

\* A command that has ended, or only waits, has no loop to say anything about.
LEMMA WithoutLoop ==
    ASSUME WorkTyped, NEW p \in Procs, pc[p] \in Busy, req'[p] = req[p],
           pc'[p] \in Points \ {"idle", "apply", "hook", "remove", "put", "take", "purge"},
           pc'[p] \in Installing => req[p].op = "install",
           pc'[p] \in Removing => req[p].op = "uninstall"
    PROVE  AtWork(p)'
<1>1. AtWork(p) /\ pc[p] # "idle"
  BY DEF WorkTyped, Busy
<1> QED
  BY <1>1 DEF AtWork

\* A step of a command leaves it at a control point that fits its request, with a
\* loop that fits the control point.
LEMMA OwnWork ==
    ASSUME TypeOK, WorkTyped, NEW p \in Procs, Step(p) \/ Kill(p)
    PROVE  AtWork(p)'
<1>1. /\ pc \in [Procs -> Points] /\ left \in [Procs -> Seq(Objects \cup Policies)]
      /\ AtWork(p)
  BY DEF TypeOK, WorkTyped
<1>2. pc[p] \in Busy /\ req'[p] = req[p] /\ pc[p] # "idle"
  BY OthersStay DEF Busy
<1>3. ASSUME pc'[p] \in {"ok", "failed", "killed"}
      PROVE  AtWork(p)'
  BY <1>2, <1>3, WithoutLoop DEF Points, Ended, Installing, Removing
<1>4. {"rollout", "status", "ok", "failed", "killed", "list"} \subseteq Points
  BY DEF Points, Busy, Ended
<1>5. ASSUME NEW point \in {"failed", "killed"}, GiveUp(p, point)
      PROVE  AtWork(p)'
  BY <1>1, <1>3, <1>4, <1>5, GivingUp
<1>6. CASE ApplyObject(p)
  <2>1. /\ pc[p] \in {"apply", "hook"} /\ req[p].op = "install" /\ req[p] \in Requests[p]
        /\ left[p] \in Seq(Objects) /\ left[p] # <<>> /\ Upward(left[p])
    BY <1>1, <1>6 DEF ApplyObject, At, AtWork, Installing
  <2>2. CASE Proceed(p, IF At(p, "apply") THEN "rollout" ELSE "status")
    <3>1. /\ left'[p] = Tail(left[p])
          /\ \/ pc'[p] \in {"rollout", "status"}
             \/ left'[p] # <<>> /\ pc'[p] = pc[p]
      BY <1>1, <1>4, <2>1, <2>2, Proceeding
    <3>2. /\ Tail(left[p]) \in Seq(Objects) /\ Upward(Tail(left[p]))
          /\ ToSet(Tail(left[p])) \subseteq ToSet(left[p])
      BY <2>1, Popped
    <3>3. CASE pc'[p] \in {"rollout", "status"}
      BY <1>2, <2>1, <3>3, WithoutLoop DEF Points, Busy, Removing
    <3>4. CASE left'[p] # <<>> /\ pc'[p] = pc[p]
      BY <1>1, <1>2, <2>1, <3>1, <3>2, <3>4 DEF AtWork, Removing
    <3> QED
      BY <3>1, <3>3, <3>4
  <2> QED
    BY <1>5, <1>6, <2>2 DEF ApplyObject
<1>7. CASE Rollout(p)
  <2>1. pc[p] = "rollout" /\ req[p].op = "install"
    BY <1>1, <1>7 DEF Rollout, At, AtWork, Installing
  <2>2. CASE pc' = [pc EXCEPT ![p] = "failed"]
    BY <1>1, <1>3, <2>2
  <2>3. CASE /\ pc' = [pc EXCEPT ![p] = IF req[p].hook THEN "hook" ELSE "status"]
             /\ left' = [left EXCEPT ![p] = IF req[p].hook THEN manifestWebhook ELSE <<>>]
    <3>1. CASE req[p].hook
      <4>1. pc'[p] = "hook" /\ left'[p] = manifestWebhook
        BY <1>1, <2>3, <3>1
      <4> QED
        BY <1>1, <1>2, <2>1, <3>1, <4>1, InstallWork DEF AtWork, Installing, Removing
    <3>2. CASE ~req[p].hook
      <4>1. pc'[p] = "status"
        BY <1>1, <2>3, <3>2
      <4> QED
        BY <1>2, <2>1, <4>1, WithoutLoop DEF Points, Busy, Removing
    <3> QED
      BY <3>1, <3>2
  <2> QED
    BY <1>7, <2>2, <2>3 DEF Rollout, Goto
<1>8. CASE ShowStatus(p)
  <2>1. pc'[p] \in {"ok", "failed"}
    BY <1>1, <1>8 DEF ShowStatus, Goto
  <2> QED
    BY <1>3, <2>1
<1>9. CASE RemoveObject(p) \/ RemoveFails(p)
  <2>1. /\ pc[p] = "remove" /\ req[p].op = "uninstall" /\ req[p] \in Requests[p]
        /\ left[p] \in Seq(Objects) /\ left[p] # <<>> /\ Downward(left[p])
        /\ Len(left[p]) <= Len(Work(req[p]))
    BY <1>1, <1>9 DEF RemoveObject, RemoveFails, At, AtWork, Removing
  <2>2. Proceed(p, IF req[p].purge THEN "list" ELSE "ok")
    BY <1>9 DEF RemoveObject, RemoveFails
  <2>3. /\ left'[p] = Tail(left[p])
        /\ \/ pc'[p] \in {"list", "ok"}
           \/ left'[p] # <<>> /\ pc'[p] = pc[p]
    BY <1>1, <1>4, <2>1, <2>2, Proceeding
  <2>4. /\ Tail(left[p]) \in Seq(Objects) /\ Downward(Tail(left[p]))
        /\ Len(Tail(left[p])) = Len(left[p]) - 1
    BY <2>1, Popped, HeadTailProperties
  <2>5. /\ Work(req[p]) \in Seq(Objects \cup Policies)
        /\ Len(Work(req[p])) \in Nat /\ Len(left[p]) \in Nat
    BY <2>1, Assigned, LenProperties
  <2>6. Len(Tail(left[p])) <= Len(Work(req[p]))
    BY <2>1, <2>4, <2>5
  <2>7. CASE pc'[p] = "list"
    BY <1>2, <2>1, <2>7, WithoutLoop DEF Points, Busy, Installing
  <2>8. CASE left'[p] # <<>> /\ pc'[p] = pc[p]
    <3>1. Work(req'[p]) = Work(req[p])
      BY <1>2
    <3> QED
      BY <1>1, <1>2, <2>1, <2>3, <2>4, <2>6, <2>8, <3>1 DEF AtWork, Installing, Work
  <2> QED
    BY <1>3, <2>3, <2>7, <2>8
<1>10. CASE ListPolicies(p)
  <2> DEFINE found == IF "policies" \in KnownBy(p) /\ CRD \in there THEN policies ELSE {}
  <2>1. pc[p] = "list" /\ req[p].op = "uninstall" /\ req[p] \in Requests[p]
    BY <1>1, <1>10 DEF ListPolicies, At, AtWork, Removing
  <2>2. found \subseteq Policies /\ IsFiniteSet(found)
    BY ConstantsAssumption, FS_Subset DEF TypeOK, ConstantsAssumption
  <2>3. SetToSeq(found) \in Seq(Policies) /\ (found # {} => SetToSeq(found) # <<>>)
    BY <2>2, Listed, SeqMonotonic
  <2>4. /\ left' = [left EXCEPT ![p] = SetToSeq(found)]
        /\ pc' = [pc EXCEPT ![p] = IF found = {} THEN "ok" ELSE "purge"]
    BY <1>10 DEF ListPolicies, Goto
  <2> HIDE DEF found
  <2>5. CASE found = {}
    BY <1>1, <1>3, <2>4, <2>5
  <2>6. CASE found # {}
    <3>1. pc'[p] = "purge" /\ left'[p] = SetToSeq(found)
      BY <1>1, <2>4, <2>6
    <3> QED
      BY <1>2, <2>1, <2>3, <2>6, <3>1 DEF AtWork, Installing, Removing
  <2> QED
    BY <2>5, <2>6
<1>11. ASSUME pc[p] \in {"put", "take", "purge"}, Proceed(p, "ok")
       PROVE  AtWork(p)'
  <2>1. left[p] \in Seq(Policies) /\ left[p] # <<>>
    BY <1>1, <1>11 DEF AtWork
  <2>2. /\ left'[p] = Tail(left[p])
        /\ \/ pc'[p] = "ok"
           \/ left'[p] # <<>> /\ pc'[p] = pc[p]
    BY <1>1, <1>4, <1>11, <2>1, Proceeding
  <2>3. Tail(left[p]) \in Seq(Policies)
    BY <2>1, Popped
  <2>4. CASE left'[p] # <<>> /\ pc'[p] = pc[p]
    BY <1>1, <1>2, <1>11, <2>2, <2>3, <2>4 DEF AtWork
  <2> QED
    BY <1>3, <2>2, <2>4
<1>12. CASE PurgePolicy(p)
  BY <1>11, <1>12 DEF PurgePolicy, At
<1>13. CASE PutPolicy(p)
  BY <1>5, <1>11, <1>13 DEF PutPolicy, At
<1>14. CASE TakePolicy(p)
  BY <1>5, <1>11, <1>14 DEF TakePolicy, At
<1>15. CASE RequestFails(p)
  BY <1>5, <1>15 DEF RequestFails
<1>16. CASE Kill(p)
  BY <1>5, <1>16 DEF Kill
<1> QED
  BY <1>6, <1>7, <1>8, <1>9, <1>10, <1>12, <1>13, <1>14, <1>15, <1>16 DEF Step

\* Every step leaves every command with the work that fits it.
LEMMA WorkStep == ObjectsInv /\ [Next]_vars => WorkTyped'
<1> SUFFICES ASSUME ObjectsInv, [Next]_vars
             PROVE  WorkTyped'
  OBVIOUS
<1>1. /\ TypeOK /\ WorkTyped /\ req \in [Procs -> Request \cup {NoRequest}]
      /\ known \in [Procs -> (SUBSET Kinds) \cup {Undiscovered}]
      /\ \A q \in Procs : AtWork(q)
  BY DEF ObjectsInv, WorkTyped
<1>2. ASSUME NEW q \in Procs, pc'[q] = pc[q], left'[q] = left[q], req'[q] = req[q]
      PROVE  AtWork(q)'
  <2>1. Work(req'[q]) = Work(req[q])
    BY <1>2
  <2> QED
    BY <1>1, <1>2, <2>1 DEF AtWork, Work
<1>3. ASSUME NEW p \in Procs, Step(p) \/ Kill(p)
      PROVE  WorkTyped'
  <2>1. /\ known' \in [Procs -> (SUBSET Kinds) \cup {Undiscovered}]
        /\ \A q \in Procs \ {p} : pc'[q] = pc[q] /\ left'[q] = left[q]
        /\ req' = req
    BY <1>1, <1>3, OthersStay
  <2>2. AtWork(p)'
    BY <1>1, <1>3, OwnWork
  <2>3. ASSUME NEW q \in Procs \ {p}
        PROVE  AtWork(q)'
    BY <1>2, <2>1
  <2> QED
    BY <1>1, <2>1, <2>2, <2>3 DEF WorkTyped
<1>4. ASSUME NEW p \in Procs, NEW r \in Requests[p], Begin(p, r)
      PROVE  WorkTyped'
  <2>1. /\ known' \in [Procs -> (SUBSET Kinds) \cup {Undiscovered}]
        /\ req' \in [Procs -> Request \cup {NoRequest}]
        /\ \A q \in Procs \ {p} : pc'[q] = pc[q] /\ left'[q] = left[q] /\ req'[q] = req[q]
        /\ req'[p] = r /\ pc'[p] = FirstPoint(r) /\ left'[p] = Work(r)
    BY <1>1, <1>4, Beginning
  <2>2. ASSUME NEW q \in Procs \ {p}
        PROVE  AtWork(q)'
    BY <1>2, <2>1
  <2>3. AtWork(p)'
    <3>1. CASE r.op = "install"
      <4>1. pc'[p] = "apply" /\ left'[p] = k8sManifestsWithoutWebhook
        BY <2>1, <3>1, Assigned
      <4> QED
        BY <2>1, <3>1, <4>1, InstallWork DEF AtWork, Installing, Removing
    <3>2. CASE r.op = "uninstall"
      <4>1. pc'[p] = "remove" /\ left'[p] = Reverse(k8sManifests)
        BY <2>1, <3>2, Assigned
      <4>2. Len(left'[p]) <= Len(Work(req'[p]))
        BY <2>1, <3>2, <4>1, UninstallWork
      <4> QED
        BY <2>1, <3>2, <4>1, <4>2, UninstallWork DEF AtWork, Installing, Removing, Work
    <3>3. CASE r.op \in {"apply", "delete"}
      <4>1. /\ pc'[p] = IF r.op = "apply" THEN "put" ELSE "take"
            /\ left'[p] \in Seq(Policies) /\ left'[p] # <<>>
        BY <2>1, <3>3, Assigned
      <4> QED
        BY <2>1, <3>3, <4>1 DEF AtWork, Installing, Removing
    <3> QED
      BY <3>1, <3>2, <3>3, Assigned
  <2> QED
    BY <2>1, <2>2, <2>3 DEF WorkTyped
<1>5. ASSUME UNCHANGED <<pc, left, req, known>>
      PROVE  WorkTyped'
  BY <1>1, <1>2, <1>5 DEF WorkTyped
<1> QED
  BY <1>3, <1>4, <1>5 DEF Next, EmptyNamespace, EmptyCRD, CertManagerComes, Kkctls, vars

\* A command that is undisturbed after a step of some command took that step, and
\* was undisturbed before.
LEMMA StillUndisturbed ==
    ASSUME ObjectsInv, NEW p \in Procs, Step(p) \/ Kill(p),
           NEW q \in Procs, Undisturbed(q)'
    PROVE  q = p /\ Undisturbed(p)
<1>1. TypeOK /\ WorkTyped /\ Alone
  BY DEF ObjectsInv
<1>2. /\ pc[p] \in Busy
      /\ \A o \in Procs \ {p} : pc'[o] = pc[o]
      /\ req' = req /\ solo' = solo /\ calm' = calm /\ (orderly' => orderly)
  BY <1>1, OthersStay
<1>3. q = p
  <2> SUFFICES ASSUME q # p
               PROVE  FALSE
    OBVIOUS
  <2>1. Undisturbed(q)
    BY <1>2 DEF Undisturbed
  <2> QED
    BY <1>1, <1>2, <2>1 DEF Alone
<1>4. AtWork(p) /\ AtWork(p)'
  BY <1>1, OwnWork DEF WorkTyped
<1>5. req[p].op # "uninstall" /\ ((solo[p] /\ calm[p]) \/ (orderly /\ pc'[p] \in Installing))
  BY <1>2, <1>3 DEF Undisturbed
<1>6. pc'[p] \in Installing => pc[p] \in Installing
  <2> SUFFICES ASSUME pc'[p] \in Installing
               PROVE  pc[p] \in Installing
    OBVIOUS
  <2>1. req[p].op = "install"
    BY <1>2, <1>4 DEF AtWork
  <2> QED
    BY <1>2, <1>4, <2>1 DEF AtWork, Busy, Installing, Removing
<1> QED
  BY <1>2, <1>3, <1>5, <1>6 DEF Undisturbed

\* Whoever can count on being alone is, and nothing terminates meanwhile.
LEMMA AloneStep == ObjectsInv /\ [Next]_vars => Alone'
<1> SUFFICES ASSUME ObjectsInv, [Next]_vars
             PROVE  Alone'
  OBVIOUS
<1>1. TypeOK /\ WorkTyped /\ Alone
  BY DEF ObjectsInv
<1>2. ASSUME NEW p \in Procs, Step(p) \/ Kill(p), NEW q \in Procs, Undisturbed(q)'
      PROVE  ending' = {} /\ \A o \in Procs \ {q} : pc'[o] \notin Busy
  <2>1. q = p /\ Undisturbed(p)
    BY <1>2, StillUndisturbed
  <2>2. /\ ending = {} /\ \A o \in Procs \ {p} : pc[o] \notin Busy
        /\ \A o \in Procs \ {p} : pc'[o] = pc[o]
    BY <1>1, <1>2, <2>1, OthersStay DEF Alone
  <2>3. AtWork(p) /\ req[p].op # "uninstall"
    BY <1>1, <2>1 DEF WorkTyped, Undisturbed
  <2>4. ~RemoveObject(p)
    BY <2>3 DEF RemoveObject, At, AtWork, Removing
  <2>5. ending' = ending
    BY <1>2, <2>4 DEF Step, ApplyObject, Rollout, ShowStatus, RemoveFails, ListPolicies,
       PurgePolicy, PutPolicy, TakePolicy, RequestFails, Kill, clusterVars
  <2> QED
    BY <2>1, <2>2, <2>5
<1>3. ASSUME NEW p \in Procs, NEW r \in Requests[p], Begin(p, r), NEW q \in Procs, Undisturbed(q)'
      PROVE  ending' = {} /\ \A o \in Procs \ {q} : pc'[o] \notin Busy
  <2>1. /\ \A o \in Procs \ {p} : pc'[o] = pc[o] /\ req'[o] = req[o]
        /\ \A o \in Procs \ {p} : solo'[o] => req[o].op = "uninstall"
        /\ (solo'[p] /\ r.op # "uninstall") => \A o \in Procs \ {p} : pc[o] \notin Busy
        /\ calm'[p] => ending = {}
        /\ orderly' => /\ \A o \in Procs \ {p} : pc[o] \notin Busy
                       /\ r.op = "install" => ending = {}
        /\ req'[p] = r /\ pc'[p] = FirstPoint(r)
    BY <1>1, <1>3, Beginning
  <2>2. ending' = ending
    BY <1>3 DEF Begin, clusterVars
  <2>3. Installing \subseteq Busy
    BY DEF Installing, Busy
  <2>4. q = p
    BY <1>3, <2>1, <2>3 DEF Undisturbed
  <2>5. r.op # "uninstall" /\ ((solo'[p] /\ calm'[p]) \/ (orderly' /\ pc'[p] \in Installing))
    BY <1>3, <2>1, <2>4 DEF Undisturbed
  <2>6. pc'[p] \in Installing => r.op = "install"
    BY <1>3, <2>1, Assigned DEF Installing
  <2> QED
    BY <2>1, <2>2, <2>4, <2>5, <2>6
<1>4. ASSUME EmptyNamespace \/ EmptyCRD, NEW q \in Procs, Undisturbed(q)'
      PROVE  FALSE
  <2>1. ending # {} /\ UNCHANGED <<pc, req, solo, calm, orderly>>
    BY <1>4 DEF EmptyNamespace, EmptyCRD, Kkctls, history
  <2>2. Undisturbed(q)
    BY <1>4, <2>1 DEF Undisturbed
  <2> QED
    BY <1>1, <2>1, <2>2 DEF Alone
<1>5. ASSUME UNCHANGED <<pc, req, solo, calm, orderly, ending>>, NEW q \in Procs, Undisturbed(q)'
      PROVE  ending' = {} /\ \A o \in Procs \ {q} : pc'[o] \notin Busy
  <2>1. Undisturbed(q)
    BY <1>5 DEF Undisturbed
  <2> QED
    BY <1>1, <1>5, <2>1 DEF Alone
<1>6. CertManagerComes \/ UNCHANGED vars => UNCHANGED <<pc, req, solo, calm, orderly, ending>>
  BY DEF CertManagerComes, Kkctls, history, vars
<1> QED
  BY <1>2, <1>3, <1>4, <1>5, <1>6 DEF Next, Alone

\* As long as all is in order, one command runs at a time.
LEMMA OneAtATimeStep == ObjectsInv /\ [Next]_vars => OneAtATime'
<1> SUFFICES ASSUME ObjectsInv, [Next]_vars
             PROVE  OneAtATime'
  OBVIOUS
<1>1. TypeOK /\ WorkTyped /\ OneAtATime
  BY DEF ObjectsInv
<1>2. ASSUME NEW p \in Procs, Step(p) \/ Kill(p)
      PROVE  OneAtATime'
  <2>1. /\ pc[p] \in Busy /\ (orderly' => orderly)
        /\ \A q \in Procs \ {p} : pc'[q] = pc[q]
    BY <1>1, <1>2, OthersStay
  <2> QED
    BY <1>1, <2>1 DEF OneAtATime
<1>3. ASSUME NEW p \in Procs, NEW r \in Requests[p], Begin(p, r)
      PROVE  OneAtATime'
  <2>1. /\ \A q \in Procs \ {p} : pc'[q] = pc[q]
        /\ orderly' => \A q \in Procs \ {p} : pc[q] \notin Busy
    BY <1>1, <1>3, Beginning
  <2> QED
    BY <2>1 DEF OneAtATime
<1>4. ASSUME UNCHANGED <<pc, orderly>>
      PROVE  OneAtATime'
  BY <1>1, <1>4 DEF OneAtATime
<1> QED
  BY <1>2, <1>3, <1>4
  DEF Next, EmptyNamespace, EmptyCRD, CertManagerComes, Kkctls, history, vars

\* A step of an undisturbed command takes off its loop what it has done.
LEMMA OwnProgress ==
    ASSUME ObjectsInv, NEW p \in Procs, Step(p) \/ Kill(p), Undisturbed(p), Undisturbed(p)'
    PROVE  DoneSoFar(p)'
<1>1. /\ TypeOK /\ WorkTyped /\ DoneSoFar(p) /\ AtWork(p)
      /\ pc \in [Procs -> Points] /\ left \in [Procs -> Seq(Objects \cup Policies)]
  BY DEF ObjectsInv, WorkTyped, Progress, TypeOK
<1>2. /\ pc[p] \in Busy /\ req'[p] = req[p] /\ req[p].op # "uninstall"
      /\ pc'[p] \in Busy \cup {"ok"}
  BY <1>1, OthersStay DEF Undisturbed
<1>3. "failed" \notin Busy \cup {"ok"} /\ "killed" \notin Busy \cup {"ok"}
      /\ {"rollout", "status", "ok", "failed", "killed"} \subseteq Points
  BY DEF Busy, Points, Ended
<1>4. ToSet(<<>>) = {}
  BY DEF ToSet
<1>5. ASSUME NEW point \in {"failed", "killed"}, GiveUp(p, point)
      PROVE  FALSE
  BY <1>1, <1>2, <1>3, <1>5, GivingUp
<1>6. CASE ApplyObject(p)
  <2>1. /\ pc[p] \in {"apply", "hook"} /\ req[p].op = "install"
        /\ left[p] \in Seq(Objects) /\ left[p] # <<>>
    BY <1>1, <1>6 DEF ApplyObject, At, AtWork, Installing
  <2>2. /\ there' = there \cup {Current(p)}
        /\ Proceed(p, IF At(p, "apply") THEN "rollout" ELSE "status")
    BY <1>5, <1>6 DEF ApplyObject
  <2>3. ToSet(left[p]) = {Current(p)} \cup ToSet(Tail(left[p]))
    BY <2>1, Popped DEF Current
  <2>4. CASE pc[p] = "apply"
    <3>1. Proceed(p, "rollout")
      BY <2>2, <2>4 DEF At
    <3>2. /\ left'[p] = Tail(left[p])
          /\ (left'[p] = <<>> /\ pc'[p] = "rollout") \/ pc'[p] = "apply"
      BY <1>1, <1>3, <2>1, <2>4, <3>1, Proceeding
    <3>3. ToSet(k8sManifestsWithoutWebhook) \subseteq there' \cup ToSet(left'[p])
      BY <1>1, <2>2, <2>3, <2>4, <3>2 DEF DoneSoFar
    <3>4. pc'[p] # "apply" => ToSet(k8sManifestsWithoutWebhook) \subseteq there'
      BY <1>4, <3>2, <3>3
    <3> QED
      BY <1>2, <2>1, <3>2, <3>3, <3>4 DEF DoneSoFar
  <2>5. CASE pc[p] = "hook"
    <3>1. Proceed(p, "status")
      BY <2>2, <2>5 DEF At
    <3>2. /\ left'[p] = Tail(left[p])
          /\ (left'[p] = <<>> /\ pc'[p] = "status") \/ pc'[p] = "hook"
      BY <1>1, <1>3, <2>1, <2>5, <3>1, Proceeding
    <3>3. /\ ToSet(manifestWebhook) \subseteq there' \cup ToSet(left'[p])
          /\ ToSet(k8sManifestsWithoutWebhook) \subseteq there'
      BY <1>1, <2>1, <2>2, <2>3, <2>5, <3>2 DEF DoneSoFar
    <3>4. pc'[p] # "hook" => ToSet(manifestWebhook) \subseteq there'
      BY <1>4, <3>2, <3>3
    <3> QED
      BY <1>2, <2>1, <3>2, <3>3, <3>4 DEF DoneSoFar
  <2> QED
    BY <2>1, <2>4, <2>5
<1>7. CASE Rollout(p)
  <2>1. pc[p] = "rollout" /\ req[p].op = "install" /\ there' = there
    BY <1>1, <1>7 DEF Rollout, At, AtWork, Installing
  <2>2. pc'[p] # "failed"
    BY <1>2, <1>3
  <2>3. /\ pc' = [pc EXCEPT ![p] = IF req[p].hook THEN "hook" ELSE "status"]
        /\ left' = [left EXCEPT ![p] = IF req[p].hook THEN manifestWebhook ELSE <<>>]
    BY <1>1, <1>7, <2>2 DEF Rollout, Goto
  <2>4. ToSet(k8sManifestsWithoutWebhook) \subseteq there'
    BY <1>1, <2>1 DEF DoneSoFar
  <2>5. CASE req[p].hook
    <3>1. pc'[p] = "hook" /\ left'[p] = manifestWebhook
      BY <1>1, <2>3, <2>5
    <3> QED
      BY <1>2, <2>1, <2>4, <3>1 DEF DoneSoFar
  <2>6. CASE ~req[p].hook
    <3>1. pc'[p] = "status"
      BY <1>1, <2>3, <2>6
    <3> QED
      BY <1>2, <2>1, <2>4, <2>6, <3>1 DEF DoneSoFar
  <2> QED
    BY <2>5, <2>6
<1>8. CASE ShowStatus(p)
  <2>1. /\ pc[p] = "status" /\ req[p].op = "install" /\ there' = there
        /\ pc'[p] \in {"ok", "failed"}
    BY <1>1, <1>8 DEF ShowStatus, At, AtWork, Installing, Goto
  <2> QED
    BY <1>1, <1>2, <2>1 DEF DoneSoFar
<1>9. CASE RemoveObject(p) \/ RemoveFails(p) \/ ListPolicies(p) \/ PurgePolicy(p)
  <2>1. pc[p] \in Removing
    BY <1>9 DEF RemoveObject, RemoveFails, ListPolicies, PurgePolicy, At, Removing
  <2> QED
    BY <1>1, <1>2, <2>1 DEF AtWork
<1>10. ASSUME pc[p] \in {"put", "take"}, Proceed(p, "ok")
       PROVE  /\ left'[p] = Tail(left[p])
              /\ (left'[p] = <<>> /\ pc'[p] = "ok") \/ pc'[p] = pc[p]
              /\ ToSet(left[p]) = {Current(p)} \cup ToSet(left'[p])
  <2>1. left[p] \in Seq(Policies) /\ left[p] # <<>>
    BY <1>1, <1>10 DEF AtWork
  <2>2. /\ left'[p] = Tail(left[p])
        /\ (left'[p] = <<>> /\ pc'[p] = "ok") \/ pc'[p] = pc[p]
    BY <1>1, <1>3, <1>10, <2>1, Proceeding
  <2> QED
    BY <2>1, <2>2, Popped DEF Current
<1>11. CASE PutPolicy(p)
  <2>1. pc[p] = "put" /\ req[p].op = "apply"
    BY <1>1, <1>11 DEF PutPolicy, At, AtWork
  <2>2. policies' = policies \cup {Current(p)} /\ Proceed(p, "ok")
    BY <1>5, <1>11 DEF PutPolicy
  <2>3. /\ (left'[p] = <<>> /\ pc'[p] = "ok") \/ pc'[p] = "put"
        /\ ToSet(left[p]) = {Current(p)} \cup ToSet(left'[p])
    BY <1>10, <2>1, <2>2
  <2>4. ToSet(req[p].list) \subseteq policies' \cup ToSet(left'[p])
    BY <1>1, <2>1, <2>2, <2>3 DEF DoneSoFar
  <2>5. pc'[p] = "ok" => ToSet(req[p].list) \subseteq policies'
    BY <1>4, <2>3, <2>4
  <2> QED
    BY <1>2, <2>1, <2>3, <2>4, <2>5 DEF DoneSoFar
<1>12. CASE TakePolicy(p)
  <2>1. pc[p] = "take" /\ req[p].op = "delete"
    BY <1>1, <1>12 DEF TakePolicy, At, AtWork
  <2>2. policies' = policies \ {Current(p)} /\ Proceed(p, "ok")
    BY <1>5, <1>12 DEF TakePolicy
  <2>3. /\ (left'[p] = <<>> /\ pc'[p] = "ok") \/ pc'[p] = "take"
        /\ ToSet(left[p]) = {Current(p)} \cup ToSet(left'[p])
    BY <1>10, <2>1, <2>2
  <2>4. ToSet(req[p].list) \cap policies' \subseteq ToSet(left'[p])
    BY <1>1, <2>1, <2>2, <2>3 DEF DoneSoFar
  <2>5. pc'[p] = "ok" => ToSet(req[p].list) \cap policies' = {}
    BY <1>4, <2>3, <2>4
  <2> QED
    BY <1>2, <2>1, <2>3, <2>4, <2>5 DEF DoneSoFar
<1>13. CASE RequestFails(p) \/ Kill(p)
  BY <1>5, <1>13 DEF RequestFails, Kill
<1> QED
  BY <1>6, <1>7, <1>8, <1>9, <1>11, <1>12, <1>13 DEF Step

\* What an undisturbed command has done stays done.
LEMMA ProgressStep == ObjectsInv /\ [Next]_vars => Progress'
<1> SUFFICES ASSUME ObjectsInv, [Next]_vars
             PROVE  Progress'
  OBVIOUS
<1>1. TypeOK /\ WorkTyped /\ Alone /\ Progress
  BY DEF ObjectsInv
<1>2. ASSUME NEW p \in Procs, Step(p) \/ Kill(p), NEW q \in Procs, Undisturbed(q)'
      PROVE  DoneSoFar(q)'
  <2>1. q = p /\ Undisturbed(p)
    BY <1>2, StillUndisturbed
  <2> QED
    BY <1>2, <2>1, OwnProgress
<1>3. ASSUME NEW p \in Procs, NEW r \in Requests[p], Begin(p, r), NEW q \in Procs, Undisturbed(q)'
      PROVE  DoneSoFar(q)'
  <2>1. /\ \A o \in Procs \ {p} : pc'[o] = pc[o] /\ req'[o] = req[o]
        /\ \A o \in Procs \ {p} : solo'[o] => req[o].op = "uninstall"
        /\ orderly' => \A o \in Procs \ {p} : pc[o] \notin Busy
        /\ req'[p] = r /\ pc'[p] = FirstPoint(r) /\ left'[p] = Work(r)
    BY <1>1, <1>3, Beginning
  <2>2. Installing \subseteq Busy
    BY DEF Installing, Busy
  <2>3. q = p
    BY <1>3, <2>1, <2>2 DEF Undisturbed
  <2>4. \/ r.op = "install" /\ pc'[p] = "apply" /\ left'[p] = k8sManifestsWithoutWebhook
        \/ r.op = "uninstall" /\ pc'[p] = "remove"
        \/ r.op = "apply" /\ pc'[p] = "put" /\ left'[p] = r.list
        \/ r.op = "delete" /\ pc'[p] = "take" /\ left'[p] = r.list
    BY <2>1, Assigned
  <2> QED
    BY <2>1, <2>3, <2>4 DEF DoneSoFar
<1>4. ASSUME EmptyNamespace \/ EmptyCRD, NEW q \in Procs, Undisturbed(q)'
      PROVE  FALSE
  <2>1. ending # {} /\ UNCHANGED <<pc, req, solo, calm, orderly>>
    BY <1>4 DEF EmptyNamespace, EmptyCRD, Kkctls, history
  <2>2. Undisturbed(q)
    BY <1>4, <2>1 DEF Undisturbed
  <2> QED
    BY <1>1, <2>1, <2>2 DEF Alone
<1>5. ASSUME UNCHANGED <<pc, req, left, solo, calm, orderly, there, policies>>,
             NEW q \in Procs, Undisturbed(q)'
      PROVE  DoneSoFar(q)'
  <2>1. Undisturbed(q)
    BY <1>5 DEF Undisturbed
  <2>2. DoneSoFar(q)
    BY <1>1, <2>1 DEF Progress
  <2> QED
    BY <1>5, <2>2 DEF DoneSoFar
<1>6. CertManagerComes \/ UNCHANGED vars
         => UNCHANGED <<pc, req, left, solo, calm, orderly, there, policies>>
  BY DEF CertManagerComes, Kkctls, history, vars
<1> QED
  BY <1>2, <1>3, <1>4, <1>5, <1>6 DEF Next, Progress

\* What a deletion does to the cluster.
LEMMA Removal ==
    ASSUME ObjectsInv, NEW p \in Procs, RemoveObject(p)
    PROVE  /\ pc[p] = "remove" /\ req' = req /\ (orderly' => orderly)
           /\ left[p] \in Seq(Objects) /\ left[p] # <<>> /\ Downward(left[p])
           /\ left'[p] = Tail(left[p]) /\ ToSet(left[p]) = {Current(p)} \cup ToSet(left'[p])
           /\ \A x \in ToSet(left'[p]) : <<x, Current(p)>> \notin Needs
           /\ Len(left'[p]) < Len(Work(req[p]))
           /\ left'[p] # <<>> => pc'[p] = "remove"
           /\ \/ there' = there /\ ending' = ending /\ Current(p) = "Certificate"
              \/ there' = there /\ ending' = ending \cup ({Current(p)} \cap there)
                 /\ Current(p) \in {Namespace, CRD}
              \/ there' = there \ {Current(p)} /\ ending' = ending
                 /\ Current(p) \notin {Namespace, CRD}
<1>1. /\ TypeOK /\ WorkTyped /\ AtWork(p) /\ pc[p] = "remove"
      /\ pc \in [Procs -> Points] /\ left \in [Procs -> Seq(Objects \cup Policies)]
  BY DEF ObjectsInv, WorkTyped, TypeOK, RemoveObject, At
<1>2. req' = req /\ (orderly' => orderly)
  BY <1>1, OthersStay DEF Step
<1>3. /\ left[p] \in Seq(Objects) /\ left[p] # <<>> /\ Downward(left[p])
      /\ Len(left[p]) <= Len(Work(req[p])) /\ req[p] \in Requests[p]
  BY <1>1 DEF AtWork
<1>4. Proceed(p, IF req[p].purge THEN "list" ELSE "ok") /\ {"list", "ok"} \subseteq Points
  BY DEF RemoveObject, Points, Busy, Ended
<1>5. left'[p] = Tail(left[p]) /\ (left'[p] # <<>> => pc'[p] = "remove")
  BY <1>1, <1>3, <1>4, Proceeding
<1>6. /\ ToSet(left[p]) = {Current(p)} \cup ToSet(left'[p])
      /\ \A x \in ToSet(left'[p]) : <<x, Current(p)>> \notin Needs
      /\ Len(left'[p]) = Len(left[p]) - 1
  BY <1>3, <1>5, Popped, HeadTailProperties DEF Current
<1>7. Len(Work(req[p])) \in Nat /\ Len(left[p]) \in Nat
  BY <1>3, Assigned, LenProperties
<1>8. Len(left'[p]) < Len(Work(req[p]))
  BY <1>3, <1>6, <1>7
<1>9. \/ there' = there /\ ending' = ending /\ Current(p) = "Certificate"
      \/ there' = there /\ ending' = ending \cup ({Current(p)} \cap there)
         /\ Current(p) \in {Namespace, CRD}
      \/ there' = there \ {Current(p)} /\ ending' = ending
         /\ Current(p) \notin {Namespace, CRD}
  BY DEF RemoveObject, Mapped, Deletes
<1> QED
  BY <1>1, <1>2, <1>3, <1>5, <1>6, <1>8, <1>9

\* Only a deletion that the server answers takes anything from the cluster, and only an
\* install adds to it, the object its loop is at.
LEMMA OthersKeepObjects ==
    ASSUME ObjectsInv, NEW p \in Procs, Step(p) \/ Kill(p), ~RemoveObject(p)
    PROVE  /\ ending' = ending
           /\ \/ there' = there
              \/ /\ pc[p] \in {"apply", "hook"} /\ there' = there \cup {Current(p)}
  BY DEF Step, Kill, ApplyObject, Rollout, ShowStatus, RemoveFails, ListPolicies,
         PurgePolicy, PutPolicy, TakePolicy, RequestFails, Frame, clusterVars, At

\* An orderly uninstall leaves behind none of the users it has come past.
LEMMA RemovedSoFarStep == ObjectsInv /\ [Next]_vars => RemovedSoFar'
<1> SUFFICES ASSUME ObjectsInv, [Next]_vars, orderly',
                    NEW q \in Procs, pc'[q] = "remove"
             PROVE  Users \cap there' \subseteq ToSet(left'[q])
  BY DEF RemovedSoFar
<1>1. TypeOK /\ WorkTyped /\ OneAtATime /\ RemovedSoFar
  BY DEF ObjectsInv
<1>2. "remove" \in Busy
  BY DEF Busy
<1>3. ASSUME NEW p \in Procs, Step(p) \/ Kill(p)
      PROVE  Users \cap there' \subseteq ToSet(left'[q])
  <2>1. /\ pc[p] \in Busy /\ orderly /\ req' = req
        /\ \A o \in Procs \ {p} : pc'[o] = pc[o]
    BY <1>1, <1>3, OthersStay
  <2>2. q = p
    BY <1>1, <1>2, <2>1 DEF OneAtATime
  <2>3. AtWork(p) /\ AtWork(p)'
    BY <1>1, <1>3, OwnWork DEF WorkTyped
  <2>4. req[p].op = "uninstall"
    BY <2>1, <2>2, <2>3 DEF AtWork, Removing
  <2>5. pc[p] \in Removing
    BY <2>1, <2>3, <2>4 DEF AtWork, Busy, Installing, Removing
  <2>6. CASE RemoveObject(p)
    <3>1. /\ pc[p] = "remove" /\ ToSet(left[p]) = {Current(p)} \cup ToSet(left'[p])
          /\ \/ there' = there /\ Current(p) = "Certificate"
             \/ there' = there /\ Current(p) \in {Namespace, CRD}
             \/ there' = there \ {Current(p)}
      BY <2>6, Removal
    <3>2. Users \cap there \subseteq ToSet(left[p])
      BY <1>1, <2>1, <3>1 DEF RemovedSoFar
    <3>3. Current(p) \notin Users \/ there' = there \ {Current(p)}
      BY <3>1 DEF Users, Namespace, CRD
    <3> QED
      BY <2>2, <3>1, <3>2, <3>3
  <2>7. CASE ~RemoveObject(p)
    <3>1. ~RemoveFails(p) /\ ~RequestFails(p) /\ ~Kill(p)
      <4>1. ~RemoveFails(p)
        BY DEF RemoveFails
      <4>2. ASSUME NEW point \in {"failed", "killed"}
            PROVE  ~GiveUp(p, point)
        BY <1>1, <2>2 DEF GiveUp, Goto, TypeOK
      <4> QED
        BY <4>1, <4>2 DEF RequestFails, Kill
    <3>2. ListPolicies(p) \/ PurgePolicy(p)
      BY <1>3, <2>5, <2>7, <3>1 DEF Step, ApplyObject, Rollout, ShowStatus, PutPolicy,
         TakePolicy, At, Removing
    <3>3. pc'[p] # "remove"
      <4>1. CASE ListPolicies(p)
        BY <1>1, <4>1 DEF ListPolicies, Goto, TypeOK
      <4>2. CASE PurgePolicy(p)
        <5>1. pc[p] = "purge" /\ Proceed(p, "ok")
          BY <4>2 DEF PurgePolicy, At
        <5> QED
          BY <1>1, <5>1 DEF Proceed, Goto, TypeOK
      <4> QED
        BY <3>2, <4>1, <4>2
    <3> QED
      BY <2>2, <3>3
  <2> QED
    BY <2>6, <2>7
<1>4. ASSUME NEW p \in Procs, NEW r \in Requests[p], Begin(p, r)
      PROVE  Users \cap there' \subseteq ToSet(left'[q])
  <2>1. /\ \A o \in Procs \ {p} : pc'[o] = pc[o] /\ pc[o] \notin Busy
        /\ pc'[p] = FirstPoint(r) /\ left'[p] = Work(r)
    BY <1>1, <1>4, Beginning
  <2>2. q = p /\ FirstPoint(r) = "remove"
    BY <1>2, <2>1
  <2> QED
    BY <2>1, <2>2, Assigned, UninstallWork
<1>5. ASSUME UNCHANGED <<pc, left, orderly>>, there' \subseteq there
      PROVE  Users \cap there' \subseteq ToSet(left'[q])
  BY <1>1, <1>5 DEF RemovedSoFar
<1>6. ASSUME EmptyNamespace \/ EmptyCRD \/ CertManagerComes \/ UNCHANGED vars
      PROVE  UNCHANGED <<pc, left, orderly>> /\ there' \subseteq there
  BY <1>6 DEF EmptyNamespace, EmptyCRD, CertManagerComes, Kkctls, history, vars
<1> QED
  BY <1>3, <1>4, <1>5, <1>6 DEF Next

\* An orderly deletion takes nothing away that something still there needs.
LEMMA RemovalKeepsNeeded ==
    ASSUME ObjectsInv, NEW p \in Procs, RemoveObject(p)
    PROVE  NeededStay'
<1> SUFFICES ASSUME orderly'
             PROVE  NeededStay'
  BY DEF NeededStay
<1> DEFINE c == Current(p)
<1>1. /\ pc[p] = "remove" /\ req' = req /\ orderly
      /\ ToSet(left[p]) = {c} \cup ToSet(left'[p])
      /\ \A x \in ToSet(left'[p]) : <<x, c>> \notin Needs
      /\ Len(left'[p]) < Len(Work(req[p])) /\ (left'[p] # <<>> => pc'[p] = "remove")
      /\ \/ there' = there /\ ending' = ending /\ c = "Certificate"
         \/ there' = there /\ ending' = ending \cup ({c} \cap there) /\ c \in {Namespace, CRD}
         \/ there' = there \ {c} /\ ending' = ending /\ c \notin {Namespace, CRD}
  BY Removal
<1>2. RemovedSoFar /\ NeededStay
  BY DEF ObjectsInv
<1>3. Users \cap there \subseteq {c} \cup ToSet(left'[p])
  BY <1>1, <1>2 DEF RemovedSoFar
<1> HIDE DEF c
<1>4. \A x, y : x \in there /\ x # c /\ <<x, y>> \in Needs => y # c
  BY <1>1, <1>3 DEF Needs, Users
<1>5. /\ there' \subseteq there /\ ending' \subseteq ending \cup ({c} \cap there)
      /\ \A x \in there : x # c => x \in there'
      /\ \A x \in Users \cap there' : x # c
  BY <1>1 DEF Users, Namespace, CRD
<1>6. ASSUME there' \cap Workloads # {}
      PROVE  CRD \in there' /\ CRD \notin ending'
  <2>1. PICK x \in Workloads : x \in there'
    BY <1>6
  <2>2. x \in Users /\ <<x, CRD>> \in Needs
    BY DEF Needs, Users, Workloads
  <2>3. x \in there /\ x # c
    BY <1>5, <2>1, <2>2
  <2>4. CRD # c /\ CRD \in there /\ CRD \notin ending
    BY <1>1, <1>2, <1>4, <2>2, <2>3 DEF NeededStay
  <2> QED
    BY <1>5, <2>4
<1>7. ASSUME NEW x, NEW role, <<x, role>> \in {<<"Operator", "OperatorRole">>,
                                               <<"Agent", "AgentRole">>}, x \in there'
      PROVE  role \in there'
  <2>1. x \in Users /\ <<x, role>> \in Needs
    BY <1>7 DEF Needs, Users
  <2>2. x \in there /\ x # c
    BY <1>5, <1>7, <2>1
  <2>3. role # c /\ role \in there
    BY <1>1, <1>2, <1>4, <1>7, <2>1, <2>2 DEF NeededStay
  <2> QED
    BY <1>5, <2>3
<1>8. ASSUME "WebhookConfiguration" \in there'
      PROVE  HookToGo' /\ ("WebhookService" \in there' \/ ~Holds(Namespace)')
  <2>1. /\ "WebhookConfiguration" \in Users
        /\ <<"WebhookConfiguration", "WebhookService">> \in Needs
    BY DEF Needs, Users
  <2>2. "WebhookConfiguration" \in there /\ "WebhookConfiguration" # c
    BY <1>5, <1>8, <2>1
  <2>3. "WebhookConfiguration" \in ToSet(left'[p])
    BY <1>3, <2>1, <2>2
  <2>4. left'[p] # <<>>
    BY <2>3 DEF ToSet
  <2>5. Work(req'[p]) = Work(req[p])
    BY <1>1
  <2>6. HookToGo'
    BY <1>1, <2>3, <2>4, <2>5 DEF HookToGo, Work
  <2>7. "WebhookService" # c
    BY <1>4, <2>1, <2>2
  <2>8. "WebhookService" \in there \/ ~Holds(Namespace)
    BY <1>1, <1>2, <2>2 DEF NeededStay
  <2>9. ~Holds(Namespace) => ~Holds(Namespace)'
    BY <1>1, <1>5 DEF Holds
  <2> QED
    BY <1>5, <2>6, <2>7, <2>8, <2>9
<1> QED
  BY <1>6, <1>7, <1>8 DEF NeededStay

\* An orderly install makes nothing before what it needs.
LEMMA AdditionKeepsNeeded ==
    ASSUME ObjectsInv, NEW p \in Procs, Step(p) \/ Kill(p), orderly, orderly',
           pc[p] \in {"apply", "hook"}, ending' = ending, there' = there \cup {Current(p)}
    PROVE  NeededStay'
<1> DEFINE c == Current(p)
<1>1. /\ TypeOK /\ WorkTyped /\ AtWork(p) /\ OneAtATime /\ NeededStay
      /\ Alone /\ Progress
  BY DEF ObjectsInv, WorkTyped
<1>2. /\ req[p].op = "install" /\ left[p] \in Seq(Objects) /\ left[p] # <<>>
      /\ Upward(left[p]) /\ (pc[p] = "apply" => "WebhookConfiguration" \notin ToSet(left[p]))
  BY <1>1 DEF AtWork, Installing
<1>3. Undisturbed(p)
  BY <1>2 DEF Undisturbed, Busy, Installing
<1>4. ending = {} /\ DoneSoFar(p)
  BY <1>1, <1>3 DEF Alone, Progress
<1>5. ~HookToGo
  BY <1>1 DEF HookToGo, OneAtATime, Busy
<1>6. /\ ToSet(left[p]) = {c} \cup ToSet(Tail(left[p]))
      /\ \A x \in ToSet(Tail(left[p])) : <<c, x>> \notin Needs
  BY <1>2, Popped DEF Current
<1>7. {CRD, "OperatorRole", "AgentRole"} \subseteq ToSet(k8sManifestsWithoutWebhook)
  <2>1. /\ DOMAIN k8sManifestsWithoutWebhook = 1..10 /\ {2, 4, 7} \subseteq 1..10
        /\ k8sManifestsWithoutWebhook[2] = CRD
        /\ k8sManifestsWithoutWebhook[4] = "OperatorRole"
        /\ k8sManifestsWithoutWebhook[7] = "AgentRole"
    BY WithoutWebhook
  <2> QED
    BY <2>1 DEF ToSet
<1>8. "WebhookService" \in ToSet(manifestWebhook)
  <2>1. /\ DOMAIN manifestWebhook = 1..4 /\ 3 \in 1..4
        /\ manifestWebhook[3] = "WebhookService"
    BY DEF manifestWebhook
  <2> QED
    BY <2>1 DEF ToSet
<1> HIDE DEF c
<1>9. there' = there \cup {c}
  BY DEF c
<1>10. ASSUME NEW y \in {CRD, "OperatorRole", "AgentRole"}, <<c, y>> \in Needs
       PROVE  y \in there
  <2>1. c # y /\ y \notin ToSet(left[p])
    BY <1>6, <1>10 DEF Needs, CRD
  <2>2. y \in there \cup ToSet(left[p]) \/ y \in there
    BY <1>2, <1>4, <1>7 DEF DoneSoFar
  <2> QED
    BY <2>1, <2>2
<1>11. ASSUME c = "WebhookConfiguration"
       PROVE  "WebhookService" \in there
  <2>1. pc[p] = "hook"
    BY <1>2, <1>6, <1>11
  <2>2. <<c, "WebhookService">> \in Needs
    BY <1>11 DEF Needs
  <2>3. "WebhookService" \notin ToSet(left[p])
    BY <1>6, <1>11, <2>2
  <2> QED
    BY <1>4, <1>8, <2>1, <2>3 DEF DoneSoFar
<1>12. ASSUME there' \cap Workloads # {}
       PROVE  CRD \in there' /\ CRD \notin ending'
  <2>1. CASE there \cap Workloads # {}
    BY <1>1, <1>4, <1>9, <2>1 DEF NeededStay
  <2>2. CASE c \in Workloads
    <3>1. <<c, CRD>> \in Needs
      BY <2>2 DEF Needs, Workloads
    <3> QED
      BY <1>4, <1>9, <1>10, <3>1
  <2> QED
    BY <1>9, <1>12, <2>1, <2>2
<1>13. ASSUME NEW x, NEW role, <<x, role>> \in {<<"Operator", "OperatorRole">>,
                                                <<"Agent", "AgentRole">>}, x \in there'
       PROVE  role \in there'
  <2>1. CASE x \in there
    BY <1>1, <1>9, <1>13, <2>1 DEF NeededStay
  <2>2. CASE c = x
    <3>1. <<c, role>> \in Needs /\ role \in {"OperatorRole", "AgentRole"}
      BY <1>13, <2>2 DEF Needs
    <3> QED
      BY <1>9, <1>10, <3>1
  <2> QED
    BY <1>9, <1>13, <2>1, <2>2
<1>14. ASSUME "WebhookConfiguration" \in there'
       PROVE  "WebhookService" \in there' /\ Namespace \notin ending'
  <2>1. CASE "WebhookConfiguration" \in there
    BY <1>1, <1>4, <1>5, <1>9, <2>1 DEF NeededStay
  <2>2. CASE c = "WebhookConfiguration"
    BY <1>4, <1>9, <1>11, <2>2
  <2> QED
    BY <1>9, <1>14, <2>1, <2>2
<1> QED
  BY <1>12, <1>13, <1>14 DEF NeededStay

\* Nothing that others need goes before them.
LEMMA NeededStayStep == ObjectsInv /\ [Next]_vars => NeededStay'
<1> SUFFICES ASSUME ObjectsInv, [Next]_vars, orderly'
             PROVE  NeededStay'
  BY DEF NeededStay
<1>1. TypeOK /\ WorkTyped /\ OneAtATime /\ NeededStay
  BY DEF ObjectsInv
<1>2. ASSUME there' = there, ending' = ending, orderly, ~HookToGo
      PROVE  NeededStay'
  BY <1>1, <1>2 DEF NeededStay, Holds
<1>3. ASSUME NEW p \in Procs, Step(p) \/ Kill(p)
      PROVE  NeededStay'
  <2>1. pc[p] \in Busy /\ orderly
    BY <1>1, <1>3, OthersStay
  <2>2. CASE RemoveObject(p)
    BY <2>2, RemovalKeepsNeeded
  <2>3. CASE ~RemoveObject(p)
    <3>1. /\ ending' = ending
          /\ \/ there' = there
             \/ pc[p] \in {"apply", "hook"} /\ there' = there \cup {Current(p)}
      BY <1>3, <2>3, OthersKeepObjects
    <3>2. CASE pc[p] \in {"apply", "hook"} /\ there' = there \cup {Current(p)}
      BY <1>3, <2>1, <3>1, <3>2, AdditionKeepsNeeded
    <3>3. CASE there' = there
      <4>1. pc[p] # "remove" \/ left[p] = Work(req[p])
        <5>1. ~RemoveFails(p)
          BY DEF RemoveFails
        <5>2. CASE pc[p] = "remove" /\ Kill(p)
          <6>1. req[p].op = "uninstall" /\ orderly' = (orderly /\ req[p].op # "uninstall")
            BY <1>1, <5>2 DEF Kill, WorkTyped, AtWork, Removing
          <6> QED
            BY <6>1
        <5>3. CASE pc[p] = "remove" /\ Step(p)
          BY <2>3, <5>1, <5>3 DEF Step, ApplyObject, Rollout, ShowStatus, ListPolicies,
             PurgePolicy, PutPolicy, TakePolicy, RequestFails, At
        <5> QED
          BY <1>3, <5>2, <5>3
      <4>2. ~HookToGo
        <5> SUFFICES ASSUME NEW q \in Procs, pc[q] = "remove", Len(left[q]) < Len(Work(req[q]))
                     PROVE  FALSE
          BY DEF HookToGo
        <5>1. q = p
          BY <1>1, <2>1 DEF OneAtATime, Busy
        <5>2. req[p] \in Requests[p]
          BY <1>1, <2>1 DEF WorkTyped, AtWork, Busy
        <5>3. Len(Work(req[p])) \in Nat
          BY <5>2, Assigned, LenProperties
        <5> QED
          BY <4>1, <5>1, <5>3
      <4> QED
        BY <1>2, <2>1, <3>1, <3>3, <4>2
    <3> QED
      BY <3>1, <3>2, <3>3
  <2> QED
    BY <2>2, <2>3
<1>4. ASSUME NEW p \in Procs, NEW r \in Requests[p], Begin(p, r)
      PROVE  NeededStay'
  <2>1. /\ orderly /\ \A q \in Procs : pc[q] \notin Busy
    BY <1>1, <1>4, Beginning
  <2>2. there' = there /\ ending' = ending
    BY <1>4 DEF Begin, clusterVars
  <2>3. ~HookToGo
    BY <2>1 DEF HookToGo, Busy
  <2> QED
    BY <1>2, <2>1, <2>2, <2>3
<1>5. ASSUME EmptyNamespace \/ EmptyCRD \/ CertManagerComes \/ UNCHANGED vars
      PROVE  orderly /\ HookToGo' = HookToGo
  <2>1. UNCHANGED <<pc, req, left, orderly>>
    BY <1>5 DEF EmptyNamespace, EmptyCRD, CertManagerComes, Kkctls, history, vars
  <2> QED
    BY <2>1 DEF HookToGo, Work
<1>6. CASE EmptyNamespace
  <2>1. /\ ending' \subseteq ending /\ there' \subseteq there
        /\ \A x \in there \ (Namespaced \cup {Namespace}) : x \in there'
        /\ Namespace \in there' => Namespace \in ending'
    BY <1>6 DEF EmptyNamespace
  <2>2. {CRD, "OperatorRole", "AgentRole"} \cap (Namespaced \cup {Namespace}) = {}
    BY DEF Namespaced, CRD, Namespace
  <2>3. "WebhookConfiguration" \in there => HookToGo
    BY <1>1, <1>5, <1>6 DEF NeededStay, EmptyNamespace
  <2>4. ~Holds(Namespace)'
    BY <2>1 DEF Holds
  <2> QED
    BY <1>1, <1>5, <1>6, <2>1, <2>2, <2>3, <2>4 DEF NeededStay
<1>7. CASE EmptyCRD
  <2>1. /\ ending' \subseteq ending /\ there' \subseteq there
        /\ \A x \in there \ {CRD} : x \in there'
        /\ \A x \in ending \ {CRD} : x \in ending'
    BY <1>7 DEF EmptyCRD
  <2>2. there \cap Workloads = {}
    BY <1>1, <1>5, <1>7 DEF NeededStay, EmptyCRD
  <2>3. /\ CRD \notin {"OperatorRole", "AgentRole", "WebhookService", Namespace}
        /\ {"Operator", "Agent"} \subseteq Workloads
    BY DEF CRD, Namespace, Workloads
  <2>4. ~Holds(Namespace) => ~Holds(Namespace)'
    BY <2>1, <2>3 DEF Holds
  <2> QED
    BY <1>1, <1>5, <1>7, <2>1, <2>2, <2>3, <2>4 DEF NeededStay
<1>8. CASE CertManagerComes \/ UNCHANGED vars
  <2>1. there' = there /\ ending' = ending
    BY <1>8 DEF CertManagerComes, vars
  <2> QED
    BY <1>1, <1>5, <1>8, <2>1 DEF NeededStay, Holds
<1> QED
  BY <1>3, <1>4, <1>6, <1>7, <1>8 DEF Next

\* The invariant is inductive.
LEMMA NextInv == ObjectsInv /\ [Next]_vars => ObjectsInv'
  BY TypeStep, WorkStep, AloneStep, ProgressStep, OneAtATimeStep, RemovedSoFarStep,
     NeededStayStep DEF ObjectsInv

\* The invariant holds in every reachable state.
LEMMA Invariance == Spec => []ObjectsInv
  BY InitInv, NextInv, PTL DEF Spec

\* The variables keep to their types: what terminates is there and is the namespace or
\* the CustomResourceDefinition, and policies exist only while their kind does.
THEOREM Typing == Spec => []TypeOK
<1>1. ObjectsInv => TypeOK
  BY DEF ObjectsInv
<1> QED
  BY <1>1, Invariance, PTL

\* A command that no other has overlapped or followed, that began while nothing was
\* terminating and succeeded has done what it was asked to, whatever was there before
\* and however many requests of others have failed.
THEOREM SuccessComplete == Spec => []SuccessIsComplete
<1>1. ObjectsInv => SuccessIsComplete
  <2> SUFFICES ASSUME ObjectsInv, NEW p \in Procs, At(p, "ok"), solo[p], calm[p],
                      req[p].op # "uninstall"
               PROVE  /\ req[p].op = "install" =>
                            ToSet(k8sManifestsWithoutWebhook) \subseteq there /\ ending = {}
                      /\ (req[p].op = "install" /\ req[p].hook) =>
                            ToSet(manifestWebhook) \subseteq there
                      /\ req[p].op = "apply" => ToSet(req[p].list) \subseteq policies
                      /\ req[p].op = "delete" => ToSet(req[p].list) \cap policies = {}
    BY DEF SuccessIsComplete
  <2>1. pc[p] = "ok" /\ Undisturbed(p)
    BY DEF Undisturbed, At
  <2>2. ending = {} /\ DoneSoFar(p)
    BY <2>1 DEF ObjectsInv, Alone, Progress
  <2> QED
    BY <2>1, <2>2 DEF DoneSoFar
<1> QED
  BY <1>1, Invariance, PTL

\* As long as commands come one after the other, no install begins while something
\* terminates, and no uninstall is killed or has an error to ignore: nothing runs
\* without what it depends on, whatever fails or is killed half way through an install.
THEOREM Dependencies == Spec => []DependenciesKept
<1>1. ObjectsInv => DependenciesKept
  BY DEF ObjectsInv, NeededStay, DependenciesKept, Workloads
<1> QED
  BY <1>1, Invariance, PTL

(***************************************************************************)
(* What an uninstall leaves behind.                                        *)
(***************************************************************************)
\* What lives in the namespace is there no longer than it.
Housed == there \cap Namespaced # {} => Namespace \in there

\* An uninstall that nobody counteracts, from its first request on.
Uninstalls(p) == pc[p] \in Removing \cup {"ok"} /\ req[p].op = "uninstall" /\ solo[p]

NoInstallBeside == \A p, q \in Procs : Uninstalls(p) => pc[q] \notin Installing

\* An object is gone or about to go.
Goes(o) == o \in there => o \in ending

\* Of the objects outside the namespace, those the uninstall has come past go, or their
\* deletion failed.
Receding ==
    \A p \in Procs : Uninstalls(p) =>
       \A o \in Objects \ Namespaced :
          \/ Goes(o)
          \/ o \in spared[p]
          \/ pc[p] = "remove" /\ o \in ToSet(left[p])

DoomInv == ObjectsInv /\ Housed /\ NoInstallBeside /\ Receding

\* An uninstall that could delete what is outside the namespace leaves behind only what is
\* terminating, lives in a namespace that is, or is of a kind that is: nothing that the
\* controllers will not remove.
UninstallDooms ==
    \A p \in Procs :
       (At(p, "ok") /\ req[p].op = "uninstall" /\ solo[p] /\ spared[p] = {}) =>
          /\ there \ Namespaced \subseteq ending
          /\ there \cap Namespaced # {} => Namespace \in ending
          /\ policies # {} => CRD \in ending

\* At first nobody uninstalls, and the cluster has all objects or none.
LEMMA DoomInit == Init => DoomInv
<1> SUFFICES ASSUME Init PROVE DoomInv
  OBVIOUS
<1>1. ObjectsInv
  BY InitInv
<1>2. \A p \in Procs : ~Uninstalls(p)
  BY DEF Init, Uninstalls
<1>3. Namespace \in Objects
  BY TheObjects DEF Names
<1>4. Housed
  BY <1>3 DEF Init, Housed
<1> QED
  BY <1>1, <1>2, <1>4 DEF DoomInv, NoInstallBeside, Receding

\* Everything the cluster is to get from an install has its namespace there.
LEMMA HousedStep == ObjectsInv /\ Housed /\ [Next]_vars => Housed'
<1> SUFFICES ASSUME ObjectsInv, Housed, [Next]_vars
             PROVE  Housed'
  OBVIOUS
<1>1. TypeOK /\ WorkTyped
  BY DEF ObjectsInv
<1>2. Namespace \notin Namespaced /\ CRD \notin Namespaced /\ Namespace # CRD
  BY DEF Namespace, CRD, Namespaced
<1>3. ASSUME NEW p \in Procs, Step(p) \/ Kill(p)
      PROVE  Housed'
  <2>1. CASE RemoveObject(p)
    <3>1. \/ there' = there
          \/ there' = there \ {Current(p)} /\ Current(p) \notin {Namespace, CRD}
      BY <2>1, Removal
    <3> QED
      BY <3>1 DEF Housed
  <2>2. CASE ~RemoveObject(p)
    <3>1. \/ there' = there
          \/ there' = there \cup {Current(p)} /\ Accepts(Current(p))
      BY <1>3, <2>2 DEF Step, Kill, ApplyObject, Rollout, ShowStatus, RemoveFails,
         ListPolicies, PurgePolicy, PutPolicy, TakePolicy, RequestFails, Frame, clusterVars
    <3> QED
      BY <3>1 DEF Housed, Accepts, Holds
  <2> QED
    BY <2>1, <2>2
<1>4. CASE EmptyNamespace
  <2>1. \/ there' \subseteq there /\ Namespace \in there'
        \/ there' = there
        \/ there' \cap Namespaced = {}
    BY <1>1, <1>2, <1>4 DEF EmptyNamespace, TypeOK
  <2> QED
    BY <2>1 DEF Housed
<1>5. CASE EmptyCRD
  <2>1. there' = there \/ there' = there \ {CRD}
    BY <1>5 DEF EmptyCRD
  <2> QED
    BY <1>2, <2>1 DEF Housed
<1>6. ASSUME NEW p \in Procs, NEW r \in Requests[p], Begin(p, r)
      PROVE  Housed'
  BY <1>6 DEF Begin, clusterVars, Housed
<1>7. CASE CertManagerComes \/ UNCHANGED vars
  BY <1>7 DEF CertManagerComes, vars, Housed
<1> QED
  BY <1>3, <1>4, <1>5, <1>6, <1>7 DEF Next

\* A command that begins does not counteract the uninstalls that count on it, nor is it one
\* that counts on others while an install runs.
LEMMA BeginningBeside ==
    ASSUME TypeOK, WorkTyped, NEW p \in Procs, NEW r \in Requests[p], Begin(p, r)
    PROVE  /\ \A q \in Procs \ {p} : solo'[q] => solo[q] /\ r.op # "install"
           /\ (solo'[p] /\ r.op = "uninstall") =>
                 \A q \in Procs \ {p} : pc[q] \notin Installing
<1> DEFINE busy == {q \in Procs \ {p} : pc[q] \in Busy}
           Bears(a, b) == a.op = "uninstall" /\ b.op # "install"
<1>1. solo' = [q \in Procs |-> IF q = p THEN \A o \in busy : Bears(r, req[o])
                               ELSE solo[q] /\ Bears(req[q], r)]
  BY DEF Begin
<1>2. \A q \in Procs \ {p} : solo'[q] => solo[q] /\ r.op # "install"
  BY <1>1
<1>3. ASSUME solo'[p], NEW q \in Procs \ {p}, pc[q] \in Installing
      PROVE  FALSE
  <2>1. q \in busy /\ req[q].op = "install"
    BY <1>3 DEF WorkTyped, AtWork, Installing, Busy
  <2>2. Bears(r, req[q])
    BY <1>1, <1>3, <2>1
  <2> QED
    BY <2>1, <2>2
<1> QED
  BY <1>2, <1>3

\* An uninstall stays one that nobody counteracts only as long as it was one, or has just
\* begun.
LEMMA UninstallsBefore ==
    ASSUME ObjectsInv, NEW p \in Procs, Step(p) \/ Kill(p), NEW q \in Procs, Uninstalls(q)'
    PROVE  /\ Uninstalls(q)
           /\ q = p => pc[p] \in Removing
<1>1. /\ pc[p] \in Busy /\ \A o \in Procs \ {p} : pc'[o] = pc[o]
      /\ req' = req /\ solo' = solo
  BY OthersStay DEF ObjectsInv
<1>2. AtWork(p)
  BY DEF ObjectsInv, WorkTyped
<1>3. pc[p] \in Busy /\ req[p].op = "uninstall" => pc[p] \in Removing
  BY <1>2 DEF AtWork, Busy, Installing, Removing
<1> QED
  BY <1>1, <1>3 DEF Uninstalls

\* No install runs beside such an uninstall.
LEMMA NoInstallBesideStep ==
    ObjectsInv /\ NoInstallBeside /\ [Next]_vars => NoInstallBeside'
<1> SUFFICES ASSUME ObjectsInv, NoInstallBeside, [Next]_vars,
                    NEW q \in Procs, NEW o \in Procs, Uninstalls(q)'
             PROVE  pc'[o] \notin Installing
  BY DEF NoInstallBeside
<1>1. TypeOK /\ WorkTyped
  BY DEF ObjectsInv
<1>2. Installing \subseteq Busy /\ Installing \cap (Removing \cup {"ok"}) = {}
  BY DEF Installing, Busy, Removing
<1>3. ASSUME NEW p \in Procs, Step(p) \/ Kill(p)
      PROVE  pc'[o] \notin Installing
  <2>1. Uninstalls(q)
    BY <1>3, UninstallsBefore
  <2>2. pc[o] \notin Installing
    BY <2>1 DEF NoInstallBeside
  <2>3. /\ \A u \in Procs \ {p} : pc'[u] = pc[u]
        /\ pc[p] \in Busy /\ req' = req
    BY <1>1, <1>3, OthersStay
  <2>4. AtWork(p) /\ AtWork(p)'
    BY <1>1, <1>3, OwnWork DEF WorkTyped
  <2>5. pc[p] \notin Installing => req[p].op # "install"
    BY <2>3, <2>4 DEF AtWork, Busy, Installing, Removing
  <2>6. pc[p] \notin Installing => pc'[p] \notin Installing
    BY <2>3, <2>4, <2>5 DEF AtWork
  <2> QED
    BY <2>2, <2>3, <2>6
<1>4. ASSUME NEW p \in Procs, NEW r \in Requests[p], Begin(p, r)
      PROVE  pc'[o] \notin Installing
  <2>1. /\ \A u \in Procs \ {p} : pc'[u] = pc[u] /\ req'[u] = req[u]
        /\ req'[p] = r /\ pc'[p] = FirstPoint(r)
    BY <1>1, <1>4, Beginning
  <2>2. FirstPoint(r) \in Installing => r.op = "install"
    BY Assigned DEF Installing
  <2>3. CASE q = p
    BY <1>1, <1>4, <2>1, <2>2, <2>3, BeginningBeside DEF Uninstalls
  <2>4. CASE q # p
    <3>1. Uninstalls(q) /\ r.op # "install"
      BY <1>1, <1>4, <2>1, <2>4, BeginningBeside DEF Uninstalls
    <3> QED
      BY <2>1, <2>2, <3>1 DEF NoInstallBeside
  <2> QED
    BY <2>3, <2>4
<1>5. ASSUME UNCHANGED <<pc, req, solo>>
      PROVE  pc'[o] \notin Installing
  BY <1>5 DEF NoInstallBeside, Uninstalls
<1>6. EmptyNamespace \/ EmptyCRD \/ CertManagerComes \/ UNCHANGED vars
        => UNCHANGED <<pc, req, solo>>
  BY DEF EmptyNamespace, EmptyCRD, CertManagerComes, Kkctls, history, vars
<1> QED
  BY <1>3, <1>4, <1>5, <1>6 DEF Next

\* Beside such an uninstall nothing is made, and what goes keeps going.
LEMMA GoesOn ==
    ASSUME ObjectsInv, NoInstallBeside, NEW q \in Procs, Uninstalls(q),
           NEW p \in Procs, Step(p) \/ Kill(p), NEW o, Goes(o)
    PROVE  Goes(o)'
<1>1. CASE RemoveObject(p)
  <2>1. \/ there' = there /\ ending' = ending
        \/ there' = there /\ ending' = ending \cup ({Current(p)} \cap there)
        \/ there' = there \ {Current(p)} /\ ending' = ending
    BY <1>1, Removal
  <2> QED
    BY <2>1 DEF Goes
<1>2. CASE ~RemoveObject(p)
  <2>1. pc[p] \notin {"apply", "hook"}
    BY DEF NoInstallBeside, Installing
  <2>2. ending' = ending /\ there' = there
    BY <1>2, <2>1, OthersKeepObjects
  <2> QED
    BY <2>2 DEF Goes
<1> QED
  BY <1>1, <1>2

\* What an uninstall comes past goes, or is spared.
LEMMA OwnRemoval ==
    ASSUME ObjectsInv, NEW p \in Procs, RemoveObject(p) \/ RemoveFails(p),
           NEW o \in Objects \ Namespaced, o \in ToSet(left[p])
    PROVE  \/ Goes(o)' \/ o \in spared'[p]
           \/ pc'[p] = "remove" /\ o \in ToSet(left'[p])
<1>1. /\ pc[p] = "remove" /\ spared \in [Procs -> SUBSET Objects] /\ AtWork(p)
      /\ pc \in [Procs -> Points] /\ left \in [Procs -> Seq(Objects \cup Policies)]
  BY DEF ObjectsInv, TypeOK, WorkTyped, RemoveObject, RemoveFails, At
<1>2. left[p] \in Seq(Objects) /\ left[p] # <<>>
  BY <1>1 DEF AtWork
<1>3. Proceed(p, IF req[p].purge THEN "list" ELSE "ok") /\ {"list", "ok"} \subseteq Points
  BY DEF RemoveObject, RemoveFails, Points, Busy, Ended
<1>4. left'[p] = Tail(left[p]) /\ (left'[p] # <<>> => pc'[p] = "remove")
  BY <1>1, <1>2, <1>3, Proceeding
<1>5. ToSet(left[p]) = {Current(p)} \cup ToSet(left'[p])
  BY <1>2, <1>4, Popped DEF Current
<1>6. o \in ToSet(left'[p]) => left'[p] # <<>>
  BY DEF ToSet
<1>7. CASE o = Current(p) /\ RemoveObject(p)
  <2>1. o # "Certificate"
    BY DEF Namespaced
  <2>2. \/ there' = there /\ ending' = ending \cup ({o} \cap there)
        \/ there' = there \ {o}
    BY <1>7, <2>1, Removal
  <2> QED
    BY <2>2 DEF Goes
<1>8. CASE o = Current(p) /\ RemoveFails(p)
  <2>1. spared' = [spared EXCEPT ![p] = @ \cup ({o} \ Namespaced)]
    BY <1>8 DEF RemoveFails
  <2> QED
    BY <1>1, <2>1
<1> QED
  BY <1>4, <1>5, <1>6, <1>7, <1>8

\* What an uninstall has come past stays so.
LEMMA RecedingStep ==
    ObjectsInv /\ NoInstallBeside /\ Receding /\ [Next]_vars => Receding'
<1> SUFFICES ASSUME ObjectsInv, NoInstallBeside, Receding, [Next]_vars,
                    NEW q \in Procs, Uninstalls(q)', NEW o \in Objects \ Namespaced
             PROVE  \/ Goes(o)' \/ o \in spared'[q]
                    \/ pc'[q] = "remove" /\ o \in ToSet(left'[q])
  <2>1. Objects' = Objects /\ Namespaced' = Namespaced
    BY DEF Objects, Namespaced, k8sManifests, manifestNamespace, manifestCRD,
           manifestOperator, manifestWebhook, manifestDaemonSet, manifestRelay, Namespace, CRD
  <2> QED
    BY <2>1 DEF Receding
<1>1. TypeOK /\ WorkTyped
  BY DEF ObjectsInv
<1>2. ASSUME NEW p \in Procs, Step(p) \/ Kill(p)
      PROVE  \/ Goes(o)' \/ o \in spared'[q]
             \/ pc'[q] = "remove" /\ o \in ToSet(left'[q])
  <2>1. Uninstalls(q) /\ (q = p => pc[p] \in Removing)
    BY <1>2, UninstallsBefore
  <2>2. Goes(o) \/ o \in spared[q] \/ (pc[q] = "remove" /\ o \in ToSet(left[q]))
    BY <2>1 DEF Receding
  <2>3. Goes(o) => Goes(o)'
    BY <1>2, <2>1, GoesOn
  <2>4. CASE q # p
    <3>1. pc'[q] = pc[q] /\ left'[q] = left[q]
      BY <1>1, <1>2, <2>4, OthersStay
    <3>2. spared'[q] = spared[q]
      BY <1>1, <1>2, <2>4 DEF TypeOK, Step, Kill, ApplyObject, Rollout, ShowStatus,
         RemoveObject, RemoveFails, ListPolicies, PurgePolicy, PutPolicy, TakePolicy,
         RequestFails
    <3> QED
      BY <2>2, <2>3, <3>1, <3>2
  <2>5. CASE q = p /\ (RemoveObject(p) \/ RemoveFails(p))
    <3>1. pc[p] = "remove"
      BY <2>5 DEF RemoveObject, RemoveFails, At
    <3>2. o \in spared[p] => o \in spared'[p] \/ o = Current(p)
      BY <1>1, <2>5 DEF TypeOK, RemoveObject, RemoveFails
    <3>3. Current(p) \in ToSet(left[p])
      <4>1. left[p] \in Seq(Objects) /\ left[p] # <<>>
        BY <1>1, <3>1 DEF WorkTyped, AtWork
      <4> QED
        BY <4>1, Popped DEF Current
    <3> QED
      BY <2>2, <2>3, <2>5, <3>2, <3>3, OwnRemoval
  <2>6. CASE q = p /\ ~RemoveObject(p) /\ ~RemoveFails(p)
    <3>1. pc[p] \in Removing /\ pc'[p] \in Removing \cup {"ok"}
      BY <2>1, <2>6 DEF Uninstalls
    <3>2. ~RequestFails(p) /\ ~Kill(p)
      <4>1. ASSUME NEW point \in {"failed", "killed"}
            PROVE  ~GiveUp(p, point)
        BY <1>1, <3>1 DEF GiveUp, Goto, TypeOK, Removing
      <4> QED
        BY <4>1 DEF RequestFails, Kill
    <3>3. ListPolicies(p) \/ PurgePolicy(p)
      BY <1>2, <2>6, <3>1, <3>2 DEF Step, ApplyObject, Rollout, ShowStatus, PutPolicy,
         TakePolicy, At, Removing
    <3>4. pc[p] # "remove" /\ spared' = spared
      BY <3>3 DEF ListPolicies, PurgePolicy, At
    <3> QED
      BY <2>2, <2>3, <2>6, <3>4
  <2> QED
    BY <2>4, <2>5, <2>6
<1>3. ASSUME NEW p \in Procs, NEW r \in Requests[p], Begin(p, r)
      PROVE  \/ Goes(o)' \/ o \in spared'[q]
             \/ pc'[q] = "remove" /\ o \in ToSet(left'[q])
  <2>1. /\ \A u \in Procs \ {p} : pc'[u] = pc[u] /\ left'[u] = left[u] /\ req'[u] = req[u]
        /\ req'[p] = r /\ pc'[p] = FirstPoint(r) /\ left'[p] = Work(r)
    BY <1>1, <1>3, Beginning
  <2>2. CASE q = p
    <3>1. r.op = "uninstall"
      BY <2>1, <2>2 DEF Uninstalls
    <3>2. pc'[q] = "remove" /\ left'[q] = Reverse(k8sManifests)
      BY <2>1, <2>2, <3>1, Assigned
    <3> QED
      BY <3>2, UninstallWork
  <2>3. CASE q # p
    <3>1. Uninstalls(q)
      BY <1>1, <1>3, <2>1, <2>3, BeginningBeside DEF Uninstalls
    <3>2. /\ Goes(o)' = Goes(o) /\ spared'[q] = spared[q]
      BY <1>1, <1>3, <2>3 DEF Begin, clusterVars, Goes, TypeOK
    <3> QED
      BY <2>1, <2>3, <3>1, <3>2 DEF Receding
  <2> QED
    BY <2>2, <2>3
<1>4. ASSUME UNCHANGED <<pc, req, solo, left, spared>>, Goes(o) => Goes(o)'
      PROVE  \/ Goes(o)' \/ o \in spared'[q]
             \/ pc'[q] = "remove" /\ o \in ToSet(left'[q])
  <2>1. Uninstalls(q)
    BY <1>4 DEF Uninstalls
  <2> QED
    BY <1>4, <2>1 DEF Receding
<1>5. EmptyNamespace \/ EmptyCRD \/ CertManagerComes \/ UNCHANGED vars
        => UNCHANGED <<pc, req, solo, left, spared>> /\ (Goes(o) => Goes(o)')
  BY DEF EmptyNamespace, EmptyCRD, CertManagerComes, Kkctls, history, vars, Goes
<1> QED
  BY <1>2, <1>3, <1>4, <1>5 DEF Next

\* What a successful uninstall leaves behind, although it looks at no error and policies
\* may be applied and other uninstalls run at the same time: nothing that the controllers
\* will not remove.  This is what UninstallLeavesNothing rests on.
THEOREM UninstallIsDoom == Spec => []UninstallDooms
<1>1. ObjectsInv /\ NoInstallBeside /\ Receding /\ Housed => UninstallDooms
  <2> SUFFICES ASSUME ObjectsInv, Receding, Housed, NEW p \in Procs,
                      At(p, "ok"), req[p].op = "uninstall", solo[p], spared[p] = {}
               PROVE  /\ there \ Namespaced \subseteq ending
                      /\ there \cap Namespaced # {} => Namespace \in ending
                      /\ policies # {} => CRD \in ending
    BY DEF UninstallDooms
  <2>1. Uninstalls(p) /\ pc[p] # "remove"
    BY DEF Uninstalls, At
  <2>2. \A o \in Objects \ Namespaced : Goes(o)
    BY <2>1 DEF Receding
  <2>3. there \subseteq Objects /\ (policies # {} => CRD \in there)
    BY DEF ObjectsInv, TypeOK
  <2>4. Namespace \notin Namespaced /\ CRD \notin Namespaced
    BY DEF Namespace, CRD, Namespaced
  <2> QED
    BY <2>2, <2>3, <2>4 DEF Goes, Housed
<1>2. Spec => []DoomInv
  <2>1. DoomInv /\ [Next]_vars => DoomInv'
    BY NextInv, HousedStep, NoInstallBesideStep, RecedingStep DEF DoomInv
  <2> QED
    BY <2>1, DoomInit, PTL DEF Spec
<1>3. DoomInv => UninstallDooms
  BY <1>1 DEF DoomInv
<1> QED
  BY <1>2, <1>3, PTL
====
