---- MODULE K8sRolloutProofs ----
(***************************************************************************)
(* Proofs about K8sRollout, for any cluster, any commands and any number   *)
(* of them: the types, and what a first `install --wait` promises about    *)
(* the agents and about the webhook, however slow the controller is,       *)
(* whatever becomes of agents and nodes and whoever joins meanwhile.       *)
(***************************************************************************)
EXTENDS K8sRollout, FiniteSetTheorems, TLAPS

HasPod(n) == pod[n] # Absent

\* At every time a cluster has finitely many nodes, and only they have pods.
PodsOfNodes ==
    /\ IsFiniteSet(joined)
    /\ \A n \in Nodes : HasPod(n) => n \in joined

\* No two pods have one name.
NamesDistinct ==
    \A n, m \in Nodes : HasPod(n) /\ HasPod(m) /\ pod[n].name = pod[m].name => n = m

\* Before the first command there is nothing of KloudKnox in the cluster.
NothingBeforeFirst ==
    /\ runs = 0 <=> pc = "idle"
    /\ pc # "idle" => cmd \in Commands
    /\ runs = 0 => /\ ds = Absent
                   /\ \A n \in Nodes : ~HasPod(n)
                   /\ ~StatusComplete

\* The counters belong to the listed pods; a round begins with all of them unasked
\* and ends with none.
RoundInStep ==
    /\ IsFiniteSet(listed)
    /\ pc \notin {"poll", "verdict"} => bpf = 0 /\ apparmor = 0
    /\ pc \in {"poll", "verdict"} => cmd.wait /\ ~cmd.skip
    /\ pc = "verdict" => unasked = {}

\* During the first install the template has one image, so no pod is replaced for
\* another's sake; an agent that is ready has been seen to be, and its pod is there
\* until it is removed.
FirstPods ==
    /\ ds \in {Absent, cmd.img}
    /\ pc = "apply" => ds = Absent
    /\ pc = "waitds" \/ PastWait => ds = cmd.img
    /\ \A n \in Nodes : HasPod(n) => /\ ds # Absent /\ pod[n].img = ds
                                    /\ (pod[n].ready => n \in served)
    /\ \A n \in kept \cap served : HasPod(n)

\* A complete status was written when every node had a ready pod, and the wait is
\* over only after such a status.
FirstStatus ==
    /\ StatusComplete => early \subseteq served
    /\ cmd.wait /\ PastWait => early \subseteq served

\* The pod of an AppArmor node is listed, and a round that has asked it has
\* counted it as such or has one report too few.
AppArmorCounted ==
    pc \in {"poll", "verdict"} =>
        \A n \in kept \cap AppArmorNodes :
            /\ pod[n].name \in listed
            /\ \/ pod[n].name \in unasked
               \/ apparmor > 0
               \/ bpf + apparmor + Cardinality(unasked) < Cardinality(listed)

FirstInv == FirstPods /\ FirstStatus /\ AppArmorCounted /\ FirstSkipIsSound

RolloutInv ==
    /\ TypeOK
    /\ PodsOfNodes
    /\ NamesDistinct
    /\ NothingBeforeFirst
    /\ RoundInStep
    /\ FirstInstall => FirstInv

\* A command is one of those kkctl may be given, and has an image.
LEMMA CommandTypes ==
    ASSUME NEW c \in Commands
    PROVE  /\ c.op \in {"install", "upgrade"} /\ c.img \in Images
           /\ c.wait \in BOOLEAN /\ c.skip \in BOOLEAN
           /\ c # NoCommand
  BY ConstantsAssumption DEF Command

\* A cluster without KloudKnox and a kkctl that has not been called.
LEMMA InitInv == Init => RolloutInv
<1> SUFFICES ASSUME Init PROVE RolloutInv
  OBVIOUS
<1>1. TypeOK
  <2>1. Cardinality({}) = 0
    BY FS_EmptySet
  <2>2. pod \in [Nodes -> Pod \cup {Absent}]
    BY DEF Init
  <2>3. status \in [desired : Nat, ready : Nat]
    BY DEF Init
  <2>4. bpf + apparmor + Cardinality(unasked) <= Cardinality(listed)
    BY <2>1 DEF Init
  <2>5. runs \in 0..MaxRuns
    BY ConstantsAssumption DEF Init
  <2> QED
    BY <2>2, <2>3, <2>4, <2>5, ConstantsAssumption DEF Init, TypeOK, Points
<1>2. PodsOfNodes /\ NamesDistinct
  BY ConstantsAssumption DEF Init, PodsOfNodes, NamesDistinct, HasPod
<1>3. NothingBeforeFirst
  BY DEF Init, NothingBeforeFirst, HasPod, StatusComplete
<1>4. RoundInStep
  BY FS_EmptySet DEF Init, RoundInStep
<1>5. ~FirstInstall
  BY DEF Init, FirstInstall
<1> QED
  BY <1>1, <1>2, <1>3, <1>4, <1>5 DEF RolloutInv

\* A new pod runs the image of the template and has a name no pod has.
LEMMA CreatePodStep ==
    ASSUME RolloutInv, NEW n \in Nodes, CreatePod(n)
    PROVE  /\ pod' \in [Nodes -> Pod \cup {Absent}]
           /\ PodsOfNodes' /\ NamesDistinct'
           /\ \A m \in Nodes \ {n} : pod'[m] = pod[m]
           /\ pod'[n].img = ds /\ ~pod'[n].ready
<1> DEFINE p == [name |-> CHOOSE s \in NewNames : TRUE, img |-> ds,
                 ready |-> FALSE, reported |-> FALSE]
<1>1. /\ pod \in [Nodes -> Pod \cup {Absent}] /\ ds \in Images
      /\ PodsOfNodes /\ NamesDistinct
      /\ n \in joined /\ pod[n] = Absent /\ joined' = joined
      /\ pod' = [pod EXCEPT ![n] = p] /\ NewNames # {}
  BY DEF RolloutInv, TypeOK, CreatePod
<1>2. p.name \in NewNames
  <2>1. PICK s : s \in NewNames
    BY <1>1
  <2>2. (CHOOSE t \in NewNames : TRUE) \in NewNames
    BY <2>1
  <2> QED
    BY <2>2
<1>3. p.name \in PodNames /\ \A m \in Nodes : HasPod(m) => pod[m].name # p.name
  BY <1>2 DEF NewNames, HasPod
<1>4. p \in Pod
  BY <1>1, <1>3 DEF Pod
<1>5. /\ pod' \in [Nodes -> Pod \cup {Absent}] /\ pod'[n] = p
      /\ \A m \in Nodes \ {n} : pod'[m] = pod[m]
  BY <1>1, <1>4
<1>6. PodsOfNodes'
  BY <1>1, <1>5 DEF PodsOfNodes, HasPod
<1>7. NamesDistinct'
  BY <1>1, <1>3, <1>5 DEF NamesDistinct, HasPod
<1> HIDE DEF p
<1>8. p.img = ds /\ ~p.ready
  BY DEF p
<1> QED
  BY <1>5, <1>6, <1>7, <1>8

\* A pod that becomes ready or crashes, or whose agent reports, is still the same pod.
LEMMA PodProgress ==
    ASSUME RolloutInv, NEW n \in Nodes, PodReady(n) \/ PodCrashes(n) \/ AgentReports(n)
    PROVE  /\ pod' \in [Nodes -> Pod \cup {Absent}]
           /\ PodsOfNodes' /\ NamesDistinct'
           /\ \A m \in Nodes :
                /\ HasPod(m)' <=> HasPod(m)
                /\ HasPod(m) => /\ pod'[m].name = pod[m].name
                                /\ pod'[m].img = pod[m].img
                                /\ \/ (pod'[m].ready => pod[m].ready)
                                   \/ m = n /\ PodReady(n)
<1>1. /\ pod \in [Nodes -> Pod \cup {Absent}]
      /\ PodsOfNodes /\ NamesDistinct
      /\ pod[n] # Absent /\ joined' = joined
      /\ \/ PodReady(n) /\ pod' = [pod EXCEPT ![n].ready = TRUE, ![n].reported = FALSE]
         \/ pod' = [pod EXCEPT ![n].ready = FALSE]
         \/ pod' = [pod EXCEPT ![n].reported = TRUE]
  BY DEF RolloutInv, TypeOK, PodReady, PodCrashes, AgentReports
<1>2. pod[n] \in Pod
  BY <1>1
<1>3. /\ \A m \in Nodes \ {n} : pod'[m] = pod[m]
      /\ pod'[n] \in Pod /\ pod'[n].name = pod[n].name
      /\ pod'[n].img = pod[n].img
      /\ (pod'[n].ready => pod[n].ready) \/ PodReady(n)
  <2>1. CASE PodReady(n)
    <3> DEFINE q == [pod[n] EXCEPT !.ready = TRUE, !.reported = FALSE]
    <3>1. q \in Pod /\ q.name = pod[n].name /\ q.img = pod[n].img
      BY <1>2 DEF Pod
    <3>2. pod' = [pod EXCEPT ![n] = q]
      BY <1>1, <1>2, <2>1 DEF PodReady
    <3> HIDE DEF q
    <3> QED
      BY <1>1, <2>1, <3>1, <3>2
  <2>2. CASE pod' = [pod EXCEPT ![n].ready = FALSE]
    BY <1>1, <1>2, <2>2 DEF Pod
  <2>3. CASE pod' = [pod EXCEPT ![n].reported = TRUE]
    BY <1>1, <1>2, <2>3 DEF Pod
  <2> QED
    BY <1>1, <2>1, <2>2, <2>3
<1>4. pod' \in [Nodes -> Pod \cup {Absent}]
  BY <1>1, <1>3
<1>5. \A m \in Nodes : HasPod(m)' <=> HasPod(m)
  BY <1>1, <1>3, AbsentAssumption DEF HasPod
<1>6. \A m \in Nodes : /\ pod'[m].name = pod[m].name
                       /\ pod'[m].img = pod[m].img
                       /\ \/ (pod'[m].ready => pod[m].ready)
                          \/ m = n /\ PodReady(n)
  BY <1>3
<1>7. NamesDistinct'
  BY <1>1, <1>5, <1>6 DEF NamesDistinct
<1>8. PodsOfNodes'
  BY <1>1, <1>5 DEF PodsOfNodes
<1> QED
  BY <1>4, <1>5, <1>6, <1>7, <1>8

\* When a pod goes, with its node or not, nothing else happens to the pods, and its
\* node is not one of those that have kept theirs.
LEMMA PodGoes ==
    ASSUME RolloutInv, NEW n \in Nodes, RemovePod(n) \/ ReplacePod(n) \/ Leave(n)
    PROVE  /\ joined' \subseteq joined
           /\ pod' \in [Nodes -> Pod \cup {Absent}]
           /\ PodsOfNodes' /\ NamesDistinct'
           /\ early' \subseteq early /\ kept' = kept \ {n}
           /\ early' \subseteq joined' /\ kept' \subseteq early'
           /\ pod'[n] = Absent /\ \A m \in Nodes \ {n} : pod'[m] = pod[m]
<1>1. /\ pod \in [Nodes -> Pod \cup {Absent}] /\ PodsOfNodes /\ NamesDistinct
      /\ early \subseteq joined /\ kept \subseteq early
  BY DEF RolloutInv, TypeOK
<1>2. /\ pod' = [pod EXCEPT ![n] = Absent] /\ kept' = kept \ {n}
      /\ \/ joined' = joined /\ early' = early
         \/ joined' = joined \ {n} /\ early' = early \ {n}
  BY DEF RemovePod, ReplacePod, Leave
<1>3. pod'[n] = Absent /\ \A m \in Nodes \ {n} : pod'[m] = pod[m]
  BY <1>1, <1>2
<1>4. IsFiniteSet(joined')
  BY <1>1, <1>2, FS_RemoveElement DEF PodsOfNodes
<1>5. PodsOfNodes'
  BY <1>1, <1>2, <1>3, <1>4 DEF PodsOfNodes, HasPod
<1>6. NamesDistinct'
  BY <1>1, <1>3 DEF NamesDistinct, HasPod
<1> QED
  BY <1>1, <1>2, <1>3, <1>5, <1>6

\* Nodes and pods come and go one at a time, and no two pods share a name.
LEMMA ClusterStep ==
    ASSUME RolloutInv, [Next]_vars
    PROVE  /\ joined' \subseteq Nodes
           /\ early' \subseteq joined' /\ kept' \subseteq early' /\ served' \subseteq Nodes
           /\ ds' \in Images \cup {Absent}
           /\ pod' \in [Nodes -> Pod \cup {Absent}]
           /\ status' \in [desired : Nat, ready : Nat]
           /\ PodsOfNodes' /\ NamesDistinct'
<1>1. /\ joined \subseteq Nodes /\ ds \in Images \cup {Absent}
      /\ early \subseteq joined /\ kept \subseteq early /\ served \subseteq Nodes
      /\ pod \in [Nodes -> Pod \cup {Absent}]
      /\ status \in [desired : Nat, ready : Nat]
      /\ PodsOfNodes /\ NamesDistinct
      /\ cmd \in Commands \cup {NoCommand}
  BY DEF RolloutInv, TypeOK
<1>2. ASSUME NEW n \in Nodes, Join(n)
      PROVE  joined' \subseteq Nodes /\ joined \subseteq joined' /\ PodsOfNodes'
  <2>1. joined' = joined \cup {n} /\ pod' = pod
    BY <1>2 DEF Join
  <2>2. IsFiniteSet(joined')
    BY <1>1, <2>1, FS_AddElement DEF PodsOfNodes
  <2> QED
    BY <1>1, <2>1, <2>2 DEF PodsOfNodes, HasPod
<1>3. ASSUME NEW c \in Commands, Begin(c)
      PROVE  early' \subseteq joined' /\ kept' \subseteq early' /\ served' \subseteq Nodes
  BY <1>3 DEF Begin, clusterVars
<1>4. CASE SyncStatus
  <2>1. ReadyNodes \subseteq joined
    BY DEF ReadyNodes
  <2>2. Cardinality(joined) \in Nat /\ Cardinality(ReadyNodes) \in Nat
    BY <1>1, <2>1, FS_Subset, FS_CardinalityType DEF PodsOfNodes
  <2>3. status' \in [desired : Nat, ready : Nat]
    BY <1>4, <2>2 DEF SyncStatus, Counted
  <2> QED
    BY <1>1, <1>4, <2>3 DEF SyncStatus, PodsOfNodes, NamesDistinct, HasPod, history
<1>5. CASE Apply
  <2>1. cmd \in Commands
    BY <1>5 DEF Apply, RolloutInv, NothingBeforeFirst
  <2>2. cmd.img \in Images
    BY <2>1, CommandTypes
  <2>3. ds' \in Images \cup {Absent}
    BY <1>1, <1>5, <2>2 DEF Apply
  <2> QED
    BY <1>1, <1>5, <2>3 DEF Apply, PodsOfNodes, NamesDistinct, HasPod, history
<1>6. CASE UNCHANGED <<joined, ds, pod, status, early, kept, served>>
  BY <1>1, <1>6 DEF PodsOfNodes, NamesDistinct, HasPod
<1>7. CASE \E n \in Nodes : Agent(n) \/ Join(n) \/ Leave(n)
  <2>1. PICK n \in Nodes : Agent(n) \/ Join(n) \/ Leave(n)
    BY <1>7
  <2>2. CASE CreatePod(n)
    BY <1>1, <2>2, CreatePodStep DEF CreatePod, history
  <2>3. CASE PodReady(n) \/ PodCrashes(n) \/ AgentReports(n)
    <3>1. UNCHANGED <<joined, ds, status, early, kept>> /\ served' \in {served, served \cup {n}}
      BY <2>3 DEF PodReady, PodCrashes, AgentReports, history
    <3> QED
      BY <1>1, <2>3, <3>1, PodProgress
  <2>4. CASE RemovePod(n) \/ ReplacePod(n) \/ Leave(n)
    <3>1. UNCHANGED <<ds, status, served>>
      BY <2>4 DEF RemovePod, ReplacePod, Leave
    <3> QED
      BY <1>1, <2>4, <3>1, PodGoes
  <2>5. CASE Join(n)
    BY <1>1, <1>2, <2>5 DEF Join, NamesDistinct, HasPod, history
  <2> QED
    BY <2>1, <2>2, <2>3, <2>4, <2>5 DEF Agent
<1>8. CASE \E c \in Commands : Begin(c)
  BY <1>1, <1>3, <1>8 DEF Begin, clusterVars, PodsOfNodes, NamesDistinct, HasPod
<1>9. CASE \/ WaitDaemonSet \/ ListAgents \/ AskAgent \/ AskAgain \/ Decide \/ AddWebhook
           \/ ShowStatus \/ DeadlinePasses \/ UNCHANGED vars
  BY <1>6, <1>9 DEF WaitDaemonSet, ListAgents, AskAgent, AskAgain, Decide, PollEnds,
     AddWebhook, ShowStatus, DeadlinePasses, clusterVars, history, vars
<1> QED
  BY <1>4, <1>5, <1>7, <1>8, <1>9 DEF Next, Kkctl

\* Every command belongs to the list kkctl was given, and the first one finds an
\* empty cluster.
LEMMA CommandStep ==
    ASSUME RolloutInv, [Next]_vars
    PROVE  /\ webhook' \in BOOLEAN
           /\ pc' \in Points /\ cmd' \in Commands \cup {NoCommand}
           /\ runs' \in 0..MaxRuns /\ late' \in BOOLEAN
           /\ NothingBeforeFirst'
<1> USE DEF Points, Busy, Goto
<1>1. /\ webhook \in BOOLEAN
      /\ pc \in Points /\ cmd \in Commands \cup {NoCommand}
      /\ runs \in 0..MaxRuns /\ late \in BOOLEAN /\ MaxRuns \in Nat
      /\ NothingBeforeFirst
  BY ConstantsAssumption DEF RolloutInv, TypeOK
<1>2. ASSUME NEW c \in Commands, Begin(c)
      PROVE  /\ webhook' \in BOOLEAN
             /\ pc' \in Points /\ cmd' \in Commands \cup {NoCommand}
             /\ runs' \in 0..MaxRuns /\ late' \in BOOLEAN
             /\ NothingBeforeFirst'
  <2>1. /\ cmd' = c /\ runs' = runs + 1 /\ runs < MaxRuns /\ pc' = "apply"
        /\ UNCHANGED <<clusterVars, late, webhook>>
    BY <1>2 DEF Begin, clusterVars
  <2>2. runs' \in 0..MaxRuns /\ runs' # 0
    BY <1>1, <2>1
  <2> QED
    BY <1>1, <2>1, <2>2, CommandTypes DEF NothingBeforeFirst
<1>3. CASE Kkctl \/ DeadlinePasses
  <2>1. /\ pc # "idle" /\ pc' \in Points \ {"idle"}
        /\ UNCHANGED <<cmd, runs>>
    BY <1>3 DEF Kkctl, Apply, WaitDaemonSet, ListAgents, AskAgent, AskAgain, Decide, PollEnds,
       AddWebhook, ShowStatus, DeadlinePasses
  <2>2. webhook' \in BOOLEAN
    BY <1>1, <1>3 DEF Kkctl, Apply, WaitDaemonSet, ListAgents, AskAgent, AskAgain,
       Decide, PollEnds, AddWebhook, ShowStatus, DeadlinePasses, clusterVars
  <2>3. late' \in BOOLEAN
    BY <1>1, <1>3 DEF Kkctl, Apply, WaitDaemonSet, ListAgents, AskAgent, AskAgain,
       Decide, PollEnds, AddWebhook, ShowStatus, DeadlinePasses
  <2> QED
    BY <1>1, <2>1, <2>2, <2>3 DEF NothingBeforeFirst
<1>4. CASE SyncStatus \/ \E n \in Nodes : Agent(n) \/ Join(n) \/ Leave(n)
  <2>1. UNCHANGED <<webhook, pc, cmd, runs, late, ds>>
    BY <1>4 DEF SyncStatus, Agent, CreatePod, PodReady, PodCrashes, AgentReports,
       RemovePod, ReplacePod, Join, Leave, Others
  <2>2. ASSUME ds = Absent, \A n \in Nodes : ~HasPod(n)
        PROVE  status' = status /\ \A n \in Nodes : ~HasPod(n)'
    <3>1. CASE SyncStatus
      BY <2>2, <3>1 DEF SyncStatus
    <3>2. CASE \E n \in Nodes : Agent(n) \/ Join(n)
      BY <2>2, <3>2 DEF Agent, CreatePod, PodReady, PodCrashes, AgentReports, RemovePod,
         ReplacePod, Join, HasPod
    <3>3. ASSUME NEW n \in Nodes, Leave(n)
          PROVE  status' = status /\ \A m \in Nodes : ~HasPod(m)'
      <4>1. pod' = [pod EXCEPT ![n] = Absent] /\ pod \in [Nodes -> Pod \cup {Absent}]
        BY <3>3 DEF Leave, RolloutInv, TypeOK
      <4> QED
        BY <2>2, <3>3, <4>1 DEF Leave, HasPod
    <3> QED
      BY <1>4, <3>1, <3>2, <3>3
  <2> QED
    BY <1>1, <2>1, <2>2 DEF NothingBeforeFirst, StatusComplete
<1>5. CASE UNCHANGED vars
  BY <1>1, <1>5 DEF NothingBeforeFirst, HasPod, StatusComplete, vars
<1> QED
  BY <1>2, <1>3, <1>4, <1>5 DEF Next

\* Whom an answer counts for: one agent less to ask, at most one report more.
LEMMA AskAgentStep ==
    ASSUME RolloutInv, AskAgent
    PROVE  /\ unasked' \subseteq listed /\ listed' = listed
           /\ bpf' \in Nat /\ apparmor' \in Nat
           /\ bpf' + apparmor' + Cardinality(unasked')
                <= bpf + apparmor + Cardinality(unasked)
           /\ apparmor <= apparmor'
<1>1. /\ unasked \subseteq listed /\ IsFiniteSet(listed)
      /\ bpf \in Nat /\ apparmor \in Nat
  BY DEF RolloutInv, TypeOK, RoundInStep
<1>2. PICK s \in unasked :
         /\ unasked' = unasked \ {s}
         /\ \/ apparmor' = apparmor + 1 /\ bpf' = bpf
            \/ bpf' = bpf + 1 /\ apparmor' = apparmor
            \/ bpf' = bpf /\ apparmor' = apparmor
  BY DEF AskAgent
<1>3. IsFiniteSet(unasked)
  BY <1>1, FS_Subset
<1>4. Cardinality(unasked) \in Nat /\ Cardinality(unasked') = Cardinality(unasked) - 1
  BY <1>2, <1>3, FS_RemoveElement, FS_CardinalityType
<1>5. listed' = listed
  BY DEF AskAgent
<1> QED
  BY <1>1, <1>2, <1>4, <1>5

\* The list of a round is finite, since the names are.
LEMMA ListedFinite ==
    ASSUME RolloutInv
    PROVE  IsFiniteSet({pod[n].name : n \in {m \in Nodes : HasPod(m)}})
           /\ {pod[n].name : n \in {m \in Nodes : HasPod(m)}} \subseteq PodNames
<1>1. pod \in [Nodes -> Pod \cup {Absent}]
  BY DEF RolloutInv, TypeOK
<1>2. \A n \in Nodes : HasPod(n) => pod[n].name \in PodNames
  BY <1>1 DEF HasPod, Pod
<1>3. {pod[n].name : n \in {m \in Nodes : HasPod(m)}} \subseteq PodNames
  BY <1>2
<1> QED
  BY <1>3, FS_Subset, ConstantsAssumption

\* The counters never claim more agents than there are left to claim.
LEMMA RoundStep ==
    ASSUME RolloutInv, [Next]_vars
    PROVE  /\ listed' \subseteq PodNames /\ unasked' \subseteq listed'
           /\ bpf' \in Nat /\ apparmor' \in Nat
           /\ bpf' + apparmor' + Cardinality(unasked') <= Cardinality(listed')
           /\ RoundInStep'
<1> USE DEF Goto
<1>1. /\ listed \subseteq PodNames /\ unasked \subseteq listed
      /\ bpf \in Nat /\ apparmor \in Nat
      /\ bpf + apparmor + Cardinality(unasked) <= Cardinality(listed)
      /\ RoundInStep
      /\ Cardinality(listed) \in Nat /\ Cardinality(unasked) \in Nat
  BY FS_CardinalityType, FS_Subset DEF RolloutInv, TypeOK, RoundInStep
<1>2. CASE \E c \in Commands : Begin(c)
  <2>1. /\ pc \notin {"poll", "verdict"} /\ pc' \notin {"poll", "verdict"}
        /\ UNCHANGED pollVars
    BY <1>2 DEF Begin
  <2> QED
    BY <1>1, <2>1 DEF RoundInStep, pollVars
<1>3. CASE ListAgents
  <2>1. pc = "list" /\ bpf' = bpf /\ apparmor' = apparmor /\ cmd' = cmd
    BY <1>3 DEF ListAgents
  <2>2. CASE pc' \in {"status", "addwebhook"} /\ UNCHANGED <<listed, unasked>>
    BY <1>1, <2>1, <2>2 DEF RoundInStep
  <2>3. CASE /\ ~cmd.skip /\ cmd.wait
             /\ listed' = {pod[n].name : n \in {m \in Nodes : HasPod(m)}}
             /\ unasked' = listed' /\ pc' = "poll"
    <3>1. listed' \subseteq PodNames /\ IsFiniteSet(listed')
      BY <2>3, ListedFinite
    <3>2. bpf' = 0 /\ apparmor' = 0 /\ Cardinality(listed') \in Nat
      BY <1>1, <2>1, <3>1, FS_CardinalityType DEF RoundInStep
    <3> QED
      BY <2>1, <2>3, <3>1, <3>2 DEF RoundInStep
  <2> QED
    BY <1>3, <2>2, <2>3 DEF ListAgents, HasPod
<1>4. CASE AskAgent
  <2>1. /\ unasked' \subseteq listed /\ listed' = listed
        /\ bpf' \in Nat /\ apparmor' \in Nat
        /\ bpf' + apparmor' + Cardinality(unasked')
             <= bpf + apparmor + Cardinality(unasked)
    BY <1>4, AskAgentStep
  <2>2. IsFiniteSet(unasked')
    BY <1>1, <2>1, FS_Subset DEF RoundInStep
  <2>3. Cardinality(unasked') \in Nat
    BY <2>2, FS_CardinalityType
  <2>4. bpf' + apparmor' + Cardinality(unasked') <= Cardinality(listed')
    BY <1>1, <2>1, <2>3
  <2>5. pc = "poll" /\ cmd' = cmd /\ (pc' = "poll" \/ (pc' = "verdict" /\ unasked' = {}))
    BY <1>4 DEF AskAgent
  <2> QED
    BY <1>1, <2>1, <2>4, <2>5 DEF RoundInStep
<1>5. CASE AskAgain
  <2>1. /\ pc = "verdict" /\ pc' = "poll" /\ cmd' = cmd /\ listed' = listed
        /\ unasked' = listed /\ bpf' = 0 /\ apparmor' = 0
    BY <1>5 DEF AskAgain
  <2> QED
    BY <1>1, <2>1 DEF RoundInStep
<1>6. CASE /\ UNCHANGED <<pollVars, cmd>>
           /\ pc' = pc \/ {pc, pc'} \cap {"poll", "verdict"} = {}
  BY <1>1, <1>6 DEF RoundInStep, pollVars
<1>7. CASE Apply \/ WaitDaemonSet \/ AddWebhook \/ ShowStatus
  <2>1. UNCHANGED <<pollVars, cmd>>
    BY <1>7 DEF Apply, WaitDaemonSet, AddWebhook, ShowStatus
  <2>2. {pc, pc'} \cap {"poll", "verdict"} = {}
    BY <1>7 DEF Apply, WaitDaemonSet, AddWebhook, ShowStatus
  <2> QED
    BY <1>6, <2>1, <2>2
<1>8. CASE Decide
  <2>1. /\ listed' = {} /\ unasked' = {} /\ bpf' = 0 /\ apparmor' = 0
        /\ pc' \notin {"poll", "verdict"}
    BY <1>8 DEF Decide, PollEnds
  <2>2. IsFiniteSet({}) /\ Cardinality({}) = 0
    BY FS_EmptySet
  <2> QED
    BY <2>1, <2>2 DEF RoundInStep
<1>9. CASE \/ DeadlinePasses \/ SyncStatus
           \/ \E n \in Nodes : Agent(n) \/ Join(n) \/ Leave(n)
           \/ UNCHANGED vars
  <2>1. UNCHANGED <<pollVars, cmd, pc>>
    BY <1>9 DEF DeadlinePasses, SyncStatus, Agent, CreatePod, PodReady, PodCrashes,
       AgentReports, RemovePod, ReplacePod, Join, Leave, Others, vars, pollVars
  <2> QED
    BY <1>6, <2>1
<1> QED
  BY <1>2, <1>3, <1>4, <1>5, <1>7, <1>8, <1>9 DEF Next, Kkctl

\* The first install starts with no agent pod and no status that could be taken
\* for a complete one.
LEMMA FirstBegins ==
    ASSUME RolloutInv, NEW c \in Commands, Begin(c), FirstInstall'
    PROVE  FirstInv'
<1>1. /\ runs \in Nat /\ runs' = runs + 1 /\ runs' = 1 /\ pc' = "apply"
      /\ served' = {} /\ UNCHANGED clusterVars
  BY ConstantsAssumption DEF Begin, FirstInstall, Goto, RolloutInv, TypeOK
<1>2. runs = 0
  BY <1>1
<1>3. ds = Absent /\ (\A n \in Nodes : ~HasPod(n)) /\ ~StatusComplete
  BY <1>2 DEF RolloutInv, NothingBeforeFirst
<1>4. FirstPods'
  BY <1>1, <1>3 DEF FirstPods, PastWait, HasPod, clusterVars
<1>5. FirstStatus' /\ AppArmorCounted' /\ FirstSkipIsSound'
  BY <1>1, <1>3
  DEF FirstStatus, AppArmorCounted, FirstSkipIsSound, PastWait, StatusComplete,
      clusterVars
<1> QED
  BY <1>4, <1>5 DEF FirstInv

\* During the first install no agent is replaced, an agent that gets ready is
\* remembered, and the status tells of agents that have been ready.
LEMMA FirstCluster ==
    ASSUME RolloutInv, FirstInstall,
           SyncStatus \/ \E n \in Nodes : Agent(n) \/ Join(n) \/ Leave(n)
    PROVE  FirstInv'
<1>1. /\ FirstPods /\ FirstStatus /\ AppArmorCounted /\ FirstSkipIsSound
      /\ pod \in [Nodes -> Pod \cup {Absent}]
      /\ joined \subseteq Nodes /\ early \subseteq joined /\ kept \subseteq early
  BY DEF RolloutInv, FirstInv, TypeOK
<1>2. UNCHANGED <<webhook, pc, cmd, runs, pollVars, ds>>
  BY DEF SyncStatus, Agent, CreatePod, PodReady, PodCrashes, AgentReports, RemovePod,
     ReplacePod, Join, Leave, Others
<1> DEFINE PodsKnown == \A m \in Nodes : HasPod(m)' => /\ ds # Absent /\ pod'[m].img = ds
                                                    /\ (pod'[m].ready => m \in served')
           NamesKept == \A m \in kept' \cap served :
                           HasPod(m) => HasPod(m)' /\ pod'[m].name = pod[m].name
           Shrink == /\ early' \subseteq early /\ kept' \subseteq kept
                     /\ served \subseteq served'
                     /\ \A m \in served' \ served : HasPod(m)'
<1>3. PodsKnown /\ NamesKept /\ Shrink
  <2>1. CASE UNCHANGED <<pod, history>>
    BY <1>1, <2>1 DEF FirstPods, HasPod, history
  <2>2. ASSUME NEW n \in Nodes, CreatePod(n)
        PROVE PodsKnown /\ NamesKept /\ Shrink
    <3>1. /\ \A m \in Nodes \ {n} : pod'[m] = pod[m]
          /\ pod'[n].img = ds /\ ~pod'[n].ready
          /\ ds # Absent /\ pod[n] = Absent /\ UNCHANGED history
      BY <2>2, CreatePodStep DEF CreatePod
    <3> QED
      BY <1>1, <3>1 DEF FirstPods, HasPod, history
  <2>3. ASSUME NEW n \in Nodes, PodReady(n)
        PROVE PodsKnown /\ NamesKept /\ Shrink
    <3>1. pod[n] # Absent /\ early' = early /\ kept' = kept
      BY <2>3 DEF PodReady
    <3>2. pod[n].img = cmd.img /\ runs = 1
      BY <1>1, <3>1 DEF FirstInstall, FirstPods, HasPod
    <3>3. served' = served \cup {n}
      BY <2>3, <3>2 DEF PodReady
    <3> QED
      BY <1>1, <2>3, <3>1, <3>3, PodProgress DEF FirstPods, HasPod
  <2>4. ASSUME NEW n \in Nodes, PodCrashes(n) \/ AgentReports(n)
        PROVE PodsKnown /\ NamesKept /\ Shrink
    <3>1. UNCHANGED history /\ ~(PodReady(n) /\ ~pod'[n].ready)
      BY <1>1, <2>4 DEF PodCrashes, AgentReports, PodReady
    <3>2. pod'[n].ready => pod[n].ready
      BY <1>1, <2>4 DEF PodCrashes, AgentReports, Pod
    <3>3. \A m \in Nodes : HasPod(m) => (pod'[m].ready => pod[m].ready)
      BY <2>4, <3>2, PodProgress
    <3> QED
      BY <1>1, <2>4, <3>1, <3>3, PodProgress DEF FirstPods, history
  <2>5. ASSUME NEW n \in Nodes, RemovePod(n) \/ ReplacePod(n) \/ Leave(n)
        PROVE PodsKnown /\ NamesKept /\ Shrink
    <3>1. served' = served
      BY <2>5 DEF RemovePod, ReplacePod, Leave
    <3> QED
      BY <1>1, <2>5, <3>1, PodGoes DEF FirstPods, HasPod
  <2> QED
    BY <2>1, <2>2, <2>3, <2>4, <2>5 DEF SyncStatus, Agent, Join
<1>4. FirstPods'
  BY <1>1, <1>2, <1>3 DEF FirstPods, PastWait
<1>5. early \subseteq served => early' \subseteq served'
  BY <1>3
<1>6. StatusComplete' => early' \subseteq served'
  <2>1. CASE status' = status
    BY <1>1, <1>5, <2>1 DEF FirstStatus, StatusComplete
  <2>2. CASE SyncStatus
    <3>1. ReadyNodes \subseteq joined /\ IsFiniteSet(joined)
      BY DEF ReadyNodes, RolloutInv, PodsOfNodes
    <3>2. StatusComplete' => Cardinality(ReadyNodes) = Cardinality(joined)
      BY <2>2 DEF SyncStatus, StatusComplete, Counted
    <3>3. StatusComplete' => ReadyNodes = joined
      BY <3>1, <3>2, FS_Subset
    <3>4. StatusComplete' => early \subseteq served
      BY <1>1, <3>3 DEF ReadyNodes, FirstPods, HasPod
    <3> QED
      BY <1>5, <3>4
  <2>3. ASSUME NEW n \in Nodes, Agent(n) \/ Join(n) \/ Leave(n)
        PROVE  status' = status
    BY <2>3 DEF Agent, CreatePod, PodReady, PodCrashes, AgentReports, RemovePod,
       ReplacePod, Join, Leave
  <2> QED
    BY <2>1, <2>2, <2>3
<1>7. FirstStatus'
  BY <1>1, <1>2, <1>5, <1>6 DEF FirstStatus, PastWait
<1>8. AppArmorCounted'
  <2>1. pc \in {"poll", "verdict"} => early \subseteq served
    BY <1>1 DEF FirstStatus, PastWait, RolloutInv, RoundInStep
  <2>2. pc \in {"poll", "verdict"} => \A n \in kept' : n \in kept /\ pod'[n].name = pod[n].name
    BY <1>1, <1>3, <2>1 DEF FirstPods
  <2> QED
    BY <1>1, <1>2, <2>2 DEF AppArmorCounted, pollVars
<1>9. FirstSkipIsSound'
  BY <1>1, <1>2, <1>3 DEF FirstSkipIsSound, FirstInstall
<1> QED
  BY <1>4, <1>7, <1>8, <1>9 DEF FirstInv

\* An answer of a listed pod on an AppArmor node is not counted for BPF-LSM: no
\* other pod has its name.
LEMMA AppArmorAsked ==
    ASSUME RolloutInv, FirstInstall, AskAgent
    PROVE  AppArmorCounted'
<1>1. /\ AppArmorCounted /\ FirstStatus /\ pc = "poll"
      /\ kept \subseteq early /\ early \subseteq Nodes /\ AppArmorNodes \subseteq Nodes
      /\ unasked \subseteq listed /\ IsFiniteSet(listed)
      /\ bpf \in Nat /\ apparmor \in Nat
      /\ bpf + apparmor + Cardinality(unasked) <= Cardinality(listed)
      /\ listed' = listed /\ UNCHANGED <<kept, pod>>
  BY ConstantsAssumption
  DEF RolloutInv, FirstInv, TypeOK, RoundInStep, AskAgent, clusterVars, history
<1>2. PICK s \in unasked :
         /\ unasked' = unasked \ {s}
         /\ \/ Report(s, AppArmorNodes) /\ apparmor' = apparmor + 1 /\ bpf' = bpf
            \/ Report(s, Nodes \ AppArmorNodes) /\ bpf' = bpf + 1 /\ apparmor' = apparmor
            \/ bpf' = bpf /\ apparmor' = apparmor
  BY DEF AskAgent
<1>3. IsFiniteSet(unasked)
  BY <1>1, FS_Subset
<1>4. /\ Cardinality(unasked) \in Nat /\ Cardinality(unasked') = Cardinality(unasked) - 1
      /\ Cardinality(listed) \in Nat
  BY <1>1, <1>2, <1>3, FS_RemoveElement, FS_CardinalityType
<1>5. \A n \in kept : HasPod(n)
  BY <1>1 DEF FirstStatus, FirstPods, PastWait, RolloutInv, FirstInv, RoundInStep
<1>6. ASSUME NEW n \in kept \cap AppArmorNodes
      PROVE  /\ pod[n].name \in listed
             /\ \/ pod[n].name \in unasked'
                \/ apparmor' > 0
                \/ bpf' + apparmor' + Cardinality(unasked') < Cardinality(listed)
  <2>1. /\ pod[n].name \in listed
        /\ \/ pod[n].name \in unasked
           \/ apparmor > 0
           \/ bpf + apparmor + Cardinality(unasked) < Cardinality(listed)
    BY <1>1 DEF AppArmorCounted
  <2>2. CASE pod[n].name = s
    <3>1. ~Report(s, Nodes \ AppArmorNodes)
      BY <1>1, <1>5, <2>2 DEF Report, RolloutInv, NamesDistinct, HasPod
    <3>2. CASE apparmor' = apparmor + 1
      BY <1>1, <2>1, <3>2
    <3>3. CASE bpf' = bpf /\ apparmor' = apparmor
      <4>1. bpf' + apparmor' + Cardinality(unasked') < Cardinality(listed)
        BY <1>1, <1>4, <3>3
      <4> QED
        BY <2>1, <4>1
    <3> QED
      BY <1>2, <3>1, <3>2, <3>3
  <2>3. CASE pod[n].name # s /\ pod[n].name \in unasked
    BY <1>2, <2>1, <2>3
  <2>4. CASE apparmor > 0
    BY <1>1, <1>2, <2>1, <2>4
  <2>5. CASE bpf + apparmor + Cardinality(unasked) < Cardinality(listed)
    <3>1. bpf' + apparmor' \in {bpf + apparmor, bpf + apparmor + 1}
      BY <1>1, <1>2
    <3>2. bpf + apparmor \in Nat
      BY <1>1
    <3>3. \A x, u, l \in Nat : \A y \in {x, x + 1} : x + u < l => y + (u - 1) < l
      OBVIOUS
    <3>4. bpf' + apparmor' + Cardinality(unasked') < Cardinality(listed)
      BY <1>4, <2>5, <3>1, <3>2, <3>3
    <3> QED
      BY <2>1, <3>4
  <2> QED
    BY <2>1, <2>2, <2>3, <2>4, <2>5
<1> QED
  BY <1>1, <1>6 DEF AppArmorCounted

\* kkctl goes on only after a complete status, lists every pod there is, and leaves
\* the webhook out only when all of them have reported BPF-LSM.
LEMMA FirstKkctl ==
    ASSUME RolloutInv, FirstInstall, Kkctl \/ DeadlinePasses
    PROVE  FirstInv'
<1> USE DEF Goto
<1>1. /\ FirstPods /\ FirstStatus /\ AppArmorCounted /\ FirstSkipIsSound
      /\ kept \subseteq early /\ cmd.op = "install" /\ runs = 1
  BY DEF RolloutInv, FirstInv, TypeOK, FirstInstall
<1>2. /\ UNCHANGED <<cmd, runs, history, joined, pod, status>>
  BY DEF Kkctl, Apply, WaitDaemonSet, ListAgents, AskAgent, AskAgain, Decide, PollEnds,
     AddWebhook, ShowStatus, DeadlinePasses, clusterVars
<1>3. /\ UNCHANGED <<early, kept, served>>
      /\ (StatusComplete' <=> StatusComplete)
  BY <1>2 DEF history, StatusComplete
<1>4. cmd \in Commands
  BY <1>1 DEF RolloutInv, NothingBeforeFirst, FirstInstall
<1>5. cmd.wait \in BOOLEAN /\ cmd.skip \in BOOLEAN /\ cmd.img \in Images
  BY <1>4, CommandTypes
<1>6. CASE Apply
  <2>1. /\ pc = "apply" /\ pc' \in {"waitds", "list", "failed"}
        /\ ds' \in {ds, cmd.img} /\ (pc' # "failed" => ds' = cmd.img)
        /\ pc' = "list" => ~cmd.wait
    BY <1>1, <1>5, <1>6 DEF Apply
  <2>2. FirstPods'
    <3>1. ds = Absent /\ pod' = pod /\ \A n \in Nodes : ~HasPod(n)
      BY <1>1, <1>2, <2>1 DEF FirstPods
    <3>2. \A n \in kept' \cap served' : HasPod(n)'
      BY <1>1, <1>3, <3>1 DEF FirstPods, HasPod
    <3> QED
      BY <1>2, <2>1, <3>1, <3>2 DEF FirstPods, PastWait, HasPod
  <2>3. FirstStatus'
    BY <1>1, <1>2, <1>3, <2>1 DEF FirstStatus, PastWait
  <2> QED
    BY <2>1, <2>2, <2>3 DEF FirstInv, AppArmorCounted, FirstSkipIsSound
<1>7. ASSUME ds' = ds, PastWait, pc' # "apply", pc' # "waitds"
      PROVE  FirstPods' /\ FirstStatus'
  <2>1. FirstPods'
    BY <1>1, <1>2, <1>3, <1>7 DEF FirstPods, HasPod
  <2> QED
    BY <1>1, <1>2, <1>3, <1>7, <2>1 DEF FirstStatus
<1>8. CASE WaitDaemonSet
  <2>1. /\ pc = "waitds" /\ ds' = ds
        /\ (pc' = "list" /\ StatusComplete) \/ pc' = "failed"
    BY <1>1, <1>8 DEF WaitDaemonSet, clusterVars
  <2>2. FirstPods'
    BY <1>1, <1>2, <1>3, <2>1 DEF FirstPods, PastWait, HasPod
  <2>3. FirstStatus'
    BY <1>1, <1>2, <1>3, <2>1 DEF FirstStatus, PastWait
  <2> QED
    BY <2>1, <2>2, <2>3 DEF FirstInv, AppArmorCounted, FirstSkipIsSound
<1>9. CASE ListAgents
  <2>1. pc = "list" /\ ds' = ds /\ pc' \in {"status", "addwebhook", "poll"}
    BY <1>9 DEF ListAgents, clusterVars
  <2>2. FirstPods' /\ FirstStatus'
    BY <1>7, <2>1 DEF PastWait
  <2>3. FirstSkipIsSound'
    BY <1>2, <1>9 DEF ListAgents, FirstSkipIsSound
  <2>4. AppArmorCounted'
    <3>1. CASE pc' = "poll"
      <4>1. /\ cmd.wait /\ unasked' = listed'
            /\ listed' = {pod[n].name : n \in {m \in Nodes : HasPod(m)}}
        BY <1>9, <3>1 DEF ListAgents, HasPod
      <4>2. \A n \in kept : HasPod(n) /\ n \in Nodes
        BY <1>1, <2>1, <4>1 DEF FirstStatus, FirstPods, PastWait, RolloutInv, TypeOK
      <4> QED
        BY <1>2, <1>3, <4>1, <4>2 DEF AppArmorCounted
    <3> QED
      BY <2>1, <3>1 DEF AppArmorCounted
  <2> QED
    BY <2>2, <2>3, <2>4 DEF FirstInv
<1>10. CASE AskAgent
  <2>1. pc = "poll" /\ ds' = ds /\ pc' \in {"poll", "verdict"}
    BY <1>10 DEF AskAgent, clusterVars
  <2>2. FirstPods' /\ FirstStatus'
    BY <1>7, <2>1 DEF PastWait
  <2> QED
    BY <1>10, <2>1, <2>2, AppArmorAsked DEF FirstInv, FirstSkipIsSound
<1>11. CASE AskAgain
  <2>1. /\ pc = "verdict" /\ ds' = ds /\ pc' = "poll" /\ listed' = listed
        /\ unasked' = listed
    BY <1>11 DEF AskAgain, clusterVars
  <2>2. FirstPods' /\ FirstStatus'
    BY <1>7, <2>1 DEF PastWait
  <2>3. AppArmorCounted'
    BY <1>1, <1>2, <1>3, <2>1 DEF AppArmorCounted
  <2> QED
    BY <2>1, <2>2, <2>3 DEF FirstInv, FirstSkipIsSound
<1>12. CASE Decide
  <2>1. /\ pc = "verdict" /\ ds' = ds /\ pc' \in {"status", "addwebhook"}
        /\ pc' = "status" => bpf + apparmor >= Total /\ apparmor = 0
    BY <1>12 DEF Decide, PollEnds, clusterVars
  <2>2. FirstPods' /\ FirstStatus'
    BY <1>7, <2>1 DEF PastWait
  <2>3. unasked = {} /\ Cardinality(unasked) = 0 /\ IsFiniteSet(listed)
        /\ bpf \in Nat
    BY <2>1, FS_EmptySet DEF RolloutInv, RoundInStep, TypeOK
  <2>4. Cardinality(listed) \in Nat
    BY <2>3, FS_CardinalityType
  <2>5. pc' = "status" => kept \cap AppArmorNodes = {}
    BY <1>1, <2>1, <2>3, <2>4 DEF AppArmorCounted, Total
  <2>6. FirstSkipIsSound'
    BY <1>2, <1>3, <2>1, <2>5 DEF FirstSkipIsSound
  <2> QED
    BY <2>1, <2>2, <2>6 DEF FirstInv, AppArmorCounted
<1>13. CASE AddWebhook
  <2>1. /\ pc = "addwebhook" /\ ds' = ds
        /\ (webhook' = TRUE /\ pc' = "status") \/ pc' = "failed"
    BY <1>13 DEF AddWebhook
  <2>2. FirstPods' /\ FirstStatus'
    BY <1>7, <2>1 DEF PastWait
  <2> QED
    BY <2>1, <2>2 DEF FirstInv, AppArmorCounted, FirstSkipIsSound
<1>14. CASE ShowStatus
  <2>1. pc = "status" /\ UNCHANGED <<ds, webhook>> /\ pc' \in {"ok", "failed"}
    BY <1>14 DEF ShowStatus, clusterVars
  <2>2. FirstPods' /\ FirstStatus'
    BY <1>7, <2>1 DEF PastWait
  <2>3. FirstSkipIsSound'
    BY <1>1, <1>2, <1>3, <2>1 DEF FirstSkipIsSound, FirstInstall
  <2> QED
    BY <2>1, <2>2, <2>3 DEF FirstInv, AppArmorCounted
<1>15. CASE DeadlinePasses
  <2>1. UNCHANGED <<pc, ds, webhook, pollVars>>
    BY <1>15 DEF DeadlinePasses, clusterVars
  <2>2. FirstPods' /\ FirstStatus'
    BY <1>1, <1>2, <1>3, <2>1 DEF FirstPods, FirstStatus, PastWait, HasPod
  <2>3. AppArmorCounted' /\ FirstSkipIsSound'
    BY <1>1, <1>2, <1>3, <2>1 DEF AppArmorCounted, FirstSkipIsSound, FirstInstall, pollVars
  <2> QED
    BY <2>2, <2>3 DEF FirstInv
<1> QED
  BY <1>6, <1>8, <1>9, <1>10, <1>11, <1>12, <1>13, <1>14, <1>15 DEF Kkctl

\* Every step keeps the invariant.
LEMMA NextKeepsInv == RolloutInv /\ [Next]_vars => RolloutInv'
<1> SUFFICES ASSUME RolloutInv, [Next]_vars PROVE RolloutInv'
  OBVIOUS
<1>1. TypeOK'
  BY ClusterStep, CommandStep, RoundStep DEF TypeOK
<1>2. FirstInstall' => FirstInv'
  <2>1. ASSUME NEW c \in Commands, Begin(c), FirstInstall' PROVE FirstInv'
    BY <2>1, FirstBegins
  <2>2. CASE SyncStatus \/ \E n \in Nodes : Agent(n) \/ Join(n) \/ Leave(n)
    <3>1. UNCHANGED <<cmd, runs>>
      BY <2>2 DEF SyncStatus, Agent, CreatePod, PodReady, PodCrashes, AgentReports,
         RemovePod, ReplacePod, Join, Leave, Others
    <3> QED
      BY <2>2, <3>1, FirstCluster DEF FirstInstall
  <2>3. CASE Kkctl \/ DeadlinePasses
    <3>1. UNCHANGED <<cmd, runs>>
      BY <2>3 DEF Kkctl, Apply, WaitDaemonSet, ListAgents, AskAgent, AskAgain, Decide, PollEnds,
         AddWebhook, ShowStatus, DeadlinePasses
    <3> QED
      BY <2>3, <3>1, FirstKkctl DEF FirstInstall
  <2>4. CASE UNCHANGED vars
    <3>1. FirstInstall' <=> FirstInstall
      BY <2>4 DEF FirstInstall, vars
    <3> QED
      BY <2>4, <3>1 DEF RolloutInv, FirstInv, FirstPods, FirstStatus, AppArmorCounted,
         FirstSkipIsSound, FirstInstall, HasPod, PastWait, StatusComplete, vars
  <2> QED
    BY <2>1, <2>2, <2>3, <2>4 DEF Next
<1> QED
  BY <1>1, <1>2, ClusterStep, CommandStep, RoundStep DEF RolloutInv

\* The invariant of the cluster and of all that kkctl does to it.
LEMMA RolloutInvariant == Spec => []RolloutInv
  BY InitInv, NextKeepsInv, PTL DEF Spec

\* Every variable of the rollout stays within its type; in no round do more agents
\* answer than were listed.
THEOREM Typing == Spec => []TypeOK
<1>1. RolloutInv => TypeOK
  BY DEF RolloutInv
<1> QED
  BY <1>1, RolloutInvariant, PTL

\* A first `install --wait` that goes on past its wait has seen, by the controller's
\* status, a ready agent of the wanted image on every node that was there when it
\* began and is there still; what has become of these agents since is not promised.
THEOREM FirstRollout == Spec => []FirstRolloutComplete
<1>1. RolloutInv => FirstRolloutComplete
  BY DEF RolloutInv, FirstInv, FirstStatus, FirstRolloutComplete
<1> QED
  BY <1>1, RolloutInvariant, PTL

\* A first install that leaves the webhook out of its own accord has no AppArmor
\* node among those that were there when it began and have kept their agent's pod,
\* although agents may crash, pods be evicted and nodes leave at any time.
THEOREM FirstSkip == Spec => []FirstSkipIsSound
<1>1. RolloutInv => FirstSkipIsSound
  BY DEF RolloutInv, FirstInv, FirstSkipIsSound
<1> QED
  BY <1>1, RolloutInvariant, PTL
====
