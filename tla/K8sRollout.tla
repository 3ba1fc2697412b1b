---- MODULE K8sRollout ----
(***************************************************************************)
(* Kubernetes mode: `kkctl install` and `kkctl upgrade` against a living   *)
(* cluster.  kkctl changes the agent's DaemonSet, waits until the          *)
(* DaemonSet's STATUS says that all agents are ready, asks the agents by   *)
(* their logs which enforcer they use and decides about the AppArmor       *)
(* webhook.  The status is written by the DaemonSet controller when it     *)
(* gets to it, pods come and go one at a time, an agent reports its        *)
(* enforcer some time after it is ready, agents crash and are evicted, and *)
(* nodes join and leave the cluster.                                       *)
(*                                                                         *)
(* One kkctl runs at a time, several may run one after the other.          *)
(***************************************************************************)
EXTENDS Naturals, FiniteSets

CONSTANTS
    Nodes,          \* the nodes the cluster may ever have
    AppArmorNodes,  \* nodes whose agent picks the AppArmor enforcer, the
                    \* others pick BPF-LSM
    FirstNodes,     \* nodes that are there from the start
    Images,
    Commands,       \* the command lines kkctl may be given
    NoCommand,
    Absent,         \* no DaemonSet, no pod
    PodNames,       \* names of agent pods
    MaxRuns         \* how many commands are given, one after the other

Command == [op : {"install", "upgrade"}, img : Images, wait : BOOLEAN, skip : BOOLEAN]

ASSUME ConstantsAssumption ==
    /\ AppArmorNodes \subseteq Nodes
    /\ FirstNodes \subseteq Nodes /\ IsFiniteSet(FirstNodes)
    /\ Commands \subseteq Command /\ NoCommand \notin Commands
    /\ Absent \notin Images
    /\ IsFiniteSet(PodNames)
    /\ MaxRuns \in Nat

VARIABLES
    joined,         \* nodes of the cluster
    ds,             \* image in the DaemonSet's template, or Absent
    pod,            \* node -> its agent pod, or Absent
    status,         \* the DaemonSet's status as last written
    webhook,        \* is the AppArmor webhook installed
    pc, cmd, runs,  \* kkctl: control point, command, commands given so far
    late,           \* kkctl: the deadline of the current wait has passed
    listed,         \* kkctl: agent pods listed, by name
    unasked,        \* kkctl: of these, not yet asked in this round
    bpf, apparmor,  \* kkctl: of these, how many reported what in this round
    early,          \* history: nodes that have been there since the first command began
    kept,           \* history: of these, those whose agent pod has not been removed
    served          \* history: nodes that have run a ready agent of the first
                    \* command's image while it was the only one

clusterVars == <<joined, ds, pod, status, webhook>>
pollVars == <<listed, unasked, bpf, apparmor>>
history == <<early, kept, served>>
vars == <<joined, ds, pod, status, webhook, pc, cmd, runs, late, listed,
          unasked, bpf, apparmor, early, kept, served>>

\* A pod has a name of its own; its successor on the node has another.
Pod == [name : PodNames, img : Images, ready : BOOLEAN, reported : BOOLEAN]

\* No pod is mistaken for a missing one.
ASSUME AbsentAssumption == Absent \notin Pod

Busy == {"apply", "waitds", "list", "poll", "verdict", "addwebhook", "status"}
Points == {"idle", "ok", "failed"} \cup Busy

Goto(point) == pc' = point

ReadyNodes == {n \in joined : pod[n] # Absent /\ pod[n].ready}

Init ==
    /\ joined = FirstNodes
    /\ ds = Absent
    /\ pod = [n \in Nodes |-> Absent]
    /\ status = [desired |-> 0, ready |-> 0]
    /\ webhook = FALSE
    /\ pc = "idle" /\ cmd = NoCommand /\ runs = 0 /\ late = FALSE
    /\ listed = {} /\ unasked = {} /\ bpf = 0 /\ apparmor = 0
    /\ early = {} /\ kept = {} /\ served = {}

(***************************************************************************)
(* The cluster: the DaemonSet controller, the kubelets, the agents.        *)
(***************************************************************************)
Others == UNCHANGED <<webhook, pc, cmd, runs, late, pollVars>>

Join(n) ==
    /\ n \notin joined
    /\ joined' = joined \cup {n}
    /\ UNCHANGED <<ds, pod, status, history>> /\ Others

\* A node takes its pod along.
Leave(n) ==
    /\ n \in joined
    /\ joined' = joined \ {n} /\ pod' = [pod EXCEPT ![n] = Absent]
    /\ early' = early \ {n} /\ kept' = kept \ {n}
    /\ UNCHANGED <<ds, status, served>> /\ Others

\* Names are never given again; here, not as long as anybody knows them.
NewNames == PodNames \ (listed \cup {pod[m].name : m \in {k \in Nodes : pod[k] # Absent}})

CreatePod(n) ==
    /\ n \in joined /\ ds # Absent /\ pod[n] = Absent
    /\ NewNames # {}
    /\ pod' = [pod EXCEPT ![n] = [name |-> CHOOSE s \in NewNames : TRUE, img |-> ds,
                                   ready |-> FALSE, reported |-> FALSE]]
    /\ UNCHANGED <<joined, ds, status, history>> /\ Others

\* There is no readiness probe: a pod is ready once its container has started.  The
\* log that can be read is that of the latest container.
PodReady(n) ==
    /\ pod[n] # Absent /\ ~pod[n].ready
    /\ pod' = [pod EXCEPT ![n].ready = TRUE, ![n].reported = FALSE]
    /\ served' = IF runs = 1 /\ pod[n].img = cmd.img THEN served \cup {n} ELSE served
    /\ UNCHANGED <<joined, ds, status, early, kept>> /\ Others

\* The container ends; the kubelet will start another in the same pod.
PodCrashes(n) ==
    /\ pod[n] # Absent /\ pod[n].ready
    /\ pod' = [pod EXCEPT ![n].ready = FALSE]
    /\ UNCHANGED <<joined, ds, status, history>> /\ Others

AgentReports(n) ==
    /\ pod[n] # Absent /\ pod[n].ready /\ ~pod[n].reported
    /\ pod' = [pod EXCEPT ![n].reported = TRUE]
    /\ UNCHANGED <<joined, ds, status, history>> /\ Others

\* An eviction, or by hand.
RemovePod(n) ==
    /\ pod[n] # Absent
    /\ pod' = [pod EXCEPT ![n] = Absent]
    /\ kept' = kept \ {n}
    /\ UNCHANGED <<joined, ds, status, early, served>> /\ Others

\* The default update strategy: one agent at a time goes for the new image.
ReplacePod(n) ==
    /\ pod[n] # Absent /\ pod[n].img # ds
    /\ pod[n].ready => ReadyNodes = joined
    /\ RemovePod(n)

\* The controller counts nodes and ready pods of one moment.
Counted == [desired |-> Cardinality(joined), ready |-> Cardinality(ReadyNodes)]

SyncStatus ==
    /\ ds # Absent
    /\ status # Counted
    /\ status' = Counted
    /\ UNCHANGED <<joined, ds, pod, history>> /\ Others

(***************************************************************************)
(* kkctl.                                                                  *)
(***************************************************************************)
Begin(c) ==
    /\ pc \in {"idle", "ok", "failed"} /\ runs < MaxRuns
    /\ cmd' = c /\ runs' = runs + 1
    /\ early' = IF runs = 0 THEN joined ELSE {}
    /\ kept' = early' /\ served' = {}
    /\ Goto("apply")
    /\ UNCHANGED <<clusterVars, late, pollVars>>

\* install applies all manifests but the webhook's, by server-side apply and
\* whatever is there; the DaemonSet comes after most of them, so a failure may
\* leave it changed or not.  upgrade patches the image of a DaemonSet that exists.
Apply ==
    /\ pc = "apply"
    /\ \/ /\ cmd.op = "upgrade" => ds # Absent
          /\ ds' = cmd.img
          /\ Goto(IF cmd.op = "upgrade" \/ cmd.wait THEN "waitds" ELSE "list")
       \/ /\ ds' \in {ds, IF cmd.op = "install" THEN cmd.img ELSE ds}
          /\ Goto("failed")
    /\ UNCHANGED <<joined, pod, status, webhook, cmd, runs, late, pollVars, history>>

\* The deadline of the wait kkctl is in: five minutes for the status, ninety
\* seconds for the agents' reports.
DeadlinePasses ==
    /\ pc \in {"waitds", "poll", "verdict"} /\ ~late
    /\ late' = TRUE
    /\ UNCHANGED <<clusterVars, pc, cmd, runs, pollVars, history>>

\* A variant that is content with some agent being ready.
StatusSomeReady == status.desired > 0 /\ status.ready > 0

StatusComplete == status.desired > 0 /\ status.ready = status.desired

\* The deadline is looked at before the status is asked for: a status that was
\* asked for in time counts even if it comes too late.
WaitDaemonSet ==
    /\ pc = "waitds"
    /\ \/ /\ StatusComplete
          /\ Goto(IF cmd.op = "upgrade" THEN "ok" ELSE "list")
       \/ late /\ Goto("failed")
    /\ late' = FALSE
    /\ UNCHANGED <<clusterVars, cmd, runs, pollVars, history>>

\* The flag forces the webhook out; without --wait it goes in unasked; so it
\* does when the agents cannot be listed.
ListAgents ==
    /\ pc = "list"
    /\ \/ /\ cmd.skip
          /\ Goto("status") /\ UNCHANGED <<listed, unasked>>
       \/ /\ ~cmd.skip
          /\ Goto("addwebhook") /\ UNCHANGED <<listed, unasked>>
       \/ /\ ~cmd.skip /\ cmd.wait
          /\ \E n \in Nodes : pod[n] # Absent
          /\ listed' = {pod[n].name : n \in {m \in Nodes : pod[m] # Absent}}
          /\ unasked' = listed'
          /\ Goto("poll")
    /\ UNCHANGED <<clusterVars, cmd, runs, late, bpf, apparmor, history>>

\* What the log of a listed pod says, if there is such a pod any more.
Report(name, nodes) ==
    \E n \in nodes : pod[n] # Absent /\ pod[n].name = name /\ pod[n].reported

\* One agent is asked; its log may also be out of reach just now.
AskAgent ==
    /\ pc = "poll"
    /\ \E s \in unasked :
         /\ unasked' = unasked \ {s}
         /\ \/ Report(s, AppArmorNodes) /\ apparmor' = apparmor + 1 /\ UNCHANGED bpf
            \/ Report(s, Nodes \ AppArmorNodes) /\ bpf' = bpf + 1 /\ UNCHANGED apparmor
            \/ UNCHANGED <<bpf, apparmor>>
         /\ IF unasked' = {} THEN Goto("verdict") ELSE UNCHANGED pc
    /\ UNCHANGED <<clusterVars, cmd, runs, late, listed, history>>

Total == Cardinality(listed)

\* A variant that counts on from the last round.
AskAgainAdds ==
    /\ pc = "verdict" /\ bpf + apparmor < Total /\ ~late
    /\ unasked' = listed
    /\ Goto("poll")
    /\ UNCHANGED <<clusterVars, cmd, runs, late, listed, bpf, apparmor, history>>

\* A variant that does not look at the deadline.
AskAgainForever ==
    /\ pc = "verdict" /\ bpf + apparmor < Total
    /\ unasked' = listed /\ bpf' = 0 /\ apparmor' = 0
    /\ Goto("poll")
    /\ UNCHANGED <<clusterVars, cmd, runs, late, listed, history>>

\* Another round starts from zero.
AskAgain ==
    /\ pc = "verdict" /\ bpf + apparmor < Total /\ ~late
    /\ unasked' = listed /\ bpf' = 0 /\ apparmor' = 0
    /\ Goto("poll")
    /\ UNCHANGED <<clusterVars, cmd, runs, late, listed, history>>

\* What was counted goes with the poll.
PollEnds ==
    /\ listed' = {} /\ unasked' = {} /\ bpf' = 0 /\ apparmor' = 0 /\ late' = FALSE
    /\ UNCHANGED <<clusterVars, cmd, runs, history>>

\* A variant that looks for AppArmor agents first and forgets the silent ones.
DecideHasty ==
    /\ pc = "verdict" /\ (bpf + apparmor >= Total \/ late)
    /\ Goto(IF apparmor = 0 THEN "status" ELSE "addwebhook")
    /\ PollEnds

\* Only if every listed agent has said BPF-LSM is the webhook left out.
Decide ==
    /\ pc = "verdict" /\ (bpf + apparmor >= Total \/ late)
    /\ Goto(IF bpf + apparmor >= Total /\ apparmor = 0 THEN "status" ELSE "addwebhook")
    /\ PollEnds

\* The webhook needs cert-manager; nothing ever takes the webhook out again.
AddWebhook ==
    /\ pc = "addwebhook"
    /\ \/ webhook' = TRUE /\ Goto("status")
       \/ UNCHANGED webhook /\ Goto("failed")
    /\ UNCHANGED <<joined, ds, pod, status, cmd, runs, late, pollVars, history>>

\* install ends by printing the status, and with its error if that fails.
ShowStatus ==
    /\ pc = "status"
    /\ \E result \in {"ok", "failed"} : Goto(result)
    /\ UNCHANGED <<clusterVars, cmd, runs, late, pollVars, history>>

Kkctl == Apply \/ WaitDaemonSet \/ ListAgents \/ AskAgent \/ AskAgain \/ Decide
         \/ AddWebhook \/ ShowStatus

Agent(n) == CreatePod(n) \/ PodReady(n) \/ PodCrashes(n) \/ AgentReports(n)
            \/ RemovePod(n) \/ ReplacePod(n)

Next == \/ Kkctl \/ DeadlinePasses \/ \E c \in Commands : Begin(c)
        \/ SyncStatus \/ \E n \in Nodes : Agent(n) \/ Join(n) \/ Leave(n)

Spec == Init /\ [][Next]_vars

\* kkctl runs on while it is not waiting, and clocks do not stop.  Nothing is
\* asked of the cluster: it may never become ready.
FairSpec == Spec /\ WF_vars(Kkctl) /\ WF_vars(DeadlinePasses)

(***************************************************************************)
(* Properties.                                                             *)
(***************************************************************************)

\* Every variable stays within its type.
TypeOK ==
    /\ joined \subseteq Nodes /\ early \subseteq joined /\ kept \subseteq early
    /\ served \subseteq Nodes
    /\ ds \in Images \cup {Absent}
    /\ pod \in [Nodes -> Pod \cup {Absent}]
    /\ status \in [desired : Nat, ready : Nat]
    /\ webhook \in BOOLEAN
    /\ pc \in Points
    /\ cmd \in Commands \cup {NoCommand}
    /\ runs \in 0..MaxRuns
    /\ late \in BOOLEAN
    /\ listed \subseteq PodNames /\ unasked \subseteq listed
    /\ bpf \in Nat /\ apparmor \in Nat
    /\ bpf + apparmor + Cardinality(unasked) <= Cardinality(listed)

FirstInstall == runs = 1 /\ cmd.op = "install"

PastWait == pc \in {"list", "poll", "verdict", "addwebhook", "status", "ok"}

\* On a cluster that had no KloudKnox yet, `install --wait` does wait: once it
\* goes on, every node that has been there since it began has run a ready agent of
\* the image that was asked for, however slow the controller and whoever joins.  Not
\* more than that: when kkctl goes on the status is old, and the agent may have
\* crashed, or have been evicted.
FirstRolloutComplete ==
    (FirstInstall /\ cmd.wait /\ PastWait) => early \subseteq served

\* On such a cluster the webhook is left out, unless the flag said so, only if none of
\* the nodes that were there when install began, and have kept their agent's pod, uses
\* AppArmor: agents that come late, crash, start their log anew, or are out of reach
\* are never taken for BPF-LSM.
FirstSkipIsSound ==
    (FirstInstall /\ ~cmd.skip /\ pc \in {"status", "ok"} /\ ~webhook) =>
       kept \cap AppArmorNodes = {}

\* `--wait` waits for the rollout to complete, upgrade likewise: when the wait is
\* over every agent pod runs the new image.
RolloutComplete ==
    (cmd # NoCommand /\ cmd.wait /\ PastWait) =>
       \A n \in joined : pod[n] # Absent => pod[n].img = ds

\* Anything short of every agent reporting BPF-LSM installs the webhook, so an
\* AppArmor node is never left without injection: at the moment of the decision,
\* if the webhook is left out no agent in the cluster runs on an AppArmor node.
SkipIsSound ==
    (pc = "status" /\ ~cmd.skip /\ ~webhook) =>
       \A n \in joined \cap AppArmorNodes : pod[n] = Absent

\* A command comes to its end whatever the cluster does: every wait has a deadline.
CommandEnds == pc \in Busy ~> pc \in {"ok", "failed"}
====
