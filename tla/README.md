# Formal models of kkctl

`kkctl` (`src/kloudknox-cli`) is the command line client of KloudKnox, an agent
that enforces security policies on hosts (docker mode) and in clusters
(Kubernetes mode). It is a short-lived process: almost all of its state is
somebody else's, a directory, a docker daemon, an API server, a gRPC stream. What
is hard about it is what happens to that shared state when several invocations
meet in it, when a call fails half way, when the process or the host stops, and
when what was read is no longer true by the time it is used. The models here are
about that.

## Inventory

| Part | State | Operations | Where it meets the others |
|---|---|---|---|
| Policy files, `apply.go`, `delete.go`, `get.go`, `install.go:336` | `/etc/kloudknox/policies/*.yaml`, temporary `.name.yaml.*` | `apply -f`, `delete`, `get policies`, purge of `uninstall` | one directory, no lock; the agent's loader reads it too |
| Docker lifecycle, `install.go`, `label.go` | containers, images, the compose file | `install`, `upgrade`, `uninstall`, `label container`, `inject --target container` | all replace containers by stop, remove, create, start |
| Kubernetes rollout, `install.go`, `embed.go` | DaemonSet, agent pods, webhook | `install`, `upgrade` | the DaemonSet controller, kubelets and agents act meanwhile |
| Kubernetes objects, `install.go`, `apply.go`, `delete.go` | CRD, namespace, policy resources | manifests in order, `uninstall`, `apply`/`delete` of CRs, purge | deleting the CRD deletes the policies |
| Streaming, `stream.go` | connection, context, stdout | `stream events`, `alerts`, `logs` | the agent's gRPC server; a goroutine for signals |
| Policy documents, `apply.go:174`, `validate.go`, `label.go:209` | none | split, validate, dry run, selector labels | input of apply, delete, inject |
| Support bundle, `sysdump.go` | a pipe in place of `os.Stdout`, a tar file | `sysdump` | reuses the status printer |
| Environment and dispatch, `config.go`, `root.go` | global flags | detection, verbs | in front of everything |
| Status, get nodes, describe, probe | none | read and print | |

What makes each part correct:

* Policy files: nobody ever reads part of a policy, not even after a power loss;
  an apply publishes a prefix of its input; a delete with a bad input does nothing;
  no temporary file is left by a run that succeeds; replacing is not removing.
* Docker lifecycle: a container that was there does not vanish behind a success;
  concurrent runs do not undo each other in silence; only what was named is touched.
* Rollout: a wait that succeeds has waited for this rollout, whatever crashes, joins
  or leaves meanwhile; the webhook is left out only where no agent needs it; every
  command ends.
* Kubernetes objects: success means that everything asked for was done; nothing runs
  without what it depends on, wherever an install stops; an uninstall cleans up
  although it looks at no error.
* Streaming: losses only with a broken stream or a failed write; it always stops on a
  signal and always comes back otherwise.
* Support bundle: it is written whatever cannot be found out, and whole if it is
  reported; the status in it is complete; collecting it ends.
* Front end: a global flag that a command uses is not passed over, wherever it stands;
  no environment is guessed; a file means to kkctl what it means to YAML; what `policy
  validate` accepts, the other commands accept, as far as it looks.

## Modules

| Module | Models |
|---|---|
| `PolicyStore` | what the policy directory promises: a map from names to whole documents |
| `PolicyFiles` | the directory, one action per system call, any number of kkctl processes |
| `PolicyFilesProofs`, `PolicyRunsProofs` | proofs about `PolicyFiles` |
| `DockerAgent` | the docker daemon and the invocations that replace containers |
| `K8sRollout` | kkctl, the DaemonSet controller, the kubelets, the agents, nodes that come and go |
| `K8sObjects` | the cluster's objects and policies, kkctl's requests, the controllers that empty a namespace or a CRD |
| `EventStream` | the stream client, its signal goroutine, the server |
| `Sysdump` | `kkctl sysdump`: the status pipe, the policies of a `PolicyStore` that changes, the archive |
| `PolicyInput` | splitting a file into documents, what each command's decoder and the validator make of them |
| `CommandLine` | `Execute` and the handlers up to where they begin to work; extends `PolicyInput` |
| `EventStreamProofs`, `SysdumpProofs`, `K8sRolloutProofs`, `DockerAgentProofs`, `K8sObjectsProofs`, `CommandLineProofs` | proofs about the module of that name; `CommandLineProofs` is about `PolicyInput`, too |
| `MC...` | small instances of the module of that name |

**PolicyFiles.** A file is an inode: the document it is meant to hold, the process
that writes it, and which document of its input that is. `dir` is what the names
stand for now, `durable` what a power loss would leave; `written` and `stable` say
which inodes have their whole content in memory and on the disk. `writePolicyFile`
(apply.go:115) is `ApplyDoc`, `CreateTemp`, `Write`, `Chmod`, `Sync`, `Close`, `Rename`,
with `WriteFails` and `Cleanup` for its error paths. `Request.lenient` is
`--ignore-not-found`. `os.RemoveAll` is a scan, one unlink per entry seen, and the
rmdir. `HostCrash` empties memory, `WriteBack` and `FlushEntry` are the kernel's own
writing. A policy's text is a model value: what the properties tell apart is its name
and whether it parses.

**DockerAgent.** `cont` maps ids to containers, names need not be unique ids: the
daemon refuses a second container of a name (`MayCreate`). The actions are the calls
of `installDocker`, `upgradeDocker`, `labelContainer` and `uninstallDocker` in their
order; errors of stop, remove, the pull stream and install's inspect are ignored as
the code ignores them, all others end the command (`Fail`). An inject is a sequence
of label maps. `owes` is a history variable: who removed a container and has not
created its successor.

**K8sRollout.** One kkctl at a time, several one after the other. The DaemonSet's
`status` is a variable of its own, written by `SyncStatus` whenever the controller
gets to it. The manifest has no readiness probe and the default update strategy;
`PodReady`, `AgentReports` and `ReplacePod` say what follows. Nothing in the cluster is
for good: a container ends and is started again (`PodCrashes`, then `PodReady`, which
begins a new log), a pod is evicted (`RemovePod`), a node joins or leaves and takes its
pod along (`Join`, `Leave`), each between any two of kkctl's requests and between the
controller's count and kkctl's look at it. `ListAgents`, `AskAgent`, `AskAgain` and
`Decide` are `apparmorWebhookNeeded`. `late` is the deadline of the wait kkctl is in;
time itself is not modelled. `early`, `kept` and `served` are history about the first
command: the nodes that have been there since it began, those of them whose pod nobody
has removed, and the nodes that have run a ready agent of its image.

**K8sObjects.** The manifests are sequences of objects in the order of the embedded
files (`k8sManifests`); service accounts and config maps that behave like another object
of the same file are represented by it. What lies outside the namespace, which its
controller does not remove, is an object of its own: `OperatorRole` for the operator's
cluster role and binding, `AgentRole` for the agent's binding, `WebhookConfiguration`
for the webhook's, its cluster role included. `ApplyObject` is `applyManifest`
for one document, `RemoveObject` `deleteManifest`, whose errors `uninstallK8s` ignores
(`RemoveFails`); `ListPolicies` and `PurgePolicy` are `deleteAllPolicies`, `PutPolicy`
and `TakePolicy` the requests of `apply` and `delete`, which build new clients for each
document. `known` is the REST mapper's cache, filled by the first request. A namespace
or a CRD that is deleted is `ending`; `EmptyNamespace` and `EmptyCRD` remove what it
holds, one by one, and then the object. Commands of several processes overlap;
`RequestFails` and `Kill` strike at any request. The rollout wait and the webhook
decision are one step, `Rollout`: their detail is `K8sRollout`'s.

**EventStream.** `Loop`, `Connect`, `Receive`, `EndOfStream`, `StreamError` and `Wait`
are `runClient` with `connectAndStream`; `runStreamLogs` has the same loop. The three
streams differ in the fields they print, which are left out. All entries go through one
JSON encoder, which keeps the first error of a write: from then on nothing is printed,
each entry is reported on stderr, and the client goes on receiving (`Receive`). A signal
waits in a channel of capacity one for the goroutine that cancels the context. Which
entries a stream carries, and in which order, is the server's affair, and no property
speaks of it.

**Sysdump.** `OpenPipe` to `Join` are `captureStatus`, statement by statement:
`os.Stdout` (`stdout`) is replaced, the status printer writes chunks and blocks while
the pipe is full, the goroutine (`ReadChunk`, `ReadEnd`) drains it until the write end
is closed. `ReadPolicy` reads one file of the listing at a time while `PolicyChanges`
puts and removes policies; the store is that of `PolicyStore`, which `PolicyFiles`
is proved to implement. `CaptureLogs` collects any subset of the optional entries.
In `writeTarGz` a piece of data is first `tarred`, then `flushed` to the file when the
compressor has enough of it, and is in the `archive` once the file is closed; each of
these calls may fail, the deferred close included.

**PolicyInput.** A line is a separator, an indented or commented separator, blank, a
comment, or the block of lines that holds one policy. `SplitLine` and `SplitEnd` are the
loop of `splitYAMLDocs` and its last flush. `Read` says which of the blocks in a document
`yaml.Unmarshal` sees: it stops, without an error, at a separator it recognises and the
splitter does not. The commands decode a document into different structs: `Decodes` asks
whether a part that the given one has is of a wrong type, `policyDoc` for validate and the
dry run, `policyManifest` for apply, its dry run and delete, `selectorLabels` for inject.
`metadata.labels` and `metadata.namespace` are in the second only. A `spec` that is no map
is an error to all and counts as `Broken`. `Complaints` are the rules of
`validatePolicyDoc`.

**CommandLine.** Arguments are records of dashes, name and value. `ReadFlag`, `BadFlag`
and `EndFlags` are Go's `FlagSet.Parse`, once for the globals, whose error `Execute`
ignores, and once for the verb, whose error the handler returns. A boolean flag takes the
values of `strconv.ParseBool` (`Yes`, `No`) and no other. `Dispatch` and `Refuse`
are `Execute`, `globalFlagPositionHint` is translated as it stands. Then each handler's
checks (`UsageError`), its input, `ResolveEnv`, and the loop over documents or names.
`touched` marks the point where a command begins to work on files, containers or the
cluster; from there on the other modules take over.

## Runs

| Run | Shows | Bounds |
|---|---|---|
| `policy_files` | whole files only, prefix, bad deletes, temporaries, refinement of `PolicyStore` | 2 processes, 8 requests, 2 names, 5 documents, 1 host crash |
| `policy_files_end` | every command on the directory ends | 2 processes, 4 requests |
| `docker_all` | no container vanishes behind a success | 2 processes, every operation, 2 names, 2 images |
| `docker_replace` | no update is lost in silence | 3 processes on one container, 2 images, 2 keys |
| `k8s_rollout` | a first install waits and decides soundly; every install and upgrade ends | 2 nodes that join and leave, one of them there from the start, 3 pod names at a time, 2 commands in a row out of 3 installs and an upgrade |
| `stale_status` | *violation*: upgrade is content with the old status | 1 node, install then upgrade |
| `node_joins` | *violation*: an AppArmor node that joins is not asked | 2 nodes |
| `k8s_objects` | success is complete, dependencies kept, uninstall leaves nothing, commands end | 2 processes, 2 commands, 1 failing request, 2 policies, the agent's namespace and another |
| `uninstall_policies` | *violation*: uninstall without `--purge-policies` takes the policies | as above, uninstall only |
| `event_stream` | loss, stop and reconnect | 4 entries |
| `sysdump` | the status is whole, policies nobody touches are there, the bundle is whole or its failure reported, it ends | status of at most 3 chunks, a pipe of 2, 2 policies in 3 versions, 2 changes |
| `front_end` | documents as YAML sees them, validated is accepted but for its labels, --env, --server, environment and dry run heeded | at most 2 arguments before and 1 behind the verb or 1 and 2, 4 hosts; files of at most 4 lines out of 11 |

Why the bounds are enough. Two processes meet in every pair of system calls, and the
properties of the directory relate at most a writer and one other; the proofs remove
the bound. One host crash falls between any two steps, and after it only the disk
matters. Three processes in `docker_replace` are the least that show the interesting
case: two runs cannot undo each other, because remove goes by the inspected id and
create by the name; but if p1 has inspected, p2 succeeds and p3 removes p2's container,
p1's create slips into p3's gap with the old configuration, p2's update is lost, and
p3 fails. `UpdateLostOnlyWhenOwed` says that this is the only way, apart from a run that
asks for something else. A label with an empty value is the odd request: a container
without the label counts as labelled (label.go:130), and the run succeeds without a
change; the requests hold one. A node that joins
late and one that is there separate "all nodes" from "all nodes when the command
began"; "all nodes" and "some node" differ on the second install, or once the other
node has joined before the first. Two commands of `k8s_objects` are install, uninstall,
apply or delete in any order and overlap, on an empty or a full cluster, so that what
takes three (install, apply, uninstall) starts with the full one. Three chunks over a
pipe of two make the status printer block, and the goroutine read while it prints and
after. Two changes let a policy go and come back, or both change, between the listing
and the reading. A document of `splitYAMLDocs` depends on what stands between two
separators only, so four lines show every pair of neighbours, at both ends of a file
and inside. Two arguments on one side of the verb are a flag and its value, or a bad
flag and what it hides; some lines give one flag twice, so that a later one takes the
earlier back. Four entries are two per stream over two streams.
`CHECK_DEADLOCK FALSE` is in every cfg because the programs end. For every invariant the
runs check the proofs remove these bounds; only for liveness do they matter.

The runs expect what the code does. Three of them contradict a sentence of the
repository and are listed as findings: the status read by `waitDaemonSet` may be the
previous rollout's; the webhook decision misses nodes that join; uninstalling takes the
policies even when it is not asked to. `FirstRolloutComplete` and `FirstSkipIsSound` are
the parts of the first two promises that hold, on a cluster that never had the agent and
for the nodes it has had since the command began: each of them has run a ready agent, and
the webhook is not left out because of one that kept its pod. That all agents *are* ready
when the wait ends does not hold there either: `waitDaemonSet` reads the counters of one
moment (install.go:537), and by the time it goes on an agent may have crashed or have been
evicted, another node may have joined, and counts of agents on nodes that have left may
be among them. The model has all of this, and the properties are stated so as to be true
of it.

Other behaviour the models have, as the code has it, and no run states as a property:

* apply writes what the dry run and `policy validate` reject (apply.go:67, 98);
  `AcceptedButForLabels` is the direction that holds, up to one thing: validate decodes
  of `metadata` the name only (validate.go:72), apply and delete labels and namespace too
  (apply.go:28), so `metadata: {name: web, labels: [a]}` passes `policy validate` and is
  refused by both.
* label and inject never look at `--env` (label.go:23, 53): `kkctl --env k8s label
  container c k=v` recreates a docker container, although README.md:5 says "Pass `--env k8s`
  or `--env docker` to force a mode" and README.md:188 "Force the target environment".
  sysdump goes on without an environment if the one it is given is wrong (sysdump.go:40).
  `EnvAndServerHeeded` is about the eight commands that resolve an environment, and
  `--namespace` is in no property.
* inject labels a container by `spec.selector.matchLabels` only (label.go:209). A document
  with a plain selector, which is the form of the CRD (01_kloudknoxpolicy.yaml:384) and of
  the tests' valid policy, is passed over and the command succeeds.
* After one failed write to stdout a stream prints nothing any more and does not stop
  (stream.go:114, 333).
* `label container c k=` on a container without `k` finds nothing to change
  (label.go:130, `Changes` in `DockerAgent`).
* `uninstall`, `status` and `sysdump` find the agent's container by a substring of its
  name (install.go:321, `Matching` in `DockerAgent`).
* The error of the global flags is ignored (root.go:36): `kkctl -h uninstall` uninstalls,
  and `kkctl --dry-run apply -f p.yaml` applies. So does
  `kkctl apply -f policies/*.yaml --dry-run` when the shell expands the pattern to two
  files (apply.go:39): `DryRunHeeded` excludes both by what it asks of the line.
* `-env docker` with one dash is a global to Go and not to the hint; behind the verb it
  is then refused as an unknown flag, except that `stream` takes its own `-server`.
  With two dashes the `--server` that stream.go:134 defines is out of reach, because the
  hint refuses it first.
* A separator with a comment behind it (`--- # second`) is not one to `splitYAMLDocs`,
  and `yaml.Unmarshal` drops the documents behind it in silence; an indented `---`
  inside a block scalar is one (apply.go:190). `PlainFilesAsYAML` is about files without
  either.

## Fairness

* `PolicyFiles!FairSpec`: a process that can make its next call makes it. Nothing is
  asked of starts, kills or crashes.
* `K8sRollout!FairSpec`: kkctl's requests return and its clock advances. Nothing is
  asked of the cluster, which may stay unready for ever.
* `EventStream!FairSpec`: Go runs every goroutine that can run, timers fire, and the
  attempt to connect to a server that is up succeeds now and then (strong fairness of
  that one outcome; without it no reconnect loop could promise anything).
* `K8sObjects!FairSpec`: the API server answers and the namespace and CRD controllers do
  their work. Nothing is asked of kills, of cert-manager or of the next command.
* `Sysdump!FairSpec`: both goroutines run as long as they can, and calls return. The two
  are separate conditions: the fairness of the caller does not imply that the reader is
  ever scheduled.
* `DockerAgent` and `CommandLine` have safety properties only; the latter has no loop but
  those over its finite input.

## Proofs

`PolicyFilesProofs` proves, for every set of processes, names, documents and requests
and any number of crashes, that `PolicyFiles` keeps its types (`Typing`), that no reader
meets part of a document (`NoTornPolicy`), and that the directory implements
`PolicyStore` (`DirectoryIsStore`). The assumptions are `ConstantsAssumption` and
`NoneAssumption` of `PolicyFiles`.

`NeverTorn` is not inductive: a crash replaces `dir` by `durable` and drops what was
only in memory, and a rename publishes a file whose history the property does not
mention. `FilesInv` adds what the order of the calls ensures: the process that is
about to rename has written *and* synced its file (`WriteProgress`), it stands at a
document with a name (`AtDocument`), and every name, in memory or on the disk, stands
for an inode that is stable (`Sound`), which is more than being written. The step case
goes call by call; `GotoKeepsInv` covers the calls that only move control and
`RemovalKeepsInv` those that only take names away.

The refinement maps a name to the document of its inode, or to `Unparsable` if the
inode is torn; `Sound` makes the second case impossible, so a rename is a `Put`, a
delete a `Remove`, a flushed entry a `Persist` and a crash a `PowerLoss`.

`PolicyRunsProofs` builds `RunsInv` on top of that: each process is where its request
leads (`OpAtPoint`), what it has published is what the loop has passed
(`PublishedSoFar`), temporaries belong to runs (`TempsOfRuns`), and while nobody removes,
what a listing has still to visit is there (`ListedStillThere`). From it follow
`NoStrayTemps`, `ApplyPublishesPrefix`, `BadDeleteIsHarmless` and `ApplyNeverCutsListing`.

`EventStreamProofs` proves, for any number of entries and connections, that an entry is
lost only with a stream that broke or was cancelled, or by a failed write
(`LossOnlyWithStream`). `StreamInv` adds to the types that nothing is on its way without a
stream (`NothingWithoutStream`), so that a reconnection has nothing to throw away. Order
and duplicates are the server's, and nothing is claimed of them.

`SysdumpProofs` proves, for a status of any length, any pipe, any policies and changes,
`WholeStatus`, `SteadyDumped`, `WholeBundle` and `FailsByArchive`. `DumpInv` ties the pipe,
its reader and `os.Stdout` to the statement `captureStatus` is at (`PipeInStep`), says that
what is read and what is in the pipe are together the chunks so far (`ChunksInOrder`), which
steady policy is at which stage (`SteadyInStep`), and how far each layer of the archive has
got unless one of its calls has failed (`ArchiveInStep`).

`K8sRolloutProofs` proves, for all finite sets of first nodes and pod names, every sequence
of commands, any controller, and crashes, evictions, joining and leaving nodes at any
moment, that a first install whose wait is over has seen a ready agent of its image on
every node that was there since it began (`FirstRollout`), and that it leaves the webhook
out only if none of these nodes that kept its pod enforces by AppArmor (`FirstSkip`).
`RolloutInv` says why:

* During a first install there is one template image, so no pod is replaced, and an agent
  that is ready has been `served` and stays so although it crashes (`FirstPods`).
* The status counts as complete only if it was written when every node had a ready pod, and
  then the nodes that were there from the start had been served (`FirstStatus`). The status
  may be out of date, but what has been served remains so.
* A pod that enforces by AppArmor has not been asked yet, or has been counted, or the round
  has fewer reports than pods and decides nothing (`AppArmorCounted`). This rests on
  `NamesDistinct` and on the cardinalities of finite sets.

`DockerAgentProofs` proves for any number of concurrent invocations, ids, images and labels
that a container that has vanished is owed by a run that has not succeeded
(`NothingVanishes`), and that an update is undone only by a run that asks for another or in
the gap a third has left (`UpdatesSurvive`). The first needs that ids are given out once
(`IdsUsed`), that the daemon keeps names unique, and that a run that owes is before its
create or has ended badly (`OwesInStep`). The second needs `ChainKept`: as long as each
container is made from the one its maker removed, each successful run's update is in the
container, or in the configuration held by the run that owes its successor; the chain is
cut only when a name is held once too often (`Extra`), which is the gap. The attempt to
prove it showed that an earlier form of `UpdateLostOnlyWhenOwed` held on the run's small
set of requests only: a request for a label with an empty value is satisfied by a container
that has no such label, so that it neither changes nor contests it.

`K8sObjectsProofs` proves for any processes, policies and failing requests that a success
nobody disturbed is complete (`SuccessComplete`) and that the operator, the agents and the
webhook are never there without what they need, wherever an orderly sequence of installs and
uninstalls is cut short (`Dependencies`). `ObjectsInv` follows the loop of each command:
what is done is all of its manifest but what is `left` (`Progress`), on the way up what is
needed comes first and on the way down last (`Upward`, `Downward` of `AtWork`, proved of the
embedded manifests), and what is ending is not what something present needs (`NeededStay`).
The webhook outlives its service in one window of an uninstall that still has it before it
(`HookToGo`), while the namespace goes. `UninstallIsDoom` is the safety half of
`UninstallLeavesNothing`, which no run states by itself: when an uninstall that nobody
counteracts reports success and could delete what is outside the namespace, all that is
left is terminating, in a terminating namespace, or of a terminating kind, although it looks
at no error, and policies are applied and other uninstalls run meanwhile. It needs `Receding`
(what lies outside the namespace and the loop has come past goes, or its deletion failed),
`NoInstallBeside` (no install runs beside such an uninstall) and `Housed` (nothing outlives
the namespace it lives in). `UninstallLeavesNothing` adds the fairness of the controllers.

`CommandLineProofs` is about every command line, file and host. `LineInv` relates what is
set to what was typed and read so far:

* `LineKept`: what is left to read is the end of the line, so `Consumed` places a step on it.
* `VerbPlaced`, `FlagsTyped`: the verb is a word, no two-dash global flag is behind it, and
  every flag that is set stands on the line with that value.
* `GlobalsCount`, `DryRunKept`: of the arguments read so far, the last one of a flag is the
  value it has. Reading is not one argument at a time (a flag takes its value along), so
  the invariant speaks of the flags that cannot themselves be a value (`Own`).
* `DocsKept`, `LinesKept`: documents are rising, unbroken stretches of the file with a
  separator between any two, and no line that says anything is in none.
* `JudgedSoFar`, `CollectedSoFar`: what the loops of `policy validate` and `delete` are past
  is valid, or has a name.

From it follow `EnvAndServerAreHeeded`, `WorksWhereAsked`, `DryRunIsHeeded`, `SplitAsYAML`
and `AcceptedUpToLabels`. Three of these properties were false as they had been stated, on lines
longer than the run enumerates (a flag that is given twice, or is the value of the flag
before it), and have been corrected, and the run has got such lines.

Assumptions, all evaluated by the runs: `MaxEntriesAssumption`, `SizesAssumption`, and the
`ConstantsAssumption` of each module, which say what a constant is (among them, that the
first nodes, the pod names and the policies are finite sets); `AbsentAssumption`, `NoneAssumption` and the
like, that a value for "none" is not one of the others; `PoliciesAssumption`, that a block of
lines that is a policy is no separator, blank or comment; `InvocationsAssumption`, that a
command line is a sequence of arguments; `StringsAssumption`, two facts about strings that
the provers do not have: a literal or a concatenation is a string, and one that begins with
a dash is no verb.

Only model-checked: the liveness properties (`EveryRunEnds`, `CommandEnds`, `SignalStops`,
`KeepsReconnecting`, `UninstallLeavesNothing`, `SysdumpEnds`), which need fairness and are
beyond TLAPS, and the three runs that expect a violation. Every invariant and every action
property of the runs that pass is a theorem.

## Not modelled

* The agent's own policy loader, the operator and the relay: other programs.
* The text of anything: YAML syntax below the line, formatting, printing, the fields of
  events, the contents of logs and of probe results.
* `probe`: it reads kernel facts one after the other and prints them. What `describe`,
  `get` and `status` print is one snapshot each; their arguments, their environment and
  the status printer's writes are modelled.
* Labels of pods beyond the arguments: one patch request, merged by the API server.
* `--kubeconfig` and `--kube-context`, which are handed to the client library, and the
  validation that the API server does of a policy by the CRD's schema.
* The directory that the docker `install` makes, `--policy-dir`, path separators in
  names, networks of a recreated container.
* Elapsed time: deadlines may pass at any moment, rates (the reconnect loop without a
  pause after a closed stream) are not stated.
* Connections that are half open, which gRPC without keepalive does not notice, and a
  write to stdout that blocks for ever or ends the process by SIGPIPE.

## Plan

Done, in this order: `PolicyStore` and `PolicyFiles` with their proofs, `DockerAgent`,
`K8sRollout`, `EventStream`, `K8sObjects`, `Sysdump`, `PolicyInput` and `CommandLine`; then
the proofs of all their invariants. What is left, in the order of what a reader gains:

1. The store of `Sysdump` as the abstract state of `PolicyStore`, step by step, so that what
   is proved of the bundle carries over to the directory of `PolicyFiles`.
2. An abstract specification of `EventStream` (what a user sees of a client that loses
   nothing but what its streams lose) and the step-by-step refinement.
