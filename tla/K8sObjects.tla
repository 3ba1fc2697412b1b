---- MODULE K8sObjects ----
(***************************************************************************)
(* Kubernetes mode: which objects are in the cluster while kkctl installs  *)
(* and uninstalls manifests and applies and deletes policies, one request  *)
(* at a time.  Two controllers of the cluster act meanwhile: a Namespace   *)
(* or a CustomResourceDefinition that is deleted only starts to terminate; *)
(* its controller removes what it holds and then the object itself.        *)
(*                                                                         *)
(* The objects of a manifest that behave alike are represented by one: an  *)
(* Operator, an Agent or a Relay stands for all that is in the namespace,  *)
(* a role for what gives them rights in the cluster.                       *)
(***************************************************************************)
EXTENDS Naturals, FiniteSets, SequencesExt

CONSTANTS
    Procs,          \* processes that run kkctl, one command after the other
    Policies,       \* KloudKnoxPolicy resources
    HomePolicies,   \* those that live in the agent's own namespace
    Requests,       \* process -> the command lines it may be given
    NoRequest,
    Undiscovered,   \* a command that has not asked for the API's kinds yet
    MaxRuns,        \* how many commands are given
    MaxErrors       \* how many requests the API server may fail

\* `hook` is what install decides about the webhook (apparmorWebhookNeeded, see
\* K8sRollout), taken ahead; `list` is what apply and delete are given.
Request == [op : {"install", "uninstall", "apply", "delete"}, wait : BOOLEAN,
            hook : BOOLEAN, purge : BOOLEAN, lenient : BOOLEAN, list : Seq(Policies)]

ASSUME ConstantsAssumption ==
    /\ HomePolicies \subseteq Policies
    /\ IsFiniteSet(Policies)
    /\ Requests \in [Procs -> SUBSET Request]
    /\ NoRequest \notin Request
    /\ \A p \in Procs : \A r \in Requests[p] : r.op \in {"apply", "delete"} => r.list # <<>>
    /\ MaxRuns \in Nat /\ MaxErrors \in Nat

VARIABLES
    there,          \* objects in the cluster
    ending,         \* of these, the ones that are terminating
    policies,       \* policy resources in the cluster
    certManager,    \* does the cluster know cert-manager's kinds
    pc, req,        \* per process: control point, command
    left,           \* per process: what the loop has still to go through
    known,          \* per process: the kinds its REST mapper has cached
    spared,         \* history: objects whose deletion this uninstall saw fail
    solo,           \* history: no command has overlapped or followed that
                    \* could keep this one from what it is for
    calm,           \* history: nothing was terminating when the command began
    orderly,        \* history: see DependenciesKept
    runs, errors

clusterVars == <<there, ending, policies, certManager>>
history == <<spared, solo, calm, orderly>>
vars == <<there, ending, policies, certManager, pc, req, left, known, spared,
          solo, calm, orderly, runs, errors>>

Namespace == "Namespace"
CRD == "CustomResourceDefinition"

\* The embedded manifests, document by document.  Every one but the CRD's begins
\* with the Namespace.  The comment in front of the webhook's is a document too,
\* which both applyManifest and deleteManifest pass over.
manifestNamespace == <<Namespace>>
manifestCRD       == <<CRD>>
manifestOperator  == <<Namespace, "OperatorRole", "Operator">>
manifestWebhook   == <<Namespace, "Certificate", "WebhookService", "WebhookConfiguration">>
manifestDaemonSet == <<Namespace, "AgentRole", "Agent">>
manifestRelay     == <<Namespace, "Relay">>

\* A variant that installs the operator before the kind it watches.
k8sManifestsSwapped ==
    manifestNamespace \o manifestOperator \o manifestCRD \o manifestDaemonSet
    \o manifestRelay

k8sManifestsWithoutWebhook ==
    manifestNamespace \o manifestCRD \o manifestOperator \o manifestDaemonSet
    \o manifestRelay

k8sManifests ==
    manifestNamespace \o manifestCRD \o manifestOperator \o manifestWebhook
    \o manifestDaemonSet \o manifestRelay

Objects == ToSet(k8sManifests)
Namespaced == {"Operator", "Certificate", "WebhookService", "Agent", "Relay"}
Kinds == {"certificates", "policies"}

Busy == {"apply", "rollout", "hook", "status", "remove", "list", "purge", "put", "take"}
Ended == {"ok", "failed", "killed"}
Points == {"idle"} \cup Busy \cup Ended

TypeOK ==
    /\ there \subseteq Objects /\ ending \subseteq there \cap {Namespace, CRD}
    /\ policies \subseteq Policies
    /\ policies # {} => CRD \in there
    /\ certManager \in BOOLEAN
    /\ pc \in [Procs -> Points]
    /\ \A p \in Procs : req[p] \in Requests[p] \cup {NoRequest}
    /\ left \in [Procs -> Seq(Objects \cup Policies)]
    /\ \A p \in Procs : known[p] # Undiscovered => known[p] \subseteq Kinds
    /\ spared \in [Procs -> SUBSET Objects]
    /\ solo \in [Procs -> BOOLEAN] /\ calm \in [Procs -> BOOLEAN]
    /\ orderly \in BOOLEAN
    /\ runs \in 0..MaxRuns /\ errors \in 0..MaxErrors

\* The cluster has never seen KloudKnox, or has all of it and every policy.
Init ==
    /\ certManager \in BOOLEAN
    /\ \/ there = {} /\ policies = {}
       \/ there = Objects /\ policies = Policies /\ certManager
    /\ ending = {}
    /\ pc = [p \in Procs |-> "idle"]
    /\ req = [p \in Procs |-> NoRequest]
    /\ left = [p \in Procs |-> <<>>]
    /\ known = [p \in Procs |-> Undiscovered]
    /\ spared = [p \in Procs |-> {}]
    /\ solo = [p \in Procs |-> FALSE] /\ calm = [p \in Procs |-> FALSE]
    /\ orderly = TRUE
    /\ runs = 0 /\ errors = 0

(***************************************************************************)
(* The cluster's controllers.                                              *)
(***************************************************************************)
Kkctls == <<pc, req, left, known, history, runs, errors>>

EmptyNamespace ==
    /\ Namespace \in ending
    /\ \/ /\ \E o \in there \cap Namespaced : there' = there \ {o}
          /\ UNCHANGED <<ending, policies>>
       \/ /\ \E pol \in policies \cap HomePolicies : policies' = policies \ {pol}
          /\ UNCHANGED <<there, ending>>
       \/ /\ there \cap Namespaced = {} /\ policies \cap HomePolicies = {}
          /\ there' = there \ {Namespace} /\ ending' = ending \ {Namespace}
          /\ UNCHANGED policies
    /\ UNCHANGED <<certManager, Kkctls>>

EmptyCRD ==
    /\ CRD \in ending
    /\ \/ /\ \E pol \in policies : policies' = policies \ {pol}
          /\ UNCHANGED <<there, ending>>
       \/ /\ policies = {}
          /\ there' = there \ {CRD} /\ ending' = ending \ {CRD}
          /\ UNCHANGED policies
    /\ UNCHANGED <<certManager, Kkctls>>

CertManagerComes ==
    /\ ~certManager
    /\ certManager' = TRUE
    /\ UNCHANGED <<there, ending, policies, Kkctls>>

Holds(o) == o \in there /\ o \notin ending

\* May an object be made, or changed?  What is there may always be changed, even
\* while it or its namespace is terminating, which does not stop it from going.
Accepts(o) == o \in there \/ (o \in Namespaced => Holds(Namespace))

AcceptsPolicy(pol) ==
    /\ CRD \in there
    /\ pol \in policies \/ (Holds(CRD) /\ (pol \in HomePolicies => Holds(Namespace)))

\* A variant that strips finalizers, so that nothing terminates.
DeletesAtOnce(o) == there' = there \ {o} /\ UNCHANGED ending

\* The server's answer to a deletion: a namespace or a CRD begins to terminate.
Deletes(o) ==
    IF o \in {Namespace, CRD}
    THEN ending' = ending \cup ({o} \cap there) /\ UNCHANGED there
    ELSE there' = there \ {o} /\ UNCHANGED ending

(***************************************************************************)
(* kkctl.                                                                  *)
(***************************************************************************)
At(p, point) == pc[p] = point
Goto(p, point) == pc' = [pc EXCEPT ![p] = point]
Current(p) == Head(left[p])

\* The loop goes on with the next element, or past its end to `after`.
Proceed(p, after) ==
    /\ left' = [left EXCEPT ![p] = Tail(@)]
    /\ IF Len(left[p]) = 1 THEN Goto(p, after) ELSE UNCHANGED pc

GiveUp(p, point) == Goto(p, point) /\ left' = [left EXCEPT ![p] = <<>>]

\* The REST mapper asks for the API's kinds once and keeps the answer.
KnownBy(p) ==
    IF known[p] # Undiscovered THEN known[p]
    ELSE {k \in Kinds : (k = "certificates" => certManager) /\ (k = "policies" => CRD \in there)}

Learn(p) == known' = [known EXCEPT ![p] = KnownBy(p)]

Mapped(p, o) == o = "Certificate" => "certificates" \in KnownBy(p)

FirstPoint(r) == CASE r.op = "install" -> "apply" [] r.op = "uninstall" -> "remove"
                   [] r.op = "apply" -> "put" [] OTHER -> "take"

\* A variant whose uninstall forgets the webhook, which install leaves out.
WorkForgetful(r) ==
    CASE r.op = "install" -> k8sManifestsWithoutWebhook
      [] r.op = "uninstall" -> Reverse(k8sManifestsWithoutWebhook)
      [] OTHER -> r.list

Work(r) == CASE r.op = "install" -> k8sManifestsWithoutWebhook
             [] r.op = "uninstall" -> Reverse(k8sManifests)
             [] OTHER -> r.list

Begin(p, r) ==
    LET busy == {q \in Procs \ {p} : pc[q] \in Busy}
        Bears(a, b) == a.op = "uninstall" /\ b.op # "install" IN
    /\ pc[p] \notin Busy /\ runs < MaxRuns
    /\ runs' = runs + 1
    /\ req' = [req EXCEPT ![p] = r]
    /\ Goto(p, FirstPoint(r))
    /\ left' = [left EXCEPT ![p] = Work(r)]
    /\ known' = [known EXCEPT ![p] = Undiscovered]
    /\ spared' = [spared EXCEPT ![p] = {}]
    /\ solo' = [q \in Procs |-> IF q = p THEN \A o \in busy : Bears(r, req[o])
                                ELSE solo[q] /\ Bears(req[q], r)]
    /\ calm' = [calm EXCEPT ![p] = ending = {}]
    /\ orderly' = (orderly /\ busy = {} /\ (r.op = "install" => ending = {}))
    /\ UNCHANGED <<clusterVars, errors>>

Frame(p) == UNCHANGED <<certManager, req, solo, calm, runs>>

\* install: one document by server-side apply.
ApplyObject(p) ==
    /\ At(p, "apply") \/ At(p, "hook")
    /\ Learn(p)
    /\ \/ /\ Mapped(p, Current(p)) /\ Accepts(Current(p))
          /\ there' = there \cup {Current(p)}
          /\ Proceed(p, IF At(p, "apply") THEN "rollout" ELSE "status")
       \/ /\ ~(Mapped(p, Current(p)) /\ Accepts(Current(p)))
          /\ GiveUp(p, "failed") /\ UNCHANGED there
    /\ UNCHANGED <<ending, policies, spared, orderly, errors>> /\ Frame(p)

\* A variant whose wait has no deadline.
RolloutForever(p) ==
    /\ At(p, "rollout")
    /\ req[p].wait => "Agent" \in there
    /\ Goto(p, IF req[p].hook THEN "hook" ELSE "status")
    /\ left' = [left EXCEPT ![p] = IF req[p].hook THEN manifestWebhook ELSE <<>>]
    /\ UNCHANGED <<there, ending, policies, known, spared, orderly, errors>> /\ Frame(p)

\* install: the wait for the DaemonSet, which times out if there is none, then
\* the decision about the webhook.
Rollout(p) ==
    /\ At(p, "rollout")
    /\ \/ /\ req[p].wait => "Agent" \in there
          /\ Goto(p, IF req[p].hook THEN "hook" ELSE "status")
          /\ left' = [left EXCEPT ![p] = IF req[p].hook THEN manifestWebhook ELSE <<>>]
       \/ /\ req[p].wait
          /\ Goto(p, "failed") /\ UNCHANGED left
    /\ UNCHANGED <<there, ending, policies, known, spared, orderly, errors>> /\ Frame(p)

\* install ends with the status, which wants to see the DaemonSet.
ShowStatus(p) ==
    /\ At(p, "status")
    /\ Goto(p, IF "Agent" \in there THEN "ok" ELSE "failed")
    /\ UNCHANGED <<there, ending, policies, left, known, spared, orderly, errors>>
    /\ Frame(p)

\* uninstall: one document.  A kind that is not mapped and an object that is not
\* there are errors, and no error is looked at.
RemoveObject(p) ==
    /\ At(p, "remove")
    /\ Learn(p)
    /\ IF Mapped(p, Current(p)) THEN Deletes(Current(p)) ELSE UNCHANGED <<there, ending>>
    /\ spared' = [spared EXCEPT ![p] = @ \ {Current(p)}]
    /\ Proceed(p, IF req[p].purge THEN "list" ELSE "ok")
    /\ UNCHANGED <<policies, orderly, errors>> /\ Frame(p)

RemoveFails(p) ==
    /\ At(p, "remove") /\ errors < MaxErrors
    /\ errors' = errors + 1
    /\ spared' = [spared EXCEPT ![p] = @ \cup ({Current(p)} \ Namespaced)]
    /\ orderly' = FALSE
    /\ Proceed(p, IF req[p].purge THEN "list" ELSE "ok")
    /\ UNCHANGED <<there, ending, policies, known>> /\ Frame(p)

\* The purge lists the policies of all namespaces, if their kind is in the cache
\* and still served.  What fails here is a warning at most.
ListPolicies(p) ==
    /\ At(p, "list")
    /\ LET found == IF "policies" \in KnownBy(p) /\ CRD \in there THEN policies ELSE {} IN
       /\ left' = [left EXCEPT ![p] = SetToSeq(found)]
       /\ Goto(p, IF found = {} THEN "ok" ELSE "purge")
    /\ Learn(p)
    /\ UNCHANGED <<there, ending, policies, spared, orderly, errors>> /\ Frame(p)

PurgePolicy(p) ==
    /\ At(p, "purge")
    /\ policies' = policies \ {Current(p)}
    /\ Proceed(p, "ok")
    /\ UNCHANGED <<there, ending, known, spared, orderly, errors>> /\ Frame(p)

\* A variant that reports success when the API server refuses.
PutPolicyAnyway(p) ==
    /\ At(p, "put")
    /\ policies' = policies \cup {pol \in {Current(p)} : AcceptsPolicy(pol)}
    /\ Proceed(p, "ok")
    /\ UNCHANGED <<there, ending, known, spared, orderly, errors>> /\ Frame(p)

\* apply: clients are built for every document, so nothing known is old.
PutPolicy(p) ==
    /\ At(p, "put")
    /\ \/ /\ AcceptsPolicy(Current(p))
          /\ policies' = policies \cup {Current(p)}
          /\ Proceed(p, "ok")
       \/ /\ ~AcceptsPolicy(Current(p))
          /\ GiveUp(p, "failed") /\ UNCHANGED policies
    /\ UNCHANGED <<there, ending, known, spared, orderly, errors>> /\ Frame(p)

\* delete: --ignore-not-found forgives a policy that is missing, not a kind that is.
TakePolicy(p) ==
    /\ At(p, "take")
    /\ \/ /\ Current(p) \in policies \/ (CRD \in there /\ req[p].lenient)
          /\ policies' = policies \ {Current(p)}
          /\ Proceed(p, "ok")
       \/ /\ Current(p) \notin policies /\ ~(CRD \in there /\ req[p].lenient)
          /\ GiveUp(p, "failed") /\ UNCHANGED policies
    /\ UNCHANGED <<there, ending, known, spared, orderly, errors>> /\ Frame(p)

\* A request fails, having had its effect or not: all but uninstall give up.
\* uninstall gives up only before its first request, when it cannot build clients.
RequestFails(p) ==
    /\ errors < MaxErrors
    /\ errors' = errors + 1
    /\ \/ /\ At(p, "apply") \/ At(p, "hook")
          /\ \/ UNCHANGED there
             \/ Mapped(p, Current(p)) /\ Accepts(Current(p)) /\ there' = there \cup {Current(p)}
          /\ UNCHANGED policies
       \/ /\ At(p, "put")
          /\ \/ UNCHANGED policies
             \/ AcceptsPolicy(Current(p)) /\ policies' = policies \cup {Current(p)}
          /\ UNCHANGED there
       \/ /\ At(p, "take")
          /\ \/ UNCHANGED policies
             \/ policies' = policies \ {Current(p)}
          /\ UNCHANGED there
       \/ /\ At(p, "status") \/ (At(p, "remove") /\ left[p] = Work(req[p]))
          /\ UNCHANGED <<there, policies>>
    /\ GiveUp(p, "failed")
    /\ UNCHANGED <<ending, known, spared, orderly>> /\ Frame(p)

Kill(p) ==
    /\ pc[p] \in Busy
    /\ GiveUp(p, "killed")
    /\ orderly' = (orderly /\ req[p].op # "uninstall")
    /\ UNCHANGED <<clusterVars, req, known, spared, solo, calm, runs, errors>>

Step(p) == \/ ApplyObject(p) \/ Rollout(p) \/ ShowStatus(p)
           \/ RemoveObject(p) \/ RemoveFails(p) \/ ListPolicies(p) \/ PurgePolicy(p)
           \/ PutPolicy(p) \/ TakePolicy(p) \/ RequestFails(p)

Next == \/ \E p \in Procs : Step(p) \/ Kill(p) \/ \E r \in Requests[p] : Begin(p, r)
        \/ EmptyNamespace \/ EmptyCRD \/ CertManagerComes

Spec == Init /\ [][Next]_vars

\* kkctl's requests return and the cluster's controllers do their work.
FairSpec == Spec /\ WF_vars(EmptyNamespace) /\ WF_vars(EmptyCRD)
                 /\ \A p \in Procs : WF_vars(Step(p))

(***************************************************************************)
(* Properties.                                                             *)
(***************************************************************************)

\* A command that no other has overlapped or followed, that began while nothing was
\* terminating and succeeded has done what it was asked to: install has put every
\* object of its manifests, the webhook's if it decided so; apply has put, delete has
\* taken every policy it was given.
SuccessIsComplete ==
    \A p \in Procs : (At(p, "ok") /\ solo[p] /\ calm[p]) =>
       LET r == req[p] IN
       /\ r.op = "install" => ToSet(k8sManifestsWithoutWebhook) \subseteq there /\ ending = {}
       /\ (r.op = "install" /\ r.hook) => ToSet(manifestWebhook) \subseteq there
       /\ r.op = "apply" => ToSet(r.list) \subseteq policies
       /\ r.op = "delete" => ToSet(r.list) \cap policies = {}

\* "CRD before any CR, workloads last": as long as commands come one after the
\* other, no install begins while something terminates, and no uninstall is killed
\* or has an error to ignore, the operator and the agents never run without the
\* CRD, nor the operator or an agent without its role, whatever fails or is killed
\* half way through an install; and no webhook is registered without its service.
DependenciesKept ==
    orderly =>
       /\ there \cap {"Operator", "Agent", "Relay"} # {} => CRD \in there
       /\ "Operator" \in there => "OperatorRole" \in there
       /\ "Agent" \in there => "AgentRole" \in there
       /\ ("WebhookConfiguration" \in there /\ Holds(Namespace)) => "WebhookService" \in there

\* An uninstall whose every deletion of an object outside the namespace was
\* answered leaves nothing behind, neither objects nor policies, once the
\* controllers are done, unless an install overlaps or follows: although nobody
\* looks at its errors, whatever it does not know of cert-manager, and although
\* policies are applied at the same time.
UninstallLeavesNothing ==
    \A p \in Procs :
       (At(p, "ok") /\ req[p].op = "uninstall" /\ solo[p] /\ spared[p] = {})
          ~> ((there = {} /\ policies = {}) \/ ~solo[p] \/ ~At(p, "ok"))

\* Every command ends.
CommandEnds == \A p \in Procs : pc[p] \in Busy ~> pc[p] \in Ended

\* "also delete all KloudKnoxPolicy resources": a policy goes only when a command
\* asks for it, a delete that names it or an uninstall that is to purge policies.
PolicyGoesOnRequest ==
    [][\A pol \in policies \ policies' :
         \E p \in Procs : /\ req[p] # NoRequest
                          /\ req[p].op = "uninstall" => req[p].purge
                          /\ req[p].op = "delete" => pol \in ToSet(req[p].list)
                          /\ req[p].op \in {"uninstall", "delete"}]_vars
====
