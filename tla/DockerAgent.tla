---- MODULE DockerAgent ----
(***************************************************************************)
(* Docker mode: kkctl replaces containers.  `install`, `upgrade`, `label   *)
(* container` and `inject --target container` all work the same way: look  *)
(* at the container, stop it, remove it, create another one under the same *)
(* name, start it.  Docker has no transaction for this, kkctl takes no     *)
(* lock, and it ignores the errors of the pull stream, of stop and of      *)
(* remove; so several invocations interleave call by call, any call may    *)
(* fail and any invocation may be killed between two calls.                *)
(*                                                                         *)
(* A process of this module is one invocation of kkctl: it starts once,    *)
(* with one request, and ends.                                             *)
(***************************************************************************)
EXTENDS Naturals, Sequences

CONSTANTS
    Procs,          \* the invocations of kkctl
    Names,          \* container names
    Agent,          \* kloudknoxContainer, the name of the agent's container
    Matching,       \* names the daemon's name filter finds for the agent's
    Images, Keys, Values,
    Empty,          \* the empty label value
    NoLabel,        \* the key is not in the label map
    Requests,       \* the command lines an invocation may be given
    NoRequest,      \* the invocation has not started
    Nothing,        \* no container, no image
    Before          \* the author of the containers that were there

Labels == [Keys -> Values \cup {NoLabel}]

\* `wanted` is the label maps to put on the container, one after the other:
\* one for `label`, one per document for `inject`.
Request == [op : {"install", "upgrade", "label", "uninstall"},
            name : Names, img : Images \cup {Nothing}, wanted : Seq(Labels)]

Snapshot == [img : Images, labels : Labels]

Id == (Procs \X Nat) \cup ({Before} \X Names)

Container == [name : Names, img : Images, labels : Labels,
              state : {"created", "running", "exited", "stopped"}]

ASSUME ConstantsAssumption ==
    /\ Matching \subseteq Names /\ Agent \in Matching
    /\ Empty \in Values /\ NoLabel \notin Values
    /\ Requests \subseteq Request /\ NoRequest \notin Requests
    /\ \A r \in Requests :
         /\ r.op \in {"install", "upgrade"} => r.img \in Images
         /\ r.op # "label" => r.name = Agent /\ r.wanted = <<>>
    /\ Before \notin Procs
    /\ Nothing \notin Images /\ Nothing \notin Id

VARIABLES
    cont,           \* the daemon's containers: id -> container
    images,         \* images the daemon has
    compose,        \* image named in the compose file kkctl wrote, or Nothing
    pc, job, pos,   \* per invocation: control point, request, label map index
    seen,           \* per invocation: id of the container inspected, or Nothing
    info,           \* per invocation: what that container was
    victims,        \* per invocation: containers an uninstall has still to remove
    owes            \* history: invocations that removed a container and have
                    \* not created its successor

daemonVars == <<cont, images>>
vars == <<cont, images, compose, pc, job, pos, seen, info, victims, owes>>

Running == {"prepare", "inspect", "pull", "stop", "remove", "create", "start",
            "wait", "list", "victim", "discard", "clean"}
Ended   == {"ok", "failed", "killed"}
Points  == {"idle"} \cup Running \cup Ended

(***************************************************************************)
(* The docker daemon, as kkctl uses it.                                    *)
(***************************************************************************)
Ids == DOMAIN cont

Named(n) == {i \in Ids : cont[i].name = n}

\* The daemon refuses a second container of the same name, and an image it
\* does not have.
MayCreate(n, img) == Named(n) = {} /\ img \in images

WithContainer(id, c) ==
    [i \in Ids \cup {id} |-> IF i = id THEN c ELSE cont[i]]

Without(id) == [i \in Ids \ {id} |-> cont[i]]

InState(id, state) == [cont EXCEPT ![id].state = state]

(***************************************************************************)
(* Control.                                                                *)
(***************************************************************************)
At(p, point) == pc[p] = point
Goto(p, point) == pc' = [pc EXCEPT ![p] = point]
Op(p) == job[p].op
NewId(p) == <<p, pos[p]>>

Init ==
    /\ images \in SUBSET Images
    /\ cont \in UNION {[{<<Before, n>> : n \in present} ->
                          [name : Names, img : images, labels : {[k \in Keys |-> NoLabel]},
                           state : {"running"}]] : present \in SUBSET Names}
    /\ \A i \in Ids : cont[i].name = i[2]
    /\ compose = Nothing
    /\ pc = [p \in Procs |-> "idle"]
    /\ job = [p \in Procs |-> NoRequest]
    /\ pos = [p \in Procs |-> 1]
    /\ seen = [p \in Procs |-> Nothing]
    /\ info = [p \in Procs |-> Nothing]
    /\ victims = [p \in Procs |-> {}]
    /\ owes = {}

Entry(op) == CASE op = "install"   -> "prepare"
               [] op = "upgrade"   -> "inspect"
               [] op = "label"     -> "inspect"
               [] op = "uninstall" -> "list"

Start(p, r) ==
    /\ At(p, "idle")
    /\ job' = [job EXCEPT ![p] = r]
    /\ Goto(p, Entry(r.op))
    /\ UNCHANGED <<daemonVars, compose, pos, seen, info, victims, owes>>

\* A call fails and the command returns its error.  install ignores a failed
\* inspect and label a failed pull; stop and remove are never looked at.
Fail(p) ==
    /\ pc[p] \in Running \ {"stop", "remove"}
    /\ ~(At(p, "inspect") /\ Op(p) = "install")
    /\ ~(At(p, "pull") /\ Op(p) = "label")
    /\ Goto(p, "failed")
    /\ UNCHANGED <<daemonVars, compose, job, pos, seen, info, victims, owes>>

\* install: the policy directory and the compose file come first.
Prepare(p) ==
    /\ At(p, "prepare")
    /\ compose' = job[p].img
    /\ Goto(p, "pull")
    /\ UNCHANGED <<daemonVars, job, pos, seen, info, victims, owes>>

(***************************************************************************)
(* Looking at the container that is to be replaced.                        *)
(***************************************************************************)
\* Go's map lookup: a missing key reads as the empty value.
Lookup(labels, k) == IF labels[k] = NoLabel THEN Empty ELSE labels[k]

Changes(labels, wanted) ==
    {k \in Keys : wanted[k] # NoLabel /\ Lookup(labels, k) # wanted[k]}

Merge(labels, wanted) ==
    [k \in Keys |-> IF k \in Changes(labels, wanted) THEN wanted[k] ELSE labels[k]]

MoreMaps(p) == pos[p] <= Len(job[p].wanted)
Wanted(p) == job[p].wanted[pos[p]]

Look(p, id, next) ==
    /\ seen' = [seen EXCEPT ![p] = id]
    /\ info' = [info EXCEPT ![p] = [img |-> cont[id].img, labels |-> cont[id].labels]]
    /\ Goto(p, next)
    /\ UNCHANGED pos

InspectInstall(p) ==
    /\ At(p, "inspect") /\ Op(p) = "install"
    /\ \/ \E id \in Named(Agent) : Look(p, id, "stop")
       \/ Goto(p, "create") /\ UNCHANGED <<pos, seen, info>>
    /\ UNCHANGED <<daemonVars, compose, job, victims, owes>>

InspectUpgrade(p) ==
    /\ At(p, "inspect") /\ Op(p) = "upgrade"
    /\ \E id \in Named(Agent) : Look(p, id, "pull")
    /\ UNCHANGED <<daemonVars, compose, job, victims, owes>>

\* The head of runInject's loop: an empty map is passed over, labels that are
\* all there already need no new container.
InspectLabel(p) ==
    /\ At(p, "inspect") /\ Op(p) = "label"
    /\ \/ ~MoreMaps(p) /\ Goto(p, "ok") /\ UNCHANGED <<pos, seen, info>>
       \/ /\ MoreMaps(p)
          /\ \/ \A k \in Keys : Wanted(p)[k] = NoLabel
             \/ \E id \in Named(job[p].name) : Changes(cont[id].labels, Wanted(p)) = {}
          /\ pos' = [pos EXCEPT ![p] = @ + 1]
          /\ UNCHANGED <<pc, seen, info>>
       \/ /\ MoreMaps(p)
          /\ \E id \in Named(job[p].name) :
               Changes(cont[id].labels, Wanted(p)) # {} /\ Look(p, id, "pull")
    /\ UNCHANGED <<daemonVars, compose, job, victims, owes>>

(***************************************************************************)
(* Replacing it.                                                           *)
(***************************************************************************)
\* A variant that takes the image from the command line, also where there is none.
ImageAsAsked(p) == job[p].img

\* The image the new container is to run.
NewImage(p) == IF Op(p) = "label" THEN info[p].img ELSE job[p].img

NewLabels(p) == CASE Op(p) = "install" -> [k \in Keys |-> NoLabel]
                  [] Op(p) = "upgrade" -> info[p].labels
                  [] Op(p) = "label"   -> Merge(info[p].labels, Wanted(p))

\* The pull stream is drained unread: it may have carried an error instead of
\* the image, and label does not even ask whether the pull began.
Pull(p) ==
    /\ At(p, "pull")
    /\ images' \in {images, images \cup {NewImage(p)}}
    /\ Goto(p, IF Op(p) = "install" THEN "inspect" ELSE "stop")
    /\ UNCHANGED <<cont, compose, job, pos, seen, info, victims, owes>>

\* Stop and remove go by the id that was inspected; their errors are ignored.
Stop(p) ==
    /\ At(p, "stop")
    /\ \/ /\ seen[p] \in Ids
          /\ cont[seen[p]].state = "running"
          /\ cont' = InState(seen[p], "stopped")
       \/ UNCHANGED cont
    /\ Goto(p, "remove")
    /\ UNCHANGED <<images, compose, job, pos, seen, info, victims, owes>>

\* A variant that removes whatever container has the name by now.
RemoveByName(p) ==
    /\ At(p, "remove")
    /\ \/ \E id \in Named(job[p].name) : cont' = Without(id) /\ owes' = owes \cup {p}
       \/ UNCHANGED <<cont, owes>>
    /\ Goto(p, "create")
    /\ UNCHANGED <<images, compose, job, pos, seen, info, victims>>

Remove(p) ==
    /\ At(p, "remove")
    /\ \/ seen[p] \in Ids /\ cont' = Without(seen[p]) /\ owes' = owes \cup {p}
       \/ UNCHANGED <<cont, owes>>
    /\ Goto(p, "create")
    /\ UNCHANGED <<images, compose, job, pos, seen, info, victims>>

\* A variant that takes a refused create for "it is already there".
CreateOrReuse(p) ==
    /\ At(p, "create")
    /\ IF MayCreate(job[p].name, NewImage(p))
       THEN /\ cont' = WithContainer(NewId(p),
                         [name |-> job[p].name, img |-> NewImage(p),
                          labels |-> NewLabels(p), state |-> "created"])
            /\ owes' = owes \ {p}
            /\ Goto(p, "start")
       ELSE Goto(p, "ok") /\ UNCHANGED <<cont, owes>>
    /\ UNCHANGED <<images, compose, job, pos, seen, info, victims>>

Create(p) ==
    /\ At(p, "create")
    /\ MayCreate(job[p].name, NewImage(p))
    /\ cont' = WithContainer(NewId(p),
                 [name |-> job[p].name, img |-> NewImage(p),
                  labels |-> NewLabels(p), state |-> "created"])
    /\ owes' = owes \ {p}
    /\ Goto(p, "start")
    /\ UNCHANGED <<images, compose, job, pos, seen, info, victims>>

\* label does not wait for the container: the next map, or done.
StartContainer(p) ==
    /\ At(p, "start")
    /\ NewId(p) \in Ids
    /\ cont' = InState(NewId(p), "running")
    /\ IF Op(p) = "label"
       THEN /\ pos' = [pos EXCEPT ![p] = @ + 1]
            /\ Goto(p, "inspect")
       ELSE /\ Goto(p, "wait")
            /\ UNCHANGED pos
    /\ UNCHANGED <<images, compose, job, seen, info, victims, owes>>

\* waitContainerRunning: one observation of Running is success; a nonzero exit
\* or 30 seconds without one is failure (Fail).
WaitRunning(p) ==
    /\ At(p, "wait")
    /\ NewId(p) \in Ids /\ cont[NewId(p)].state = "running"
    /\ Goto(p, "ok")
    /\ UNCHANGED <<daemonVars, compose, job, pos, seen, info, victims, owes>>

(***************************************************************************)
(* uninstall: everything the name filter finds goes.                       *)
(***************************************************************************)
ListVictims(p) ==
    /\ At(p, "list")
    /\ victims' = [victims EXCEPT ![p] = {i \in Ids : cont[i].name \in Matching}]
    /\ Goto(p, "victim")
    /\ UNCHANGED <<daemonVars, compose, job, pos, seen, info, owes>>

StopVictim(p) ==
    /\ At(p, "victim")
    /\ \/ \E id \in victims[p] :
            /\ seen' = [seen EXCEPT ![p] = id]
            /\ \/ /\ id \in Ids
                  /\ cont[id].state = "running"
                  /\ cont' = InState(id, "stopped")
               \/ UNCHANGED cont
            /\ Goto(p, "discard")
       \/ /\ victims[p] = {}
          /\ Goto(p, "clean")
          /\ UNCHANGED <<cont, seen>>
    /\ UNCHANGED <<images, compose, job, pos, info, victims, owes>>

\* Unlike the replacements, uninstall stops at the first container it cannot
\* remove, one that has gone meanwhile included (Fail).
Discard(p) ==
    /\ At(p, "discard")
    /\ seen[p] \in Ids
    /\ cont' = Without(seen[p])
    /\ victims' = [victims EXCEPT ![p] = @ \ {seen[p]}]
    /\ Goto(p, "victim")
    /\ UNCHANGED <<images, compose, job, pos, seen, info, owes>>

\* The purge of the policy directory that may follow is in PolicyFiles.
RemoveCompose(p) ==
    /\ At(p, "clean")
    /\ compose' \in {compose, Nothing}
    /\ Goto(p, "ok")
    /\ UNCHANGED <<daemonVars, job, pos, seen, info, victims, owes>>

Kill(p) ==
    /\ pc[p] \in Running
    /\ Goto(p, "killed")
    /\ UNCHANGED <<daemonVars, compose, job, pos, seen, info, victims, owes>>

\* A container's process ends by itself, and the restart policy brings it back.
Exits(id) == cont[id].state = "running" /\ cont' = InState(id, "exited")
Restarts(id) == cont[id].state = "exited" /\ cont' = InState(id, "running")

Step(p) == \/ Fail(p) \/ Prepare(p)
           \/ InspectInstall(p) \/ InspectUpgrade(p) \/ InspectLabel(p)
           \/ Pull(p) \/ Stop(p) \/ Remove(p) \/ Create(p)
           \/ StartContainer(p) \/ WaitRunning(p)
           \/ ListVictims(p) \/ StopVictim(p) \/ Discard(p) \/ RemoveCompose(p)

DaemonStep == /\ \E id \in Ids : Exits(id) \/ Restarts(id)
              /\ UNCHANGED <<images, compose, pc, job, pos, seen, info, victims, owes>>

Next == \/ \E p \in Procs : Step(p) \/ Kill(p) \/ \E r \in Requests : Start(p, r)
        \/ DaemonStep

Spec == Init /\ [][Next]_vars

(***************************************************************************)
(* Properties.                                                             *)
(***************************************************************************)

\* Every variable stays within its type.
TypeOK ==
    /\ Ids \subseteq Id /\ \A id \in Ids : cont[id] \in Container
    /\ images \subseteq Images
    /\ compose \in Images \cup {Nothing}
    /\ pc \in [Procs -> Points]
    /\ job \in [Procs -> Request \cup {NoRequest}]
    /\ pos \in [Procs -> Nat \ {0}]
    /\ seen \in [Procs -> Id \cup {Nothing}]
    /\ info \in [Procs -> Snapshot \cup {Nothing}]
    /\ victims \in [Procs -> SUBSET Id]
    /\ owes \subseteq Procs

Started(op) == \E q \in Procs : job[q] # NoRequest /\ Op(q) = op

\* Somebody has removed the container of this name and neither put another one
\* in its place nor reported success.
Owed(n) == \E q \in owes : job[q].name = n /\ pc[q] # "ok"

\* A container that an invocation found in place is missing only while somebody
\* who removed it has still to create its successor, or has ended without
\* success; unless an uninstall took it.  No run of install, upgrade, label or
\* inject makes a container vanish and reports success.
MissingIsOwed ==
    ~Started("uninstall") =>
       \A p \in Procs :
          (seen[p] # Nothing /\ Named(job[p].name) = {}) => Owed(job[p].name)

\* What a run asks for: an image, or a label value.
Asks(p, img)       == Op(p) = "upgrade" /\ job[p].img = img
AsksLabel(p, k, v) == /\ Op(p) = "label"
                      /\ \E i \in 1..Len(job[p].wanted) : job[p].wanted[i][k] = v

\* Some run asks for something else for the container of this name.
ImageContested(n, img) ==
    \E q \in Procs, other \in Images \ {img} :
       job[q] # NoRequest /\ job[q].name = n /\ Asks(q, other)
LabelContested(n, k, v) ==
    \E q \in Procs, other \in Values \ {v} :
       job[q] # NoRequest /\ job[q].name = n /\ AsksLabel(q, k, other)

\* Two runs that replace the same container cannot both succeed with one undoing
\* the other: what a successful upgrade or label asked for (a label's empty value
\* excepted) is still there in the container of that name, unless another run
\* asked for something else there, or an install or uninstall ran, or a third run
\* removed the container and did not bring it back.  Replacing by the inspected id
\* is what ensures this.
UpdateLostOnlyWhenOwed ==
    (~Started("install") /\ ~Started("uninstall")) =>
    \A p \in Procs : pc[p] = "ok" =>
       \A id \in Named(job[p].name) :
          /\ \A img \in Images :
               (Asks(p, img) /\ cont[id].img # img) =>
                  Owed(job[p].name) \/ ImageContested(job[p].name, img)
          /\ \A k \in Keys, v \in Values \ {Empty} :
               (AsksLabel(p, k, v) /\ cont[id].labels[k] # v) =>
                  Owed(job[p].name) \/ LabelContested(job[p].name, k, v)
====
