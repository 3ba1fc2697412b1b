---- MODULE DockerAgentProofs ----
(***************************************************************************)
(* Proofs about DockerAgent, for any number of invocations, containers,    *)
(* images and labels: the types, that no container that was to be replaced *)
(* disappears behind a success, and that of two successful runs none       *)
(* undoes the other.                                                       *)
(***************************************************************************)
EXTENDS DockerAgent, TLAPS

\* Between the inspection of a container and the start of its successor.
Replacing == {"pull", "stop", "remove", "create", "start"}
Uninstalling == {"list", "victim", "discard", "clean"}
AfterCreate == {"start", "wait"} \cup Ended

\* What an invocation knows at each step.
KnowsOf(p) ==
    /\ pc[p] = "idle" <=> job[p] = NoRequest
    /\ pc[p] # "idle" => job[p] \in Requests
    /\ pc[p] = "idle" => seen[p] = Nothing /\ pos[p] = 1
    /\ pc[p] \in Uninstalling => Op(p) = "uninstall"
    /\ pc[p] = "prepare" => Op(p) = "install"
    /\ pc[p] \in {"inspect", "wait"} \cup Replacing => Op(p) # "uninstall"
    /\ pc[p] = "wait" => Op(p) # "label"
    /\ (pc[p] \in Replacing /\ Op(p) = "label") => MoreMaps(p)
    /\ (pc[p] \in Replacing /\ Op(p) \in {"upgrade", "label"}) =>
          info[p] \in Snapshot /\ seen[p] # Nothing
    /\ (pc[p] = "ok" /\ Op(p) = "label") => ~MoreMaps(p)

KnowsRequest == \A p \in Procs : KnowsOf(p)

\* The daemon gives out an id once: an invocation comes to an id of its own only
\* with its create, and to the next one only with the next label map.
Used(p, k) == k < pos[p] \/ (k = pos[p] /\ pc[p] \in AfterCreate)

IdsUsed ==
    \A p \in Procs, k \in Nat :
        /\ <<p, k>> \in Ids => Used(p, k)
        /\ \A q \in Procs : <<p, k>> = seen[q] \/ <<p, k>> \in victims[q] => Used(p, k)

UniqueNames == \A i, j \in Ids : cont[i].name = cont[j].name => i = j

\* The container that was inspected is, as long as it is there, what it was.
SeenIsKnown ==
    \A p \in Procs :
        job[p] # NoRequest /\ Op(p) # "uninstall" /\ seen[p] \in Ids =>
            /\ cont[seen[p]].name = job[p].name
            /\ cont[seen[p]].img = info[p].img
            /\ cont[seen[p]].labels = info[p].labels

\* Who removed a container is about to create its successor or has ended badly.
OwesInStep == \A p \in owes : pc[p] \in {"create", "failed", "killed"}

Quiet == ~Started("install") /\ ~Started("uninstall")

\* One run too many holds this name: somebody owes a successor although there is a
\* container, or although somebody else owes one, too.
Extra(n) ==
    \E q \in owes :
        /\ job[q].name = n
        /\ \/ Named(n) # {}
           \/ \E o \in owes \ {q} : job[o].name = n

\* What run p has done so far, its i-th label map included, is in a container of
\* this image and these labels, or another run wants it otherwise.
MapDone(p, i) == i < pos[p] \/ (i = pos[p] /\ pc[p] = "start")

ImageHeeded(p, img) ==
    Op(p) = "upgrade" /\ pc[p] \in {"start", "wait", "ok"} =>
        img = job[p].img \/ ImageContested(job[p].name, job[p].img)

LabelsHeeded(p, labels) ==
    Op(p) = "label" =>
        \A i \in 1..Len(job[p].wanted) : MapDone(p, i) =>
            \A k \in Keys : job[p].wanted[i][k] \in Values \ {Empty} =>
                \/ labels[k] = job[p].wanted[i][k]
                \/ LabelContested(job[p].name, k, job[p].wanted[i][k])

HeedsOf(p, img, labels) == ImageHeeded(p, img) /\ LabelsHeeded(p, labels)

Heeded(n, img, labels) ==
    \A p \in Procs : (job[p] # NoRequest /\ job[p].name = n) => HeedsOf(p, img, labels)

\* As long as each container is made from the one its maker has removed, what the
\* runs have done is handed on from container to container.
Chain(n) ==
    \/ Extra(n)
    \/ /\ \A id \in Named(n) : Heeded(n, cont[id].img, cont[id].labels)
       /\ \A o \in owes : job[o].name = n => Heeded(n, info[o].img, info[o].labels)

ChainKept == Quiet => \A n \in Names : Chain(n)

AgentInv ==
    /\ TypeOK
    /\ KnowsRequest
    /\ IdsUsed
    /\ UniqueNames
    /\ SeenIsKnown
    /\ OwesInStep
    /\ MissingIsOwed
    /\ ChainKept

\* What a request carries.
LEMMA RequestTypes ==
    ASSUME NEW r \in Requests
    PROVE  /\ r.op \in {"install", "upgrade", "label", "uninstall"}
           /\ r.name \in Names /\ r.img \in Images \cup {Nothing}
           /\ r.wanted \in Seq(Labels)
           /\ r.op \in {"install", "upgrade"} => r.img \in Images
           /\ r.op # "label" => r.name = Agent
           /\ r # NoRequest
<1>1. r \in Request
  BY ConstantsAssumption
<1> QED
  BY <1>1, ConstantsAssumption DEF Request

\* A step that starts, stops or ends a container's process changes neither which
\* containers there are nor what they are made of.
SameContainers ==
    /\ Ids' = Ids
    /\ \A i \in Ids : /\ cont'[i].name = cont[i].name
                      /\ cont'[i].img = cont[i].img
                      /\ cont'[i].labels = cont[i].labels

\* Such steps leave containers as they were but for their states.
LEMMA StateChange ==
    ASSUME TypeOK, NEW id \in Ids, NEW s \in {"running", "exited", "stopped"},
           cont' = InState(id, s)
    PROVE  SameContainers /\ \A i \in Ids' : cont'[i] \in Container
<1>1. \A i \in Ids : cont[i] \in Container
  BY DEF TypeOK
<1>2. Ids' = Ids
  BY DEF Ids, InState
<1>3. \A i \in Ids \ {id} : cont'[i] = cont[i]
  BY DEF Ids, InState
<1>4. cont'[id] = [cont[id] EXCEPT !.state = s]
  BY DEF Ids, InState
<1>5. /\ cont'[id] \in Container /\ cont'[id].name = cont[id].name
      /\ cont'[id].img = cont[id].img /\ cont'[id].labels = cont[id].labels
  BY <1>1, <1>4 DEF Container
<1> QED
  BY <1>1, <1>2, <1>3, <1>5 DEF SameContainers

\* Removing a container leaves the others alone.
LEMMA Removal ==
    ASSUME TypeOK, NEW id, cont' = Without(id)
    PROVE  /\ Ids' = Ids \ {id} /\ Ids' \subseteq Id
           /\ \A i \in Ids' : cont'[i] = cont[i] /\ cont'[i] \in Container
  BY DEF TypeOK, Ids, Without

\* Creating a container with an id that is not in use leaves the others alone.
LEMMA Creation ==
    ASSUME TypeOK, NEW id \in Id, id \notin Ids, NEW c \in Container,
           cont' = WithContainer(id, c)
    PROVE  /\ Ids' = Ids \cup {id} /\ Ids' \subseteq Id
           /\ cont'[id] = c
           /\ \A i \in Ids : cont'[i] = cont[i]
           /\ \A i \in Ids' : cont'[i] \in Container
<1>1. Ids' = Ids \cup {id}
  BY DEF Ids, WithContainer
<1>2. cont'[id] = c /\ \A i \in Ids : cont'[i] = cont[i]
  BY <1>1 DEF Ids, WithContainer
<1> QED
  BY <1>1, <1>2 DEF TypeOK

\* At create, an invocation knows the image and the labels of the container.
LEMMA Successor ==
    ASSUME TypeOK, KnowsRequest, NEW p \in Procs, pc[p] \in Replacing
    PROVE  /\ job[p].name \in Names /\ NewImage(p) \in Images /\ NewLabels(p) \in Labels
           /\ NewId(p) \in Id
<1>1. /\ job[p] \in Requests /\ Op(p) # "uninstall"
      /\ Op(p) = "label" => MoreMaps(p)
      /\ Op(p) \in {"upgrade", "label"} => info[p] \in Snapshot
      /\ pos[p] \in Nat \ {0}
  BY DEF KnowsRequest, KnowsOf, Replacing, TypeOK
<1>2. /\ Op(p) \in {"install", "upgrade", "label"} /\ job[p].wanted \in Seq(Labels)
      /\ Op(p) # "label" => job[p].img \in Images
      /\ job[p].name \in Names
  BY <1>1, RequestTypes DEF Op
<1>3. NewId(p) \in Id
  BY <1>1 DEF NewId, Id
<1>4. NewImage(p) \in Images
  BY <1>1, <1>2 DEF NewImage, Snapshot
<1>5. CASE Op(p) = "label"
  <2>1. Wanted(p) \in Labels
    BY <1>1, <1>2, <1>5 DEF Wanted, MoreMaps
  <2>2. info[p].labels \in Labels
    BY <1>1, <1>5 DEF Snapshot
  <2>3. Merge(info[p].labels, Wanted(p)) \in Labels
    BY <2>1, <2>2 DEF Merge, Labels
  <2> QED
    BY <1>2, <1>3, <1>4, <1>5, <2>3 DEF NewLabels
<1>6. CASE Op(p) = "upgrade"
  BY <1>1, <1>2, <1>3, <1>4, <1>6 DEF NewLabels, Snapshot
<1>7. CASE Op(p) = "install"
  <2>1. [k \in Keys |-> NoLabel] \in Labels
    BY DEF Labels
  <2> QED
    BY <1>2, <1>3, <1>4, <1>7, <2>1 DEF NewLabels
<1> QED
  BY <1>2, <1>5, <1>6, <1>7

\* Create makes one container, under an id nobody has seen yet and a name nobody has.
LEMMA CreateEffect ==
    ASSUME TypeOK, KnowsRequest, IdsUsed, NEW p \in Procs, Create(p)
    PROVE  /\ NewId(p) \notin Ids /\ Ids' = Ids \cup {NewId(p)} /\ Ids' \subseteq Id
           /\ \A i \in Ids : cont'[i] = cont[i]
           /\ \A i \in Ids' : cont'[i] \in Container
           /\ cont'[NewId(p)].name = job[p].name
           /\ cont'[NewId(p)].img = NewImage(p)
           /\ cont'[NewId(p)].labels = NewLabels(p)
           /\ Named(job[p].name) = {}
<1> DEFINE c == [name |-> job[p].name, img |-> NewImage(p),
                 labels |-> NewLabels(p), state |-> "created"]
<1>1. pc[p] = "create" /\ MayCreate(job[p].name, NewImage(p))
      /\ cont' = WithContainer(NewId(p), c)
  BY DEF Create, At
<1>2. NewId(p) \in Id /\ c \in Container
  BY <1>1, Successor DEF Replacing, Container
<1>3. NewId(p) \notin Ids
  <2>1. pos[p] \in Nat
    BY DEF TypeOK
  <2> QED
    BY <1>1, <2>1 DEF NewId, IdsUsed, Used, AfterCreate, Ended
<1>4. /\ Ids' = Ids \cup {NewId(p)} /\ Ids' \subseteq Id /\ cont'[NewId(p)] = c
      /\ \A i \in Ids : cont'[i] = cont[i]
      /\ \A i \in Ids' : cont'[i] \in Container
  BY <1>1, <1>2, <1>3, Creation
<1> QED
  BY <1>1, <1>3, <1>4 DEF MayCreate

\* A step of the invocation p.
Acts(p) == Step(p) \/ Kill(p) \/ \E r \in Requests : Start(p, r)

\* The steps that add or take a container.
Removes(p) ==
    /\ At(p, "remove") /\ seen[p] \in Ids
    /\ cont' = Without(seen[p]) /\ owes' = owes \cup {p}
    /\ Goto(p, "create")
    /\ UNCHANGED <<images, compose, job, pos, seen, info, victims>>

\* Containers keep to their types through the step.
ContainersTyped == Ids' \subseteq Id /\ \A i \in Ids' : cont'[i] \in Container

\* Every step keeps the containers, creates one, or removes one.
LEMMA StepKinds ==
    ASSUME AgentInv, [Next]_vars
    PROVE  /\ ContainersTyped
           /\ \/ SameContainers /\ owes' = owes
              \/ \E p \in Procs : Create(p) \/ Removes(p) \/ Discard(p)
<1>1. TypeOK /\ KnowsRequest /\ IdsUsed
  BY DEF AgentInv
<1>2. ASSUME cont' = cont
      PROVE  SameContainers /\ ContainersTyped
  BY <1>1, <1>2 DEF SameContainers, ContainersTyped, Ids, TypeOK
<1>3. ASSUME NEW id \in Ids, NEW s \in {"running", "exited", "stopped"},
             cont' = InState(id, s)
      PROVE  SameContainers /\ ContainersTyped
  <2>1. SameContainers /\ \A i \in Ids' : cont'[i] \in Container
    BY <1>1, <1>3, StateChange
  <2> QED
    BY <1>1, <2>1 DEF SameContainers, ContainersTyped, TypeOK
<1>4. CASE DaemonStep
  <2>1. PICK id \in Ids : Exits(id) \/ Restarts(id)
    BY <1>4 DEF DaemonStep
  <2>2. cont' = InState(id, "exited") \/ cont' = InState(id, "running")
    BY <2>1 DEF Exits, Restarts
  <2>3. owes' = owes
    BY <1>4 DEF DaemonStep
  <2> QED
    BY <1>3, <2>2, <2>3
<1>5. ASSUME NEW p \in Procs, Acts(p)
      PROVE  /\ ContainersTyped
             /\ \/ SameContainers /\ owes' = owes
                \/ Create(p) \/ Removes(p) \/ Discard(p)
  <2>1. CASE Stop(p)
    <3>1. owes' = owes /\ (cont' = cont \/ (seen[p] \in Ids /\ cont' = InState(seen[p], "stopped")))
      BY <2>1 DEF Stop
    <3> QED
      BY <1>2, <1>3, <3>1
  <2>2. CASE StopVictim(p)
    <3>1. owes' = owes /\ (cont' = cont \/ \E id \in Ids : cont' = InState(id, "stopped"))
      BY <2>2 DEF StopVictim
    <3> QED
      BY <1>2, <1>3, <3>1
  <2>3. CASE StartContainer(p)
    <3>1. owes' = owes /\ NewId(p) \in Ids /\ cont' = InState(NewId(p), "running")
      BY <2>3 DEF StartContainer
    <3> QED
      BY <1>3, <3>1
  <2>4. CASE Create(p)
    BY <1>1, <2>4, CreateEffect DEF ContainersTyped
  <2>5. CASE Discard(p)
    <3>1. cont' = Without(seen[p])
      BY <2>5 DEF Discard
    <3> QED
      BY <1>1, <2>5, <3>1, Removal DEF ContainersTyped
  <2>6. CASE Remove(p)
    <3>1. CASE cont' = cont /\ owes' = owes
      BY <1>2, <3>1
    <3>2. CASE Removes(p)
      <4>1. cont' = Without(seen[p])
        BY <3>2 DEF Removes
      <4> QED
        BY <1>1, <3>2, <4>1, Removal DEF ContainersTyped
    <3> QED
      BY <2>6, <3>1, <3>2 DEF Remove, Removes
  <2>7. CASE \/ Fail(p) \/ Prepare(p) \/ InspectInstall(p) \/ InspectUpgrade(p)
             \/ InspectLabel(p) \/ Pull(p) \/ WaitRunning(p) \/ ListVictims(p)
             \/ RemoveCompose(p) \/ Kill(p) \/ \E r \in Requests : Start(p, r)
    <3>1. cont' = cont /\ owes' = owes
      BY <2>7 DEF Fail, Prepare, InspectInstall, InspectUpgrade, InspectLabel, Pull,
         WaitRunning, ListVictims, RemoveCompose, Kill, Start, daemonVars
    <3> QED
      BY <1>2, <3>1
  <2> QED
    BY <1>5, <2>1, <2>2, <2>3, <2>4, <2>5, <2>6, <2>7 DEF Acts, Step
<1>6. CASE UNCHANGED vars
  <2>1. cont' = cont /\ owes' = owes
    BY <1>6 DEF vars
  <2> QED
    BY <1>2, <2>1
<1> QED
  BY <1>4, <1>5, <1>6 DEF Next, Acts

\* Whatever a container is inspected for, its id and its image and labels are noted.
LEMMA LookTypes ==
    ASSUME TypeOK, NEW p \in Procs, NEW n, NEW id \in Named(n), NEW next \in Points,
           Look(p, id, next)
    PROVE  /\ seen' \in [Procs -> Id \cup {Nothing}] /\ seen'[p] = id
           /\ info' \in [Procs -> Snapshot \cup {Nothing}] /\ info'[p] \in Snapshot
           /\ info'[p].img = cont[id].img /\ info'[p].labels = cont[id].labels
           /\ pc' \in [Procs -> Points] /\ pos' = pos
           /\ id \in Ids /\ cont[id].name = n /\ seen'[p] # Nothing
           /\ \A q \in Procs \ {p} : seen'[q] = seen[q] /\ info'[q] = info[q]
<1>1. id \in Ids /\ id \in Id /\ cont[id] \in Container /\ cont[id].name = n
  BY DEF Named, TypeOK
<1>2. [img |-> cont[id].img, labels |-> cont[id].labels] \in Snapshot
  BY <1>1 DEF Container, Snapshot
<1> QED
  BY <1>1, <1>2, ConstantsAssumption DEF Look, Goto, TypeOK

\* So does everything else.
InvocationsTyped ==
    /\ images' \subseteq Images /\ compose' \in Images \cup {Nothing}
    /\ pc' \in [Procs -> Points] /\ job' \in [Procs -> Request \cup {NoRequest}]
    /\ pos' \in [Procs -> Nat \ {0}] /\ seen' \in [Procs -> Id \cup {Nothing}]
    /\ info' \in [Procs -> Snapshot \cup {Nothing}]
    /\ victims' \in [Procs -> SUBSET Id] /\ owes' \subseteq Procs

\* The invocations' own state keeps its types.
LEMMA TypeStep ==
    ASSUME AgentInv, [Next]_vars
    PROVE  TypeOK'
<1> USE DEF At, Goto, Points, Running, Ended
<1>1. /\ images \subseteq Images /\ compose \in Images \cup {Nothing}
      /\ pc \in [Procs -> Points] /\ job \in [Procs -> Request \cup {NoRequest}]
      /\ pos \in [Procs -> Nat \ {0}] /\ seen \in [Procs -> Id \cup {Nothing}]
      /\ info \in [Procs -> Snapshot \cup {Nothing}] /\ victims \in [Procs -> SUBSET Id]
      /\ owes \subseteq Procs
      /\ Ids \subseteq Id
      /\ TypeOK /\ KnowsRequest
  BY DEF AgentInv, TypeOK
<1>2. ContainersTyped
  BY StepKinds
<1> USE DEF InvocationsTyped
<1>3. ASSUME NEW p \in Procs, Acts(p)
      PROVE  InvocationsTyped
  <2>1. CASE \E r \in Requests : Start(p, r)
    <3>1. PICK r \in Requests : Start(p, r)
      BY <2>1
    <3>2. r \in Request /\ Entry(r.op) \in Points
      BY <3>1, ConstantsAssumption, RequestTypes DEF Entry
    <3> QED
      BY <1>1, <3>1, <3>2 DEF Start, daemonVars
  <2>2. CASE Fail(p) \/ Kill(p) \/ WaitRunning(p)
    BY <1>1, <2>2 DEF Fail, Kill, WaitRunning, daemonVars
  <2>3. CASE Prepare(p)
    <3>1. job[p] \in Requests /\ Op(p) = "install"
      BY <1>1, <2>3 DEF KnowsRequest, KnowsOf, Prepare
    <3>2. job[p].img \in Images
      BY <3>1, RequestTypes DEF Op
    <3> QED
      BY <1>1, <2>3, <3>2 DEF Prepare, daemonVars
  <2>4. CASE InspectInstall(p)
    <3>1. CASE \E id \in Named(Agent) : Look(p, id, "stop")
      BY <1>1, <2>4, <3>1, LookTypes DEF InspectInstall, daemonVars
    <3> QED
      BY <1>1, <2>4, <3>1 DEF InspectInstall, daemonVars
  <2>5. CASE InspectUpgrade(p)
    BY <1>1, <2>5, LookTypes DEF InspectUpgrade, daemonVars
  <2>6. CASE InspectLabel(p)
    <3>1. CASE \E id \in Named(job[p].name) : Look(p, id, "pull")
      BY <1>1, <2>6, <3>1, LookTypes DEF InspectLabel, daemonVars
    <3>2. CASE pos' = [pos EXCEPT ![p] = @ + 1] /\ UNCHANGED <<pc, seen, info>>
      BY <1>1, <2>6, <3>2 DEF InspectLabel, daemonVars
    <3>3. CASE pc' = [pc EXCEPT ![p] = "ok"] /\ UNCHANGED <<pos, seen, info>>
      BY <1>1, <2>6, <3>3 DEF InspectLabel, daemonVars
    <3> QED
      BY <2>6, <3>1, <3>2, <3>3 DEF InspectLabel
  <2>7. CASE Pull(p)
    <3>1. NewImage(p) \in Images
      BY <1>1, <2>7, Successor DEF Pull, Replacing
    <3> QED
      BY <1>1, <2>7, <3>1 DEF Pull
  <2>8. CASE Stop(p) \/ Remove(p) \/ Create(p)
    BY <1>1, <2>8 DEF Stop, Remove, Create
  <2>9. CASE StartContainer(p)
    BY <1>1, <2>9 DEF StartContainer
  <2>10. CASE ListVictims(p)
    BY <1>1, <2>10 DEF ListVictims, daemonVars
  <2>11. CASE StopVictim(p)
    BY <1>1, <2>11 DEF StopVictim
  <2>12. CASE Discard(p)
    BY <1>1, <2>12 DEF Discard
  <2>13. CASE RemoveCompose(p)
    BY <1>1, <2>13 DEF RemoveCompose, daemonVars
  <2> QED
    BY <1>3, <2>1, <2>2, <2>3, <2>4, <2>5, <2>6, <2>7, <2>8, <2>9, <2>10, <2>11,
       <2>12, <2>13 DEF Acts, Step
<1>4. ASSUME DaemonStep \/ UNCHANGED vars
      PROVE  InvocationsTyped
  <2>1. /\ images' = images /\ compose' = compose /\ pc' = pc /\ job' = job /\ pos' = pos
        /\ seen' = seen /\ info' = info /\ victims' = victims /\ owes' = owes
    BY <1>4 DEF DaemonStep, vars, daemonVars
  <2> QED
    BY <1>1, <2>1
<1> HIDE DEF At, Goto, Points, Running, Ended, InvocationsTyped
<1>5. InvocationsTyped
  BY <1>3, <1>4 DEF Next, Acts
<1> QED
  BY <1>2, <1>5 DEF TypeOK, ContainersTyped, InvocationsTyped

\* Steps of others than the invocations' own leave the invocations alone.
InvocationsStay == /\ job' = job /\ pc' = pc /\ pos' = pos /\ seen' = seen
                   /\ info' = info /\ victims' = victims /\ owes' = owes

\* Who takes a step.
LEMMA Actors ==
    ASSUME [Next]_vars
    PROVE  InvocationsStay \/ \E p \in Procs : Acts(p)
<1>1. CASE DaemonStep \/ UNCHANGED vars
  BY <1>1 DEF DaemonStep, vars, daemonVars, InvocationsStay
<1> QED
  BY <1>1 DEF Next, Acts

\* A step of one invocation leaves the state of the others alone.
LEMMA OthersStay ==
    ASSUME TypeOK, KnowsRequest, NEW p \in Procs, Acts(p), NEW q \in Procs \ {p}
    PROVE  /\ pc'[q] = pc[q] /\ job'[q] = job[q] /\ pos'[q] = pos[q]
           /\ seen'[q] = seen[q] /\ info'[q] = info[q] /\ victims'[q] = victims[q]
           /\ q \in owes' <=> q \in owes
<1> USE DEF At, Goto, daemonVars
<1>1. /\ pc \in [Procs -> Points] /\ job \in [Procs -> Request \cup {NoRequest}]
      /\ pos \in [Procs -> Nat \ {0}] /\ seen \in [Procs -> Id \cup {Nothing}]
      /\ info \in [Procs -> Snapshot \cup {Nothing}] /\ victims \in [Procs -> SUBSET Id]
  BY DEF TypeOK
<1>2. CASE \/ Fail(p) \/ Prepare(p) \/ Pull(p) \/ Stop(p) \/ WaitRunning(p) \/ ListVictims(p)
           \/ StopVictim(p) \/ Discard(p) \/ RemoveCompose(p) \/ Kill(p)
           \/ \E r \in Requests : Start(p, r)
  BY <1>1, <1>2 DEF Fail, Prepare, Pull, Stop, WaitRunning, ListVictims, StopVictim,
     Discard, RemoveCompose, Kill, Start
<1>3. CASE InspectInstall(p) \/ InspectUpgrade(p) \/ InspectLabel(p)
  BY <1>1, <1>3 DEF InspectInstall, InspectUpgrade, InspectLabel, Look
<1>4. CASE Remove(p) \/ Create(p) \/ StartContainer(p)
  BY <1>1, <1>4 DEF Remove, Create, StartContainer
<1> QED
  BY <1>2, <1>3, <1>4 DEF Acts, Step

\* What an invocation knows follows it through its steps.
LEMMA KnowsStep ==
    ASSUME TypeOK, KnowsRequest, [Next]_vars
    PROVE  KnowsRequest'
<1> USE DEF At, Goto, Op
<1>1. ASSUME InvocationsStay
      PROVE  KnowsRequest'
  BY <1>1 DEF InvocationsStay, KnowsRequest, KnowsOf, MoreMaps
<1>2. ASSUME NEW p \in Procs, Acts(p)
      PROVE  KnowsOf(p)'
  <2>1. /\ pc \in [Procs -> Points] /\ job \in [Procs -> Request \cup {NoRequest}]
        /\ pos \in [Procs -> Nat \ {0}] /\ seen \in [Procs -> Id \cup {Nothing}]
        /\ info \in [Procs -> Snapshot \cup {Nothing}]
    BY DEF TypeOK
  <2>2. KnowsOf(p)
    BY DEF KnowsRequest
  <2>3. CASE \E r \in Requests : Start(p, r)
    <3>1. PICK r \in Requests : Start(p, r)
      BY <2>3
    <3>2. /\ pc'[p] = Entry(r.op) /\ job'[p] = r /\ seen'[p] = Nothing /\ r # NoRequest
          /\ r.op \in {"install", "upgrade", "label", "uninstall"}
      BY <2>1, <2>2, <3>1, RequestTypes DEF Start, KnowsOf
    <3> QED
      BY <3>2 DEF KnowsOf, Entry, Uninstalling, Replacing
  <2>4. CASE Fail(p) \/ Kill(p)
    <3>1. /\ pc'[p] \in {"failed", "killed"} /\ job' = job /\ pc[p] # "idle"
      BY <2>1, <2>4 DEF Fail, Kill, Running
    <3> QED
      BY <2>2, <3>1 DEF KnowsOf, Uninstalling, Replacing
  <2>5. CASE Prepare(p) \/ Pull(p) \/ Stop(p) \/ Remove(p) \/ Create(p)
    <3>1. /\ job' = job /\ info' = info /\ seen' = seen /\ pos' = pos
          /\ \/ pc[p] = "prepare" /\ pc'[p] = "pull"
             \/ pc[p] = "pull" /\ pc'[p] = "inspect" /\ Op(p) = "install"
             \/ pc[p] \in Replacing /\ pc'[p] \in Replacing
      BY <2>1, <2>5 DEF Prepare, Pull, Stop, Remove, Create, Replacing
    <3> QED
      BY <2>2, <3>1 DEF KnowsOf, MoreMaps, Uninstalling, Replacing
  <2>6. CASE StartContainer(p)
    <3>1. /\ job' = job /\ info' = info /\ seen' = seen /\ pc[p] = "start"
          /\ \/ Op(p) = "label" /\ pc'[p] = "inspect"
             \/ Op(p) # "label" /\ pc'[p] = "wait"
      BY <2>1, <2>6 DEF StartContainer
    <3> QED
      BY <2>2, <3>1 DEF KnowsOf, Uninstalling, Replacing
  <2>7. CASE WaitRunning(p)
    <3>1. job' = job /\ pc[p] = "wait" /\ pc'[p] = "ok"
      BY <2>1, <2>7 DEF WaitRunning
    <3> QED
      BY <2>2, <3>1 DEF KnowsOf, Uninstalling, Replacing
  <2>8. CASE ListVictims(p) \/ StopVictim(p) \/ Discard(p) \/ RemoveCompose(p)
    <3>1. /\ job' = job /\ pc[p] \in Uninstalling
          /\ pc'[p] \in {"victim", "discard", "clean", "ok"}
      BY <2>1, <2>8 DEF ListVictims, StopVictim, Discard, RemoveCompose, Uninstalling, daemonVars
    <3> QED
      BY <2>2, <3>1 DEF KnowsOf, Uninstalling, Replacing
  <2>9. CASE InspectInstall(p)
    <3>1. /\ job' = job /\ pc[p] = "inspect" /\ Op(p) = "install"
          /\ pc'[p] \in {"stop", "create"}
      BY <2>1, <2>9 DEF InspectInstall, Look
    <3> QED
      BY <2>2, <3>1 DEF KnowsOf, Uninstalling, Replacing
  <2>10. CASE InspectUpgrade(p)
    <3>1. PICK id \in Named(Agent) : Look(p, id, "pull")
      BY <2>10 DEF InspectUpgrade
    <3>2. info'[p] \in Snapshot /\ seen'[p] # Nothing
      BY <3>1, LookTypes DEF Points, Running
    <3>3. /\ job' = job /\ pc[p] = "inspect" /\ Op(p) = "upgrade" /\ pc'[p] = "pull"
      BY <2>1, <2>10, <3>1 DEF InspectUpgrade, Look
    <3> QED
      BY <2>2, <3>2, <3>3 DEF KnowsOf, Uninstalling, Replacing
  <2>11. CASE InspectLabel(p)
    <3>1. pc[p] = "inspect" /\ Op(p) = "label" /\ job' = job
      BY <2>11 DEF InspectLabel
    <3>2. CASE ~MoreMaps(p) /\ pc' = [pc EXCEPT ![p] = "ok"] /\ UNCHANGED <<pos, seen, info>>
      <4>1. pc'[p] = "ok" /\ ~MoreMaps(p)'
        BY <2>1, <3>1, <3>2 DEF MoreMaps
      <4> QED
        BY <2>2, <3>1, <4>1 DEF KnowsOf, Uninstalling, Replacing
    <3>3. CASE UNCHANGED <<pc, seen, info>>
      BY <2>2, <3>1, <3>3 DEF KnowsOf, Uninstalling, Replacing
    <3>4. CASE MoreMaps(p) /\ \E id \in Named(job[p].name) : Look(p, id, "pull")
      <4>1. PICK id \in Named(job[p].name) : Look(p, id, "pull")
        BY <3>4
      <4>2. info'[p] \in Snapshot /\ seen'[p] # Nothing /\ pos' = pos
        BY <4>1, LookTypes DEF Points, Running
      <4>3. pc'[p] = "pull" /\ MoreMaps(p)'
        BY <2>1, <3>1, <3>4, <4>1, <4>2 DEF Look, MoreMaps
      <4> QED
        BY <2>2, <3>1, <4>2, <4>3 DEF KnowsOf, Uninstalling, Replacing
    <3> QED
      BY <2>11, <3>2, <3>3, <3>4 DEF InspectLabel
  <2> QED
    BY <1>2, <2>3, <2>4, <2>5, <2>6, <2>7, <2>8, <2>9, <2>10, <2>11 DEF Acts, Step
<1>3. ASSUME NEW p \in Procs, Acts(p), NEW q \in Procs \ {p}
      PROVE  KnowsOf(q)'
  <2>1. pc'[q] = pc[q] /\ job'[q] = job[q] /\ pos'[q] = pos[q]
        /\ seen'[q] = seen[q] /\ info'[q] = info[q] /\ KnowsOf(q)
    BY <1>3, OthersStay DEF KnowsRequest
  <2> QED
    BY <2>1 DEF KnowsOf, MoreMaps
<1> QED
  BY <1>1, <1>2, <1>3, Actors DEF KnowsRequest

\* A used id stays used.
LEMMA UsedStays ==
    ASSUME TypeOK, KnowsRequest, [Next]_vars, NEW p \in Procs, NEW k \in Nat, Used(p, k)
    PROVE  Used(p, k)'
<1>1. CASE pos'[p] = pos[p] /\ (pc[p] \in AfterCreate => pc'[p] \in AfterCreate)
  BY <1>1 DEF Used
<1>2. CASE pos'[p] = pos[p] + 1
  <2>1. k < pos[p] + 1
    BY DEF Used, TypeOK
  <2> QED
    BY <1>2, <2>1 DEF Used
<1>3. CASE InvocationsStay
  BY <1>1, <1>3 DEF InvocationsStay
<1>4. CASE \E q \in Procs \ {p} : Acts(q)
  BY <1>1, <1>4, OthersStay
<1>5. CASE Acts(p)
  <2> USE DEF At, Goto, daemonVars, AfterCreate, Ended
  <2>1. pc \in [Procs -> Points] /\ pos \in [Procs -> Nat \ {0}]
    BY DEF TypeOK
  <2>2. CASE \/ Fail(p) \/ Prepare(p) \/ Pull(p) \/ Stop(p) \/ Remove(p) \/ WaitRunning(p)
             \/ ListVictims(p) \/ StopVictim(p) \/ Discard(p) \/ RemoveCompose(p)
             \/ Kill(p) \/ \E r \in Requests : Start(p, r)
    BY <1>1, <2>1, <2>2 DEF Fail, Prepare, Pull, Stop, Remove, WaitRunning, ListVictims,
       StopVictim, Discard, RemoveCompose, Kill, Start
  <2>3. CASE Create(p)
    BY <1>1, <2>1, <2>3 DEF Create
  <2>4. CASE InspectInstall(p) \/ InspectUpgrade(p)
    BY <1>1, <2>1, <2>4 DEF InspectInstall, InspectUpgrade, Look
  <2>5. CASE InspectLabel(p)
    BY <1>1, <1>2, <2>1, <2>5 DEF InspectLabel, Look
  <2>6. CASE StartContainer(p)
    BY <1>1, <1>2, <2>1, <2>6 DEF StartContainer
  <2> QED
    BY <1>5, <2>2, <2>3, <2>4, <2>5, <2>6 DEF Acts, Step
<1> QED
  BY <1>3, <1>4, <1>5, Actors

\* The ids an invocation comes to know are those of containers there are.
LEMMA IdsLearned ==
    ASSUME TypeOK, KnowsRequest, [Next]_vars, NEW q \in Procs
    PROVE  /\ seen'[q] = seen[q] \/ seen'[q] \in Ids \cup victims[q]
           /\ victims'[q] \subseteq victims[q] \cup Ids
<1>1. CASE InvocationsStay
  BY <1>1 DEF InvocationsStay
<1>2. CASE \E p \in Procs \ {q} : Acts(p)
  BY <1>2, OthersStay
<1>3. CASE Acts(q)
  <2> USE DEF At, Goto, daemonVars
  <2>1. seen \in [Procs -> Id \cup {Nothing}] /\ victims \in [Procs -> SUBSET Id]
    BY DEF TypeOK
  <2>2. CASE \/ Fail(q) \/ Prepare(q) \/ Pull(q) \/ Stop(q) \/ Remove(q) \/ WaitRunning(q)
             \/ RemoveCompose(q) \/ Kill(q) \/ Create(q) \/ StartContainer(q)
             \/ \E r \in Requests : Start(q, r)
    BY <2>1, <2>2 DEF Fail, Prepare, Pull, Stop, Remove, WaitRunning, RemoveCompose, Kill,
       Create, StartContainer, Start
  <2>3. CASE InspectInstall(q) \/ InspectUpgrade(q) \/ InspectLabel(q)
    BY <2>1, <2>3 DEF InspectInstall, InspectUpgrade, InspectLabel, Look, Named
  <2>4. CASE ListVictims(q)
    BY <2>1, <2>4 DEF ListVictims
  <2>5. CASE StopVictim(q)
    BY <2>1, <2>5 DEF StopVictim
  <2>6. CASE Discard(q)
    BY <2>1, <2>6 DEF Discard
  <2> QED
    BY <1>3, <2>2, <2>3, <2>4, <2>5, <2>6 DEF Acts, Step
<1> QED
  BY <1>1, <1>2, <1>3, Actors

\* New containers have new ids.
LEMMA IdsUsedStep ==
    ASSUME AgentInv, [Next]_vars
    PROVE  IdsUsed'
<1>1. TypeOK /\ KnowsRequest /\ IdsUsed
  BY DEF AgentInv
<1>2. ASSUME NEW p \in Procs, NEW k \in Nat, Used(p, k)
      PROVE  Used(p, k)'
  BY <1>1, <1>2, UsedStays
<1>3. ASSUME NEW p \in Procs, NEW k \in Nat, <<p, k>> \in Ids'
      PROVE  Used(p, k)'
  <2>1. CASE <<p, k>> \in Ids
    BY <1>1, <1>2, <2>1 DEF IdsUsed
  <2>2. CASE <<p, k>> \notin Ids
    <3>1. PICK q \in Procs : Create(q)
      BY <1>3, <2>2, StepKinds, <1>1, Removal DEF SameContainers, Removes, Discard
    <3>2. <<p, k>> = NewId(q)
      BY <1>1, <1>3, <2>2, <3>1, CreateEffect
    <3>3. p = q /\ k = pos[p]
      BY <3>2 DEF NewId
    <3>4. pc'[p] = "start" /\ pos'[p] = pos[p]
      BY <1>1, <3>1, <3>3 DEF Create, Goto, TypeOK
    <3> QED
      BY <3>3, <3>4 DEF Used, AfterCreate
  <2> QED
    BY <2>1, <2>2
<1>4. ASSUME NEW p \in Procs, NEW k \in Nat, NEW q \in Procs,
             <<p, k>> = seen'[q] \/ <<p, k>> \in victims'[q]
      PROVE  Used(p, k)'
  <2>1. <<p, k>> = seen[q] \/ <<p, k>> \in Ids \/ <<p, k>> \in victims[q]
    BY <1>1, <1>4, IdsLearned
  <2> QED
    BY <1>1, <1>2, <2>1 DEF IdsUsed
<1> QED
  BY <1>3, <1>4 DEF IdsUsed

\* The daemon keeps names apart.
LEMMA UniqueNamesStep ==
    ASSUME AgentInv, [Next]_vars
    PROVE  UniqueNames'
<1>1. TypeOK /\ KnowsRequest /\ IdsUsed /\ UniqueNames
  BY DEF AgentInv
<1>2. CASE SameContainers
  BY <1>1, <1>2 DEF SameContainers, UniqueNames
<1>3. ASSUME NEW p \in Procs, Create(p)
      PROVE  UniqueNames'
  <2>1. /\ Ids' = Ids \cup {NewId(p)} /\ NewId(p) \notin Ids
        /\ \A i \in Ids : cont'[i] = cont[i] /\ cont[i].name # job[p].name
        /\ cont'[NewId(p)].name = job[p].name
    BY <1>1, <1>3, CreateEffect DEF Named
  <2> QED
    BY <1>1, <2>1 DEF UniqueNames
<1>4. ASSUME NEW p \in Procs, Removes(p) \/ Discard(p)
      PROVE  UniqueNames'
  <2>1. cont' = Without(seen[p])
    BY <1>4 DEF Removes, Discard
  <2> QED
    BY <1>1, <2>1, Removal DEF UniqueNames
<1> QED
  BY <1>2, <1>3, <1>4, StepKinds

\* What an invocation may do to its notes on the container it replaces.
Looks(q, n) == /\ cont' = cont /\ job' = job
               /\ \E id \in Named(n) :
                     seen'[q] = id /\ info'[q].img = cont[id].img
                                  /\ info'[q].labels = cont[id].labels

LEMMA NotesTaken ==
    ASSUME TypeOK, KnowsRequest, [Next]_vars, NEW q \in Procs
    PROVE  \/ seen'[q] = seen[q] /\ info'[q] = info[q] /\ job'[q] = job[q]
           \/ job[q] = NoRequest /\ seen'[q] = Nothing
           \/ job'[q] # NoRequest /\ job'[q].op = "uninstall"
           \/ job[q] # NoRequest /\ pc[q] = "inspect" /\ Looks(q, job[q].name)
<1> USE DEF At, Goto, daemonVars
<1>1. CASE InvocationsStay
  BY <1>1 DEF InvocationsStay
<1>2. CASE \E p \in Procs \ {q} : Acts(p)
  BY <1>2, OthersStay
<1>3. CASE Acts(q)
  <2>1. /\ seen \in [Procs -> Id \cup {Nothing}] /\ job \in [Procs -> Request \cup {NoRequest}]
        /\ info \in [Procs -> Snapshot \cup {Nothing}] /\ pc \in [Procs -> Points]
        /\ KnowsOf(q)
    BY DEF TypeOK, KnowsRequest
  <2>2. CASE \/ Fail(q) \/ Prepare(q) \/ Pull(q) \/ Stop(q) \/ Remove(q) \/ WaitRunning(q)
             \/ RemoveCompose(q) \/ Kill(q) \/ Create(q) \/ StartContainer(q)
             \/ ListVictims(q) \/ Discard(q)
    BY <2>2 DEF Fail, Prepare, Pull, Stop, Remove, WaitRunning, RemoveCompose, Kill,
       Create, StartContainer, ListVictims, Discard
  <2>3. CASE \E r \in Requests : Start(q, r)
    BY <2>1, <2>3 DEF Start, KnowsOf
  <2>4. CASE StopVictim(q)
    BY <2>1, <2>4 DEF StopVictim, KnowsOf, Uninstalling, Op
  <2>5. ASSUME NEW n, NEW id \in Named(n), NEW next \in Points, Look(q, id, next),
               UNCHANGED <<cont, job>>
        PROVE  Looks(q, n)
    BY <2>5, LookTypes DEF Looks
  <2>6. CASE InspectInstall(q) \/ InspectUpgrade(q)
    <3>1. /\ cont' = cont /\ job' = job /\ pc[q] = "inspect" /\ Op(q) \in {"install", "upgrade"}
          /\ \/ \E id \in Named(Agent), next \in {"stop", "pull"} : Look(q, id, next)
             \/ seen' = seen /\ info' = info
      BY <2>6 DEF InspectInstall, InspectUpgrade
    <3>2. job[q] \in Requests /\ job[q] # NoRequest /\ job[q].name = Agent
      BY <2>1, <3>1, RequestTypes DEF KnowsOf, Op
    <3> QED
      BY <2>5, <3>1, <3>2 DEF Points, Running
  <2>7. CASE InspectLabel(q)
    <3>1. /\ cont' = cont /\ job' = job /\ pc[q] = "inspect"
          /\ \/ \E id \in Named(job[q].name) : Look(q, id, "pull")
             \/ seen' = seen /\ info' = info
      BY <2>7 DEF InspectLabel
    <3>2. job[q] # NoRequest
      BY <2>1, <3>1 DEF KnowsOf
    <3> QED
      BY <2>5, <3>1, <3>2 DEF Points, Running
  <2> QED
    BY <1>3, <2>2, <2>3, <2>4, <2>6, <2>7 DEF Acts, Step
<1> QED
  BY <1>1, <1>2, <1>3, Actors

\* The daemon changes a container only by replacing it, so the notes stay right.
LEMMA SeenIsKnownStep ==
    ASSUME AgentInv, [Next]_vars
    PROVE  SeenIsKnown'
<1>1. TypeOK /\ KnowsRequest /\ IdsUsed /\ SeenIsKnown
  BY DEF AgentInv
<1> SUFFICES ASSUME NEW q \in Procs, job'[q] # NoRequest, job'[q].op # "uninstall",
                    seen'[q] \in Ids'
             PROVE  /\ cont'[seen'[q]].name = job'[q].name
                    /\ cont'[seen'[q]].img = info'[q].img
                    /\ cont'[seen'[q]].labels = info'[q].labels
  BY DEF SeenIsKnown, Op
<1>2. seen'[q] \in Id /\ seen'[q] # Nothing
  BY StepKinds, ConstantsAssumption DEF ContainersTyped
<1>3. CASE seen'[q] = seen[q] /\ info'[q] = info[q] /\ job'[q] = job[q]
  <2>1. seen[q] \in Ids
    <3> SUFFICES ASSUME seen[q] \notin Ids
                 PROVE  FALSE
      OBVIOUS
    <3>1. PICK p \in Procs : Create(p)
      BY <1>1, <1>3, StepKinds, Removal DEF SameContainers, Removes, Discard
    <3>2. seen[q] = <<p, pos[p]>>
      BY <1>1, <1>3, <3>1, CreateEffect DEF NewId
    <3>3. pos[p] \in Nat /\ pc[p] = "create"
      BY <1>1, <3>1 DEF TypeOK, Create, At
    <3>4. Used(p, pos[p])
      BY <1>1, <3>2, <3>3 DEF IdsUsed
    <3> QED
      BY <3>3, <3>4 DEF Used, AfterCreate, Ended
  <2>2. /\ cont'[seen[q]].name = cont[seen[q]].name
        /\ cont'[seen[q]].img = cont[seen[q]].img
        /\ cont'[seen[q]].labels = cont[seen[q]].labels
    BY <1>1, <1>3, <2>1, StepKinds, Removal, CreateEffect DEF SameContainers, Removes, Discard
  <2> QED
    BY <1>1, <1>3, <2>1, <2>2 DEF SeenIsKnown, Op
<1>4. CASE job[q] # NoRequest /\ Looks(q, job[q].name)
  BY <1>4 DEF Looks, Named
<1> QED
  BY <1>1, <1>2, <1>3, <1>4, NotesTaken

\* A run that owes a container ends badly or creates it.
LEMMA OwesInStepStep ==
    ASSUME AgentInv, [Next]_vars
    PROVE  OwesInStep'
<1> USE DEF At, Goto, daemonVars
<1>1. TypeOK /\ KnowsRequest /\ OwesInStep /\ pc \in [Procs -> Points] /\ owes \subseteq Procs
  BY DEF AgentInv, TypeOK
<1>2. CASE InvocationsStay
  BY <1>1, <1>2 DEF InvocationsStay, OwesInStep
<1>3. ASSUME NEW p \in Procs, Acts(p), p \in owes'
      PROVE  pc'[p] \in {"create", "failed", "killed"}
  <2>1. CASE Remove(p)
    BY <1>1, <2>1 DEF Remove
  <2>2. CASE Create(p)
    BY <1>3, <2>2 DEF Create
  <2>3. CASE Fail(p) \/ Kill(p)
    BY <1>1, <2>3 DEF Fail, Kill
  <2>4. CASE ~(Remove(p) \/ Create(p) \/ Fail(p) \/ Kill(p))
    <3>1. owes' = owes /\ pc[p] \notin {"create", "failed", "killed"}
      BY <1>3, <2>4 DEF Acts, Step, Prepare, InspectInstall, InspectUpgrade, InspectLabel,
         Pull, Stop, StartContainer, WaitRunning, ListVictims, StopVictim, Discard,
         RemoveCompose, Start
    <3> QED
      BY <1>1, <1>3, <3>1 DEF OwesInStep
  <2> QED
    BY <2>1, <2>2, <2>3, <2>4
<1>4. ASSUME NEW p \in Procs, Acts(p), NEW q \in Procs \ {p}, q \in owes'
      PROVE  pc'[q] \in {"create", "failed", "killed"}
  BY <1>1, <1>4, OthersStay DEF OwesInStep
<1>5. owes' \subseteq Procs
  BY TypeStep DEF TypeOK
<1> QED
  BY <1>2, <1>3, <1>4, <1>5, Actors DEF OwesInStep

\* A run keeps its request.
LEMMA JobStays ==
    ASSUME TypeOK, KnowsRequest, [Next]_vars, NEW q \in Procs, job[q] # NoRequest
    PROVE  job'[q] = job[q]
<1>1. CASE InvocationsStay
  BY <1>1 DEF InvocationsStay
<1>2. CASE \E p \in Procs \ {q} : Acts(p)
  BY <1>2, OthersStay
<1>3. CASE Acts(q)
  <2>1. pc[q] # "idle"
    BY DEF KnowsRequest, KnowsOf
  <2> QED
    BY <1>3, <2>1 DEF Acts, Step, Fail, Prepare, InspectInstall, InspectUpgrade, InspectLabel,
       Pull, Stop, Remove, Create, StartContainer, WaitRunning, ListVictims, StopVictim,
       Discard, RemoveCompose, Kill, Start, At
<1> QED
  BY <1>1, <1>2, <1>3, Actors

\* Where no uninstall runs, none has run, and nothing is discarded.
LEMMA StartedStays ==
    ASSUME TypeOK, KnowsRequest, [Next]_vars, NEW op, ~Started(op)'
    PROVE  /\ ~Started(op)
           /\ op = "uninstall" => \A p \in Procs : ~Discard(p)
<1>1. ~Started(op)
  BY JobStays DEF Started, Op
<1>2. ASSUME NEW p \in Procs, Discard(p), op = "uninstall"
      PROVE  FALSE
  BY <1>1, <1>2 DEF Discard, At, KnowsRequest, KnowsOf, Uninstalling, Started
<1> QED
  BY <1>1, <1>2

\* A container disappears only by the hand of a run that owes its successor.
LEMMA MissingIsOwedStep ==
    ASSUME AgentInv, [Next]_vars
    PROVE  MissingIsOwed'
<1>1. /\ TypeOK /\ KnowsRequest /\ IdsUsed /\ SeenIsKnown /\ MissingIsOwed /\ OwesInStep
      /\ owes \subseteq Procs
  BY DEF AgentInv, TypeOK
<1> SUFFICES ASSUME ~Started("uninstall")', NEW q \in Procs, seen'[q] # Nothing,
                    Named(job[q].name)' = {}
             PROVE  Owed(job[q].name)'
  BY DEF MissingIsOwed
<1>2. ~Started("uninstall") /\ \A p \in Procs : ~Discard(p)
  BY <1>1, StartedStays
<1> DEFINE n == job[q].name
<1>3. job[q] # NoRequest /\ job'[q] = job[q]
  <2>1. job[q] # NoRequest
    BY <1>1, <1>2, NotesTaken DEF KnowsRequest, KnowsOf, Started, Op
  <2> QED
    BY <1>1, <2>1, JobStays
<1>4. ASSUME NEW o \in owes, job[o].name = n, o \in owes'
      PROVE  Owed(n)'
  <2>1. job[o] # NoRequest
    BY <1>1 DEF OwesInStep, KnowsRequest, KnowsOf
  <2>2. job'[o] = job[o] /\ pc'[o] # "ok"
    BY <1>1, <1>4, <2>1, JobStays, OwesInStepStep DEF OwesInStep
  <2> QED
    BY <1>3, <1>4, <2>2 DEF Owed
<1>5. CASE Named(n) = {}
  <2>1. seen[q] # Nothing
    BY <1>1, <1>2, <1>3, <1>5, NotesTaken DEF Looks, Started, Op
  <2>2. PICK o \in owes : job[o].name = n
    BY <1>1, <1>2, <1>5, <2>1 DEF MissingIsOwed, Owed
  <2>3. o \in owes'
    <3>1. CASE Create(o)
      <4>1. NewId(o) \in Ids' /\ cont'[NewId(o)].name = n
        BY <1>1, <2>2, <3>1, CreateEffect
      <4> QED
        BY <1>3, <4>1 DEF Named
    <3>2. CASE ~Create(o)
      <4>1. CASE \E p \in Procs : Create(p)
        BY <1>1, <2>2, <3>2, <4>1, OthersStay DEF Acts, Step
      <4> QED
        BY <1>2, <2>2, <4>1, StepKinds DEF Removes
    <3> QED
      BY <3>1, <3>2
  <2> QED
    BY <1>3, <1>4, <2>2, <2>3
<1>6. CASE Named(n) # {}
  <2>1. PICK i \in Ids : cont[i].name = n
    BY <1>6 DEF Named
  <2>2. ~(i \in Ids' /\ cont'[i].name = n)
    BY <1>3 DEF Named
  <2>3. PICK p \in Procs : Removes(p) /\ seen[p] = i
    BY <1>1, <1>2, <2>1, <2>2, StepKinds, CreateEffect, Removal DEF SameContainers, Removes
  <2>4. job[p] # NoRequest /\ Op(p) # "uninstall" /\ p \in owes' /\ pc'[p] = "create"
    BY <1>1, <2>3 DEF Removes, At, Goto, KnowsRequest, KnowsOf, Replacing, TypeOK
  <2>5. job[p].name = n /\ job'[p] = job[p]
    BY <1>1, <2>1, <2>3, <2>4, JobStays DEF SeenIsKnown
  <2> QED
    BY <1>3, <2>4, <2>5 DEF Owed
<1> QED
  BY <1>3, <1>5, <1>6

\* What is contested stays contested.
LEMMA ContestedStays ==
    ASSUME TypeOK, KnowsRequest, [Next]_vars, NEW n
    PROVE  /\ \A img : ImageContested(n, img) => ImageContested(n, img)'
           /\ \A k, v : LabelContested(n, k, v) => LabelContested(n, k, v)'
<1>1. ASSUME NEW q \in Procs, job[q] # NoRequest
      PROVE  job'[q] = job[q]
  BY <1>1, JobStays
<1>2. ASSUME NEW img, ImageContested(n, img)
      PROVE  ImageContested(n, img)'
  BY <1>1, <1>2 DEF ImageContested, Asks, Op
<1>3. ASSUME NEW k, NEW v, LabelContested(n, k, v)
      PROVE  LabelContested(n, k, v)'
  BY <1>1, <1>3 DEF LabelContested, AsksLabel, Op
<1> QED
  BY <1>2, <1>3

\* A label map that needs no new container.
Skips(p) == /\ InspectLabel(p) /\ MoreMaps(p)
            /\ \/ \A k \in Keys : Wanted(p)[k] = NoLabel
               \/ \E id \in Named(job[p].name) : Changes(cont[id].labels, Wanted(p)) = {}
            /\ pos' = [pos EXCEPT ![p] = @ + 1]
            /\ pc' = pc

\* What a run has got done grows only as it creates a container or passes over a
\* label map.
LEMMA ProgressOf ==
    ASSUME AgentInv, [Next]_vars, NEW p \in Procs, ~Create(p), ~Skips(p)
    PROVE  /\ \A i \in Nat : MapDone(p, i)' => MapDone(p, i)
           /\ (Op(p) = "upgrade" /\ pc'[p] \in {"start", "wait", "ok"}) =>
                  pc[p] \in {"start", "wait", "ok"}
<1> USE DEF At, Goto, daemonVars
<1>1. /\ pc \in [Procs -> Points] /\ pos \in [Procs -> Nat \ {0}] /\ pos[p] \in Nat
      /\ KnowsOf(p) /\ TypeOK /\ KnowsRequest
  BY DEF AgentInv, TypeOK, KnowsRequest
<1>2. CASE pos'[p] = pos[p] /\ (pc'[p] = "start" => pc[p] = "start")
           /\ (pc'[p] \in {"start", "wait", "ok"} => pc[p] \in {"start", "wait", "ok"})
  BY <1>2 DEF MapDone
<1>3. CASE InvocationsStay
  BY <1>2, <1>3 DEF InvocationsStay
<1>4. CASE \E q \in Procs \ {p} : Acts(q)
  BY <1>1, <1>2, <1>4, OthersStay
<1>5. CASE Acts(p)
  <2>1. CASE \/ Fail(p) \/ Prepare(p) \/ Pull(p) \/ Stop(p) \/ Remove(p) \/ WaitRunning(p)
             \/ Kill(p)
    BY <1>1, <1>2, <2>1 DEF Fail, Prepare, Pull, Stop, Remove, WaitRunning, Kill
  <2>2. CASE \E r \in Requests : Start(p, r)
    BY <1>1, <1>2, <2>2, RequestTypes DEF Start, Entry
  <2>3. CASE ListVictims(p) \/ StopVictim(p) \/ Discard(p) \/ RemoveCompose(p)
    <3>1. pos' = pos /\ pc[p] \in Uninstalling /\ pc'[p] # "start"
      BY <1>1, <2>3 DEF ListVictims, StopVictim, Discard, RemoveCompose, Uninstalling
    <3>2. Op(p) = "uninstall"
      BY <1>1, <3>1 DEF KnowsOf
    <3> QED
      BY <3>1, <3>2 DEF MapDone
  <2>4. CASE InspectInstall(p) \/ InspectUpgrade(p)
    BY <1>1, <1>2, <2>4 DEF InspectInstall, InspectUpgrade, Look
  <2>5. CASE InspectLabel(p)
    <3>1. pos' = pos /\ pc'[p] \in {"pull", "ok"} /\ Op(p) = "label"
      BY <1>1, <2>5 DEF InspectLabel, Look, Skips
    <3> QED
      BY <3>1 DEF MapDone
  <2>6. CASE StartContainer(p)
    <3>1. CASE Op(p) = "label"
      <4>1. pc[p] = "start" /\ pos'[p] = pos[p] + 1 /\ pc'[p] = "inspect"
        BY <1>1, <2>6, <3>1 DEF StartContainer
      <4>2. \A i \in Nat : i < pos[p] + 1 => i < pos[p] \/ i = pos[p]
        BY <1>1
      <4> QED
        BY <3>1, <4>1, <4>2 DEF MapDone
    <3>2. CASE Op(p) # "label"
      BY <1>1, <1>2, <2>6, <3>2 DEF StartContainer
    <3> QED
      BY <3>1, <3>2
  <2> QED
    BY <1>5, <2>1, <2>2, <2>3, <2>4, <2>5, <2>6 DEF Acts, Step
<1> QED
  BY <1>1, <1>3, <1>4, <1>5, Actors

\* An image and labels in which what a run has done is heeded stay so.
LEMMA HeedsStay ==
    ASSUME AgentInv, [Next]_vars, NEW p \in Procs, job[p] # NoRequest,
           NEW img, NEW labels, HeedsOf(p, img, labels), ~Create(p), ~Skips(p)
    PROVE  HeedsOf(p, img, labels)'
<1>1. TypeOK /\ KnowsRequest
  BY DEF AgentInv
<1>2. job'[p] = job[p] /\ job[p].wanted \in Seq(Labels)
  BY <1>1, JobStays, RequestTypes DEF KnowsRequest, KnowsOf
<1>3. ImageHeeded(p, img)'
  BY <1>1, <1>2, ProgressOf, ContestedStays DEF HeedsOf, ImageHeeded, Op
<1>4. LabelsHeeded(p, labels)'
  <2>1. \A i \in 1..Len(job[p].wanted) : MapDone(p, i)' => MapDone(p, i)
    BY <1>2, ProgressOf
  <2> QED
    BY <1>1, <1>2, <2>1, ContestedStays DEF HeedsOf, LabelsHeeded, Op
<1> QED
  BY <1>3, <1>4 DEF HeedsOf

\* A run that has just started has done nothing yet.
LEMMA HeedsFirst ==
    ASSUME AgentInv, [Next]_vars, NEW p \in Procs, job[p] = NoRequest,
           job'[p] # NoRequest, NEW img, NEW labels
    PROVE  HeedsOf(p, img, labels)'
<1> USE DEF At, Goto
<1>1. /\ TypeOK /\ KnowsRequest /\ pc[p] = "idle" /\ pos[p] = 1
      /\ pc \in [Procs -> Points] /\ job \in [Procs -> Request \cup {NoRequest}]
  BY DEF AgentInv, TypeOK, KnowsRequest, KnowsOf
<1>2. Acts(p)
  BY <1>1, Actors, OthersStay DEF InvocationsStay
<1>3. PICK r \in Requests : Start(p, r)
  BY <1>1, <1>2 DEF Acts, Step, Fail, Prepare, InspectInstall, InspectUpgrade, InspectLabel,
     Pull, Stop, Remove, Create, StartContainer, WaitRunning, ListVictims, StopVictim,
     Discard, RemoveCompose, Kill, Running
<1>4. pc'[p] \in {"prepare", "inspect", "list"} /\ pos'[p] = 1 /\ job'[p] = r
  BY <1>1, <1>3, RequestTypes DEF Start, Entry
<1>5. \A i \in 1..Len(r.wanted) : ~MapDone(p, i)'
  <2>1. Len(r.wanted) \in Nat
    BY RequestTypes
  <2> QED
    BY <1>4, <2>1 DEF MapDone
<1> QED
  BY <1>4, <1>5 DEF HeedsOf, ImageHeeded, LabelsHeeded

\* A label map is passed over where it is heeded already.
LEMMA HeedsSkipped ==
    ASSUME AgentInv, [Next]_vars, NEW p \in Procs, Skips(p), NEW img, NEW labels,
           HeedsOf(p, img, labels),
           (\A k \in Keys : Wanted(p)[k] = NoLabel) \/ Changes(labels, Wanted(p)) = {}
    PROVE  HeedsOf(p, img, labels)'
<1>1. /\ TypeOK /\ KnowsRequest /\ pos[p] \in Nat /\ pos'[p] = pos[p] + 1
      /\ pc' = pc /\ job' = job /\ Op(p) = "label" /\ pc[p] = "inspect"
  BY DEF AgentInv, TypeOK, Skips, InspectLabel, At, Goto
<1>2. ImageHeeded(p, img)'
  BY <1>1 DEF ImageHeeded, Op
<1>3. job[p] \in Requests /\ job[p].wanted \in Seq(Labels)
  BY <1>1, RequestTypes DEF KnowsRequest, KnowsOf
<1>4. \A k \in Keys : Wanted(p)[k] \in Values \ {Empty} => labels[k] = Wanted(p)[k]
  BY ConstantsAssumption DEF Changes, Lookup
<1>5. ASSUME NEW i \in 1..Len(job[p].wanted), MapDone(p, i)', NEW k \in Keys,
             job[p].wanted[i][k] \in Values \ {Empty}
      PROVE  \/ labels[k] = job[p].wanted[i][k]
             \/ LabelContested(job[p].name, k, job[p].wanted[i][k])'
  <2>1. i \in Nat /\ (i < pos[p] \/ i = pos[p])
    BY <1>1, <1>3, <1>5 DEF MapDone
  <2>2. CASE i = pos[p]
    BY <1>4, <1>5, <2>2 DEF Wanted
  <2>3. CASE i < pos[p]
    BY <1>1, <1>5, <2>3, ContestedStays DEF HeedsOf, LabelsHeeded, MapDone
  <2> QED
    BY <2>1, <2>2, <2>3
<1>6. LabelsHeeded(p, labels)'
  BY <1>1, <1>5 DEF LabelsHeeded, Op
<1> QED
  BY <1>2, <1>6 DEF HeedsOf

\* Where neither install nor uninstall runs, the steps are few.
LEMMA QuietStays ==
    ASSUME AgentInv, [Next]_vars, Quiet'
    PROVE  /\ Quiet
           /\ \/ SameContainers /\ owes' = owes
              \/ \E p \in Procs : Create(p) \/ Removes(p)
           /\ \A p \in Procs : job[p] # NoRequest => Op(p) \in {"upgrade", "label"}
<1>1. TypeOK /\ KnowsRequest
  BY DEF AgentInv
<1>2. Quiet /\ \A p \in Procs : ~Discard(p)
  BY <1>1, StartedStays DEF Quiet
<1>3. ASSUME NEW p \in Procs, job[p] # NoRequest
      PROVE  Op(p) \in {"upgrade", "label"}
  <2>1. job[p].op \in {"install", "upgrade", "label", "uninstall"}
    BY <1>1, <1>3, RequestTypes DEF KnowsRequest, KnowsOf
  <2> QED
    BY <1>2, <1>3, <2>1 DEF Quiet, Started, Op
<1> QED
  BY <1>2, <1>3, StepKinds

\* Who owes a container keeps the notes on the one that was removed.
LEMMA OwesNotes ==
    ASSUME AgentInv, [Next]_vars, Quiet', NEW o \in owes
    PROVE  /\ o \in Procs /\ job[o] # NoRequest /\ job'[o] = job[o] /\ info'[o] = info[o]
           /\ pc[o] \in {"create", "failed", "killed"}
<1>1. TypeOK /\ KnowsRequest /\ o \in Procs /\ pc[o] \in {"create", "failed", "killed"}
  BY DEF AgentInv, TypeOK, OwesInStep
<1>2. job[o] # NoRequest
  BY <1>1 DEF KnowsRequest, KnowsOf
<1>3. job'[o] = job[o]
  BY <1>1, <1>2, JobStays
<1>4. job[o].op # "uninstall"
  BY <1>1, <1>2, QuietStays DEF Op
<1> QED
  BY <1>1, <1>2, <1>3, <1>4, NotesTaken

\* Who is about to create a container owes one, or one is owed, or there is one.
LEMMA CreatorKnown ==
    ASSUME AgentInv, Quiet, NEW p \in Procs, pc[p] \in Replacing, Named(job[p].name) = {}
    PROVE  \E o \in owes : job[o].name = job[p].name
<1>1. job[p] # NoRequest /\ job[p] \in Requests
  BY DEF AgentInv, KnowsRequest, KnowsOf, Replacing
<1>2. Op(p) \in {"upgrade", "label"}
  BY <1>1, RequestTypes DEF Quiet, Started, Op
<1>3. seen[p] # Nothing
  BY <1>2 DEF AgentInv, KnowsRequest, KnowsOf
<1> QED
  BY <1>3 DEF AgentInv, MissingIsOwed, Quiet, Owed

\* Once there is one run too many, there will always be.
LEMMA ExtraStays ==
    ASSUME AgentInv, [Next]_vars, Quiet', NEW n, Extra(n)
    PROVE  Extra(n)'
<1>1. TypeOK /\ KnowsRequest /\ IdsUsed /\ SeenIsKnown
  BY DEF AgentInv
<1>2. \A o \in owes : o \in Procs /\ job[o] # NoRequest /\ job'[o] = job[o] /\ pc[o] # "remove"
  BY OwesNotes
<1>3. PICK q \in owes : job[q].name = n /\ (Named(n) # {} \/ \E o \in owes \ {q} : job[o].name = n)
  BY DEF Extra
<1>4. CASE SameContainers /\ owes' = owes
  <2>1. Named(n)' = Named(n)
    BY <1>4 DEF SameContainers, Named
  <2> QED
    BY <1>2, <1>3, <1>4, <2>1 DEF Extra
<1>5. ASSUME NEW p \in Procs, Removes(p)
      PROVE  Extra(n)'
  <2>1. /\ owes' = owes \cup {p} /\ pc[p] = "remove" /\ seen[p] \in Ids /\ job' = job
        /\ Ids' = Ids \ {seen[p]} /\ \A i \in Ids' : cont'[i] = cont[i]
    BY <1>1, <1>5, Removal DEF Removes, At
  <2>2. job[p].name = cont[seen[p]].name /\ p # q
    BY <1>1, <1>2, <2>1 DEF SeenIsKnown, KnowsRequest, KnowsOf, Replacing
  <2>3. CASE \E o \in owes \ {q} : job[o].name = n
    BY <1>3, <2>1, <2>3 DEF Extra
  <2>4. ASSUME NEW i \in Named(n)
        PROVE  Extra(n)'
    <3>1. CASE i = seen[p]
      BY <1>3, <2>1, <2>2, <2>4, <3>1 DEF Extra, Named
    <3>2. CASE i # seen[p]
      <4>1. i \in Named(n)'
        BY <2>1, <2>4, <3>2 DEF Named
      <4> QED
        BY <1>3, <2>1, <4>1 DEF Extra
    <3> QED
      BY <3>1, <3>2
  <2> QED
    BY <1>3, <2>3, <2>4
<1>6. ASSUME NEW p \in Procs, Create(p)
      PROVE  Extra(n)'
  <2>1. /\ owes' = owes \ {p} /\ job' = job /\ NewId(p) \in Ids' /\ Ids \subseteq Ids'
        /\ \A i \in Ids : cont'[i] = cont[i]
        /\ cont'[NewId(p)].name = job[p].name /\ Named(job[p].name) = {}
    BY <1>1, <1>6, CreateEffect DEF Create
  <2>2. CASE job[p].name = n
    <3>1. PICK o \in owes \ {p} : job[o].name = n
      BY <1>3, <2>1, <2>2
    <3>2. NewId(p) \in Named(n)'
      BY <2>1, <2>2 DEF Named
    <3> QED
      BY <2>1, <3>1, <3>2 DEF Extra
  <2>3. CASE job[p].name # n
    <3>1. Named(n) \subseteq Named(n)'
      BY <2>1 DEF Named
    <3> QED
      BY <1>3, <2>1, <2>3, <3>1 DEF Extra
  <2> QED
    BY <2>2, <2>3
<1> QED
  BY <1>4, <1>5, <1>6, QuietStays

\* Nobody else's progress disturbs what is heeded.
LEMMA HeededStays ==
    ASSUME AgentInv, [Next]_vars, NEW n, NEW img, NEW labels, Heeded(n, img, labels),
           \A p \in Procs : job[p].name = n =>
              /\ ~Create(p)
              /\ Skips(p) => \/ \A k \in Keys : Wanted(p)[k] = NoLabel
                            \/ Changes(labels, Wanted(p)) = {}
    PROVE  Heeded(n, img, labels)'
<1> SUFFICES ASSUME NEW p \in Procs, job'[p] # NoRequest, job'[p].name = n
             PROVE  HeedsOf(p, img, labels)'
  BY DEF Heeded
<1>1. CASE job[p] = NoRequest
  BY <1>1, HeedsFirst
<1>2. CASE job[p] # NoRequest
  <2>1. job[p].name = n
    BY <1>2, JobStays DEF AgentInv
  <2>2. HeedsOf(p, img, labels)
    BY <1>2, <2>1 DEF Heeded
  <2> QED
    BY <1>2, <2>1, <2>2, HeedsStay, HeedsSkipped
<1> QED
  BY <1>1, <1>2

\* Who owes nothing to this name may pass over a label map only if the one container
\* there is has the labels.
LEMMA SkipsOf ==
    ASSUME AgentInv, NEW p \in Procs, Skips(p), NEW id \in Named(job[p].name)
    PROVE  \/ \A k \in Keys : Wanted(p)[k] = NoLabel
           \/ Changes(cont[id].labels, Wanted(p)) = {}
  BY DEF AgentInv, UniqueNames, Named, Skips

\* What a new container takes over from the one it replaces.
LEMMA HandedOn ==
    ASSUME AgentInv, [Next]_vars, Quiet', NEW p \in Procs, Create(p),
           NEW n, n = job[p].name, Heeded(n, info[p].img, info[p].labels)
    PROVE  Heeded(n, NewImage(p), NewLabels(p))'
<1> DEFINE labels == NewLabels(p)
<1>1. /\ TypeOK /\ KnowsRequest /\ pc[p] = "create" /\ job' = job /\ info' = info
      /\ pos' = pos /\ pc' = [pc EXCEPT ![p] = "start"] /\ pos[p] \in Nat
      /\ pc \in [Procs -> Points]
  BY DEF AgentInv, Create, At, Goto, TypeOK
<1>2. /\ job[p] \in Requests /\ job[p] # NoRequest /\ Op(p) \in {"upgrade", "label"}
      /\ Op(p) = "label" => MoreMaps(p)
      /\ job[p].wanted \in Seq(Labels)
      /\ Op(p) = "upgrade" => job[p].img \in Images
  BY <1>1, QuietStays, RequestTypes DEF KnowsRequest, KnowsOf, Replacing, Op
<1>3. NewImage(p)' = NewImage(p) /\ NewLabels(p)' = NewLabels(p)
  BY <1>1, <1>2 DEF NewImage, NewLabels, Wanted, Op
<1>4. ASSUME NEW img \in Images, img # NewImage(p)
      PROVE  info[p].img = img => ImageContested(n, img)
  BY <1>2, <1>4 DEF NewImage, ImageContested, Asks
<1>5. ASSUME NEW k \in Keys, NEW v \in Values \ {Empty}, info[p].labels[k] = v
      PROVE  labels[k] = v \/ LabelContested(n, k, v)
  <2>1. CASE Op(p) = "upgrade"
    BY <1>5, <2>1 DEF NewLabels
  <2>2. CASE Op(p) = "label"
    <3>1. pos[p] \in 1..Len(job[p].wanted) /\ Wanted(p) \in Labels
      BY <1>1, <1>2, <2>2 DEF MoreMaps, Wanted, TypeOK
    <3>2. labels[k] = IF k \in Changes(info[p].labels, Wanted(p))
                      THEN Wanted(p)[k] ELSE info[p].labels[k]
      BY <2>2 DEF NewLabels, Merge
    <3>3. CASE k \in Changes(info[p].labels, Wanted(p)) /\ Wanted(p)[k] # v
      <4>1. Wanted(p)[k] \in Values \ {v}
        BY <3>1, <3>3 DEF Changes, Labels
      <4>2. AsksLabel(p, k, Wanted(p)[k])
        BY <2>2, <3>1 DEF AsksLabel, Wanted
      <4> QED
        BY <1>2, <4>1, <4>2 DEF LabelContested
    <3> QED
      BY <1>5, <3>2, <3>3
  <2> QED
    BY <1>2, <2>1, <2>2
<1>6. ASSUME NEW q \in Procs, job[q] # NoRequest, job[q].name = n
      PROVE  ImageHeeded(q, NewImage(p))'
  <2> SUFFICES ASSUME Op(q) = "upgrade", pc'[q] \in {"start", "wait", "ok"},
                      job[q].img # NewImage(p)
               PROVE  ImageContested(n, job[q].img)'
    BY <1>1, <1>3, <1>6 DEF ImageHeeded, Op
  <2>1. job[q].img \in Images
    BY <1>1, <1>6, RequestTypes DEF KnowsRequest, KnowsOf, Op
  <2>2. q # p
    BY DEF NewImage
  <2>3. pc[q] \in {"start", "wait", "ok"}
    BY <1>1, <2>2
  <2>4. job[q].img = info[p].img \/ ImageContested(n, job[q].img)
    BY <1>6, <2>3 DEF Heeded, HeedsOf, ImageHeeded
  <2>5. ImageContested(n, job[q].img)
    BY <1>4, <2>1, <2>4
  <2> QED
    BY <1>1, <2>5 DEF ImageContested, Asks, Op
<1>7. ASSUME NEW q \in Procs, job[q] # NoRequest, job[q].name = n
      PROVE  LabelsHeeded(q, NewLabels(p))'
  <2> SUFFICES ASSUME Op(q) = "label", NEW i \in 1..Len(job[q].wanted), MapDone(q, i)',
                      NEW k \in Keys, job[q].wanted[i][k] \in Values \ {Empty}
               PROVE  \/ labels[k] = job[q].wanted[i][k]
                      \/ LabelContested(n, k, job[q].wanted[i][k])
    <3>1. ASSUME NEW k, NEW v, LabelContested(n, k, v)
          PROVE  LabelContested(n, k, v)'
      BY <1>1, <3>1, ContestedStays
    <3> QED
      BY <1>1, <1>3, <1>7, <3>1 DEF LabelsHeeded, Op
  <2>1. CASE MapDone(q, i)
    <3>1. info[p].labels[k] = job[q].wanted[i][k] \/ LabelContested(n, k, job[q].wanted[i][k])
      BY <1>7, <2>1 DEF Heeded, HeedsOf, LabelsHeeded
    <3> QED
      BY <1>5, <3>1
  <2>2. CASE ~MapDone(q, i)
    <3>1. q = p /\ i = pos[p]
      BY <1>1, <2>2 DEF MapDone
    <3>2. labels = Merge(info[p].labels, Wanted(p)) /\ job[q].wanted[i] = Wanted(p)
      BY <3>1 DEF NewLabels, Wanted
    <3> QED
      BY <3>2, ConstantsAssumption DEF Merge, Changes, Lookup
  <2> QED
    BY <2>1, <2>2
<1> QED
  BY <1>1, <1>6, <1>7 DEF Heeded, HeedsOf

\* Without a create for the name, what is heeded in the container there is, or after
\* it has gone, stays heeded.
LEMMA HeededHere ==
    ASSUME AgentInv, [Next]_vars, NEW n, NEW img, NEW labels, Heeded(n, img, labels),
           \A p \in Procs : job[p].name = n => ~Create(p),
           Named(n) = {} \/ \E id \in Named(n) : cont[id].labels = labels
    PROVE  Heeded(n, img, labels)'
<1>1. ASSUME NEW p \in Procs, job[p].name = n, Skips(p)
      PROVE  (\A k \in Keys : Wanted(p)[k] = NoLabel) \/ Changes(labels, Wanted(p)) = {}
  <2>1. CASE Named(n) = {}
    BY <1>1, <2>1 DEF Skips
  <2>2. CASE \E id \in Named(n) : cont[id].labels = labels
    BY <1>1, <2>2, SkipsOf
  <2> QED
    BY <2>1, <2>2
<1> QED
  BY <1>1, HeededStays

\* The chain of a name holds through a step.
LEMMA ChainStep ==
    ASSUME AgentInv, [Next]_vars, Quiet', NEW n \in Names
    PROVE  Chain(n)'
<1>1. /\ TypeOK /\ KnowsRequest /\ IdsUsed /\ UniqueNames /\ SeenIsKnown
      /\ Quiet /\ Chain(n)
  BY QuietStays DEF AgentInv, ChainKept
<1>2. CASE Extra(n)
  BY <1>2, ExtraStays DEF Chain
<1> SUFFICES ASSUME ~Extra(n)
             PROVE  Chain(n)'
  BY <1>2
<1>3. /\ \A id \in Named(n) : Heeded(n, cont[id].img, cont[id].labels)
      /\ \A o \in owes : job[o].name = n => Heeded(n, info[o].img, info[o].labels)
  BY <1>1 DEF Chain
<1>4. ASSUME \A img, labels :
                (\E id \in Named(n)' : img = cont'[id].img /\ labels = cont'[id].labels) =>
                   Heeded(n, img, labels)',
             \A img, labels :
                (\E o \in owes' : job'[o].name = n /\ img = info'[o].img
                                 /\ labels = info'[o].labels) =>
                   Heeded(n, img, labels)'
      PROVE  Chain(n)'
  <2>1. ASSUME NEW id \in Named(n)'
        PROVE  Heeded(n, cont[id].img, cont[id].labels)'
    BY <1>4 DEF Heeded, HeedsOf, ImageHeeded, LabelsHeeded
  <2>2. ASSUME NEW o \in owes', job'[o].name = n
        PROVE  Heeded(n, info[o].img, info[o].labels)'
    BY <1>4, <2>2 DEF Heeded, HeedsOf, ImageHeeded, LabelsHeeded
  <2> QED
    BY <2>1, <2>2 DEF Chain
<1>5. CASE \A p \in Procs : job[p].name = n => ~Create(p)
  <2>1. ASSUME NEW id \in Named(n)'
        PROVE  /\ id \in Named(n) /\ cont'[id].img = cont[id].img
               /\ cont'[id].labels = cont[id].labels
    <3>1. CASE SameContainers
      BY <3>1 DEF SameContainers, Named
    <3>2. ASSUME NEW p \in Procs, Create(p)
          PROVE  id \in Named(n) /\ cont'[id] = cont[id]
      BY <1>1, <1>5, <3>2, CreateEffect DEF Named
    <3>3. ASSUME NEW p \in Procs, Removes(p)
          PROVE  id \in Named(n) /\ cont'[id] = cont[id]
      BY <1>1, <3>3, Removal DEF Named, Removes
    <3> QED
      BY <3>1, <3>2, <3>3, QuietStays
  <2>2. ASSUME NEW o \in owes', job'[o].name = n
        PROVE  /\ o \in owes \/ (o \in Procs /\ Removes(o))
               /\ job[o].name = n /\ info'[o] = info[o]
    <3>1. CASE o \in owes
      BY <2>2, <3>1, OwesNotes
    <3>2. CASE o \notin owes
      <4>1. o \in Procs /\ Removes(o)
        BY <3>2, QuietStays DEF Removes, Create
      <4> QED
        BY <2>2, <4>1 DEF Removes
    <3> QED
      BY <3>1, <3>2
  <2>3. ASSUME NEW img, NEW labels, NEW id \in Named(n)',
               img = cont'[id].img, labels = cont'[id].labels
        PROVE  Heeded(n, img, labels)'
    <3>1. id \in Named(n) /\ img = cont[id].img /\ labels = cont[id].labels
      BY <2>1, <2>3
    <3> QED
      BY <1>3, <1>5, <3>1, HeededHere
  <2>4. ASSUME NEW img, NEW labels, NEW o \in owes', job'[o].name = n,
               img = info'[o].img, labels = info'[o].labels
        PROVE  Heeded(n, img, labels)'
    <3>1. /\ o \in owes \/ (o \in Procs /\ Removes(o))
          /\ job[o].name = n /\ img = info[o].img /\ labels = info[o].labels
      BY <2>2, <2>4
    <3>2. CASE o \in owes
      <4>1. Named(n) = {} /\ Heeded(n, img, labels)
        BY <1>3, <3>1, <3>2 DEF Extra
      <4> QED
        BY <1>5, <4>1, HeededHere
    <3>3. CASE o \in Procs /\ Removes(o)
      <4>1. pc[o] = "remove" /\ seen[o] \in Ids
        BY <3>3 DEF Removes, At
      <4>2. job[o] # NoRequest /\ Op(o) # "uninstall"
        BY <1>1, <3>3, <4>1 DEF KnowsRequest, KnowsOf, Replacing
      <4>3. seen[o] \in Named(n) /\ cont[seen[o]].img = img /\ cont[seen[o]].labels = labels
        BY <1>1, <3>1, <3>3, <4>1, <4>2 DEF SeenIsKnown, Named
      <4> QED
        BY <1>3, <1>5, <4>3, HeededHere
    <3> QED
      BY <3>1, <3>2, <3>3
  <2> QED
    BY <1>4, <2>3, <2>4
<1>6. ASSUME NEW p \in Procs, job[p].name = n, Create(p)
      PROVE  Chain(n)'
  <2>1. /\ owes' = owes \ {p} /\ job' = job /\ pc[p] = "create"
        /\ Named(n) = {} /\ Ids' = Ids \cup {NewId(p)}
        /\ \A i \in Ids : cont'[i] = cont[i]
        /\ cont'[NewId(p)].name = n /\ cont'[NewId(p)].img = NewImage(p)
        /\ cont'[NewId(p)].labels = NewLabels(p)
    BY <1>1, <1>6, CreateEffect DEF Create, At
  <2>2. Named(n)' = {NewId(p)}
    BY <2>1 DEF Named
  <2>3. PICK o \in owes : job[o].name = n
    BY <1>1, <1>6, <2>1, CreatorKnown DEF Replacing
  <2>4. CASE o # p
    BY <2>1, <2>2, <2>3, <2>4 DEF Chain, Extra
  <2>5. CASE o = p
    <3>1. \A q \in owes' : job'[q].name # n
      BY <2>1, <2>3, <2>5 DEF Extra
    <3>2. Heeded(n, info[p].img, info[p].labels)
      BY <1>3, <2>3, <2>5
    <3>3. Heeded(n, NewImage(p), NewLabels(p))'
      BY <1>6, <3>2, HandedOn
    <3>4. NewImage(p)' = NewImage(p) /\ NewLabels(p)' = NewLabels(p)
      BY <1>6 DEF Create, NewImage, NewLabels, Wanted, Op
    <3>5. ASSUME NEW img, NEW labels, img = NewImage(p), labels = NewLabels(p)
          PROVE  Heeded(n, img, labels)'
      BY <3>3, <3>4, <3>5 DEF Heeded, HeedsOf, ImageHeeded, LabelsHeeded
    <3> QED
      BY <1>4, <2>1, <2>2, <3>1, <3>5
  <2> QED
    BY <2>4, <2>5
<1> QED
  BY <1>5, <1>6

\* Every invocation's facts hold before any has started.
LEMMA InitInv == Init => AgentInv
<1> SUFFICES ASSUME Init
             PROVE  AgentInv
  OBVIOUS
<1>1. PICK present \in SUBSET Names :
         cont \in [{<<Before, n>> : n \in present} ->
                     [name : Names, img : images, labels : {[k \in Keys |-> NoLabel]},
                      state : {"running"}]]
  BY DEF Init
<1>2. /\ \A i \in Ids : cont[i].name = i[2] /\ i = <<Before, i[2]>> /\ i \in Id
      /\ \A i \in Ids : cont[i] \in [name : Names, img : images,
                                    labels : {[k \in Keys |-> NoLabel]}, state : {"running"}]
  BY <1>1 DEF Init, Ids, Id
<1>3. \A p \in Procs : /\ pc[p] = "idle" /\ job[p] = NoRequest /\ pos[p] = 1
                        /\ seen[p] = Nothing /\ victims[p] = {}
  BY DEF Init
<1>4. TypeOK
  <2>1. [k \in Keys |-> NoLabel] \in Labels
    BY DEF Labels
  <2>2. \A i \in Ids : cont[i] \in Container
    BY <1>2, <2>1 DEF Init, Container
  <2> QED
    BY <1>2, <2>2 DEF Init, TypeOK, Points
<1>5. KnowsRequest
  BY <1>3 DEF KnowsRequest, KnowsOf, Uninstalling, Replacing
<1>6. IdsUsed
  <2> SUFFICES ASSUME NEW p \in Procs, NEW k \in Nat
               PROVE  <<p, k>> \notin Ids /\ \A q \in Procs : <<p, k>> # seen[q] /\ <<p, k>> \notin victims[q]
    BY DEF IdsUsed
  <2>1. <<p, k>> \notin Ids
    BY <1>2, ConstantsAssumption
  <2>2. <<p, k>> \in Id
    BY DEF Id
  <2> QED
    BY <1>3, <2>1, <2>2, ConstantsAssumption
<1>7. UniqueNames
  BY <1>2 DEF UniqueNames
<1>8. SeenIsKnown /\ OwesInStep /\ MissingIsOwed
  BY <1>3 DEF Init, SeenIsKnown, OwesInStep, MissingIsOwed
<1>9. ChainKept
  BY <1>3 DEF Init, ChainKept, Chain, Heeded
<1> QED
  BY <1>4, <1>5, <1>6, <1>7, <1>8, <1>9 DEF AgentInv

\* Every step keeps what the invocations and the daemon have to do with each other.
LEMMA NextInv == AgentInv /\ [Next]_vars => AgentInv'
<1> SUFFICES ASSUME AgentInv, [Next]_vars
             PROVE  AgentInv'
  OBVIOUS
<1>1. TypeOK' /\ IdsUsed' /\ UniqueNames' /\ SeenIsKnown' /\ OwesInStep' /\ MissingIsOwed'
  BY TypeStep, IdsUsedStep, UniqueNamesStep, SeenIsKnownStep, OwesInStepStep, MissingIsOwedStep
<1>2. KnowsRequest'
  BY KnowsStep DEF AgentInv
<1>3. ChainKept'
  BY ChainStep DEF ChainKept
<1> QED
  BY <1>1, <1>2, <1>3 DEF AgentInv

\* The whole invariant holds throughout.
LEMMA Invariance == Spec => []AgentInv
  BY InitInv, NextInv, PTL DEF Spec

\* Every variable stays within its type, whatever the invocations and the daemon do.
THEOREM Typing == Spec => []TypeOK
<1>1. AgentInv => TypeOK
  BY DEF AgentInv
<1> QED
  BY <1>1, Invariance, PTL

\* However many invocations interleave, fail or are killed: where no uninstall runs, a
\* container that somebody found in place is missing only while somebody who removed it
\* has still to create its successor, or ended without success.
THEOREM NothingVanishes == Spec => []MissingIsOwed
<1>1. AgentInv => MissingIsOwed
  BY DEF AgentInv
<1> QED
  BY <1>1, Invariance, PTL

\* What the chain of containers of each name says of the runs that succeeded.
LEMMA UpdatesHeeded == AgentInv => UpdateLostOnlyWhenOwed
<1> SUFFICES ASSUME AgentInv, Quiet, NEW p \in Procs, pc[p] = "ok", NEW id \in Named(job[p].name)
             PROVE  /\ \A img \in Images :
                         (Asks(p, img) /\ cont[id].img # img) =>
                            Owed(job[p].name) \/ ImageContested(job[p].name, img)
                    /\ \A k \in Keys, v \in Values \ {Empty} :
                         (AsksLabel(p, k, v) /\ cont[id].labels[k] # v) =>
                            Owed(job[p].name) \/ LabelContested(job[p].name, k, v)
  BY DEF UpdateLostOnlyWhenOwed, Quiet
<1> DEFINE n == job[p].name
<1>1. /\ job[p] \in Requests /\ job[p] # NoRequest /\ n \in Names
      /\ job[p].wanted \in Seq(Labels) /\ pos[p] \in Nat /\ KnowsOf(p)
  BY RequestTypes DEF AgentInv, KnowsRequest, KnowsOf, TypeOK
<1>2. Chain(n)
  BY <1>1 DEF AgentInv, ChainKept
<1>3. CASE Extra(n)
  BY <1>3 DEF Extra, Owed, AgentInv, OwesInStep
<1>4. CASE Heeded(n, cont[id].img, cont[id].labels)
  <2>1. HeedsOf(p, cont[id].img, cont[id].labels)
    BY <1>1, <1>4 DEF Heeded
  <2>2. ASSUME NEW img \in Images, Asks(p, img), cont[id].img # img
        PROVE  ImageContested(n, img)
    BY <2>1, <2>2 DEF HeedsOf, ImageHeeded, Asks
  <2>3. ASSUME NEW k \in Keys, NEW v \in Values \ {Empty}, AsksLabel(p, k, v),
               cont[id].labels[k] # v
        PROVE  LabelContested(n, k, v)
    <3>1. PICK i \in 1..Len(job[p].wanted) : job[p].wanted[i][k] = v
      BY <2>3 DEF AsksLabel
    <3>2. Op(p) = "label" /\ ~(pos[p] <= Len(job[p].wanted))
      BY <1>1, <2>3 DEF AsksLabel, KnowsOf, MoreMaps
    <3>3. MapDone(p, i)
      BY <1>1, <3>2 DEF MapDone
    <3> QED
      BY <2>1, <2>3, <3>1, <3>2, <3>3 DEF HeedsOf, LabelsHeeded
  <2> QED
    BY <2>2, <2>3
<1> QED
  BY <1>2, <1>3, <1>4 DEF Chain

\* However many upgrades and labellings of a container interleave, fail or are killed,
\* what a successful one asked for is still in the container of that name, unless
\* another asked for something else, or one removed the container and did not bring
\* it back.
THEOREM UpdatesSurvive == Spec => []UpdateLostOnlyWhenOwed
  BY UpdatesHeeded, Invariance, PTL
====
