---- MODULE PolicyFiles ----
(***************************************************************************)
(* The policy directory of docker mode (/etc/kloudknox/policies) and the   *)
(* kkctl processes that work on it: `apply -f`, `delete`, `get policies`   *)
(* and the purge of `uninstall --purge-policies`.  There is no lock and no *)
(* server: the processes meet in the directory, one system call at a time, *)
(* any of them may be killed between two calls, any call may fail, and the *)
(* host itself may go down and come back with what had reached the disk.   *)
(*                                                                         *)
(* A process of this module is ONE invocation of kkctl: it starts once,    *)
(* with one request, and ends.                                             *)
(***************************************************************************)
EXTENDS Naturals, Sequences

CONSTANTS
    Procs,          \* the invocations of kkctl
    Names,          \* policy names
    Docs,           \* YAML documents an input file may hold
    NameOf,         \* NameOf[d]: its metadata.name, or one of the next two
    Unnamed,        \* the document parses but carries no metadata.name
    Unparsable,     \* yaml.Unmarshal rejects the document
    Requests,       \* the command lines an invocation may be given
    NoRequest,      \* the invocation has not started
    None,           \* no file under this name
    Before,         \* the author of the files that were there at the start
    MaxCrashes      \* how often the host may go down

Ops == {"apply", "delete", "list", "purge"}

\* `lenient` is delete's --ignore-not-found.  A positional `delete policy a b`
\* is a delete whose documents all carry names.
Request == [op : Ops, docs : Seq(Docs), lenient : BOOLEAN]

ASSUME ConstantsAssumption ==
    /\ NameOf \in [Docs -> Names \cup {Unnamed, Unparsable}]
    /\ Unnamed \notin Names /\ Unparsable \notin Names
    /\ Requests \subseteq Request
    /\ NoRequest \notin Requests
    /\ Before \notin Procs
    /\ MaxCrashes \in Nat

\* One inode: the document it is meant to hold and the write it comes from.
File == [doc : Docs, by : Procs \cup {Before}, at : Nat]

ASSUME NoneAssumption == None \notin File

VARIABLES
    dirExists,      \* does the policy directory exist
    dir,            \* name -> the inode behind <name>.yaml, or None
    durable,        \* the same directory as a power loss would leave it
    temps,          \* inodes behind a ".<name>.yaml.*" temporary name
    written,        \* inodes whose whole content a reader would see
    stable,         \* inodes whose whole content is on the disk
    pc, job, pos,   \* per invocation: control point, request, document index
    todo,           \* per invocation: entries still to visit (list, purge)
    got,            \* per invocation: inodes a listing has read
    published,      \* history: inodes that were given their final name
    crashes         \* how often the host has gone down

fsVars == <<dirExists, dir, durable, temps, written, stable>>
vars == <<dirExists, dir, durable, temps, written, stable, pc, job, pos,
          todo, got, published, crashes>>

Writing == {"write", "chmod", "sync", "close", "rename", "cleanup"}
Ended   == {"ok", "warned", "failed", "missing", "killed"}
Running == {"input", "doc", "create", "targets", "delete", "readdir", "read",
            "scan", "unlink", "rmdir"} \cup Writing
Points  == {"idle"} \cup Running \cup Ended

Present == {n \in Names : dir[n] # None}

(***************************************************************************)
(* Control.                                                                *)
(***************************************************************************)
Goto(p, point) == pc' = [pc EXCEPT ![p] = point]

At(p, point) == pc[p] = point

\* The document at which the loop of runApply or runDelete stands.
Doc(p)   == job[p].docs[pos[p]]
More(p)  == pos[p] <= Len(job[p].docs)
Temp(p)  == [doc |-> Doc(p), by |-> p, at |-> pos[p]]
NamedDoc(d) == NameOf[d] \in Names

\* A variant whose loop counts the wrong way.
StepBack(p) == pos' = [pos EXCEPT ![p] = @ - 1]

Advance(p) == pos' = [pos EXCEPT ![p] = @ + 1]

Local == <<job, pos, todo, got, published, crashes>>

Init ==
    /\ dir \in [Names -> {None} \cup
                  {f \in [doc : Docs, by : {Before}, at : {0}] : NamedDoc(f.doc)}]
    /\ \A n \in Names : dir[n] # None => NameOf[dir[n].doc] = n
    /\ dirExists \in BOOLEAN
    /\ ~dirExists => Present = {}
    /\ durable = dir
    /\ temps = {}
    /\ written = {dir[n] : n \in Present}
    /\ stable = written
    /\ pc = [p \in Procs |-> "idle"]
    /\ job = [p \in Procs |-> NoRequest]
    /\ pos = [p \in Procs |-> 1]
    /\ todo = [p \in Procs |-> {}]
    /\ got = [p \in Procs |-> {}]
    /\ published = {}
    /\ crashes = 0

Entry(op) == CASE op = "apply"  -> "input"
               [] op = "delete" -> "targets"
               [] op = "list"   -> "readdir"
               [] op = "purge"  -> "scan"

Start(p, r) ==
    /\ At(p, "idle")
    /\ job' = [job EXCEPT ![p] = r]
    /\ Goto(p, Entry(r.op))
    /\ UNCHANGED <<dirExists, dir, durable, temps, written, stable, pos,
                   todo, got, published, crashes>>

(***************************************************************************)
(* apply -f: one document after the other, each through writePolicyFile.   *)
(***************************************************************************)
\* The input is unreadable or holds no document, or no environment resolves.
ReadInput(p) ==
    /\ At(p, "input")
    /\ \/ job[p].docs # <<>> /\ Goto(p, "doc")
       \/ Goto(p, "failed")
    /\ UNCHANGED <<fsVars, Local>>

\* The head of the loop: parse the next document, then make the directory.
ApplyDoc(p) ==
    /\ At(p, "doc")
    /\ \/ /\ ~More(p)
          /\ Goto(p, "ok")
          /\ UNCHANGED dirExists
       \/ /\ More(p)
          /\ NamedDoc(Doc(p))
          /\ dirExists' = TRUE
          /\ Goto(p, "create")
       \/ /\ More(p)              \* a bad document, or MkdirAll fails
          /\ Goto(p, "failed")
          /\ UNCHANGED dirExists
    /\ UNCHANGED <<dir, durable, temps, written, stable, Local>>

CreateTemp(p) ==
    /\ At(p, "create")
    /\ \/ /\ dirExists
          /\ temps' = temps \cup {Temp(p)}
          /\ Goto(p, "write")
       \/ /\ Goto(p, "failed")
          /\ UNCHANGED temps
    /\ UNCHANGED <<dirExists, dir, durable, written, stable, Local>>

\* A write through the open descriptor works even if the name is gone.
Write(p) ==
    /\ At(p, "write")
    /\ written' = written \cup {Temp(p)}
    /\ Goto(p, "chmod")
    /\ UNCHANGED <<dirExists, dir, durable, temps, stable, Local>>

Chmod(p) ==
    /\ At(p, "chmod")
    /\ Goto(p, "sync")
    /\ UNCHANGED <<fsVars, Local>>

SyncSkipped(p) ==
    /\ At(p, "sync")
    /\ Goto(p, "close")
    /\ UNCHANGED <<fsVars, Local>>

Sync(p) ==
    /\ At(p, "sync")
    /\ stable' = stable \cup {Temp(p)}
    /\ Goto(p, "close")
    /\ UNCHANGED <<dirExists, dir, durable, temps, written, Local>>

Close(p) ==
    /\ At(p, "close")
    /\ Goto(p, "rename")
    /\ UNCHANGED <<fsVars, Local>>

\* A variant that makes room for the new file before it moves it there.
RenameAfterRemove(p) ==
    /\ At(p, "rename")
    /\ Temp(p) \in temps
    /\ LET n == NameOf[Doc(p)] IN
         IF dir[n] # None
         THEN /\ dir' = [dir EXCEPT ![n] = None]
              /\ UNCHANGED <<temps, pc, pos, published>>
         ELSE /\ dir' = [dir EXCEPT ![n] = Temp(p)]
              /\ temps' = temps \ {Temp(p)}
              /\ published' = published \cup {Temp(p)}
              /\ Advance(p)
              /\ Goto(p, "doc")
    /\ UNCHANGED <<dirExists, durable, written, stable, job, todo, got, crashes>>

\* rename(2) replaces whatever stood under the final name, at once.
Rename(p) ==
    /\ At(p, "rename")
    /\ Temp(p) \in temps
    /\ dir' = [dir EXCEPT ![NameOf[Doc(p)]] = Temp(p)]
    /\ temps' = temps \ {Temp(p)}
    /\ published' = published \cup {Temp(p)}
    /\ Advance(p)
    /\ Goto(p, "doc")
    /\ UNCHANGED <<dirExists, durable, written, stable, job, todo, got, crashes>>

\* A variant that reports the failed document and takes the next one.
WriteFailsOnward(p) ==
    /\ pc[p] \in Writing \ {"cleanup"}
    /\ Advance(p)
    /\ Goto(p, "doc")
    /\ UNCHANGED <<fsVars, job, todo, got, published, crashes>>

\* Any call of writePolicyFile may fail once the temporary file is there; a
\* rename whose temporary name a purge has unlinked always does.
WriteFails(p) ==
    /\ pc[p] \in Writing \ {"cleanup"}
    /\ Goto(p, "cleanup")
    /\ UNCHANGED <<fsVars, Local>>

\* os.Remove(tmpPath), its error ignored; then the error of the failed call.
Cleanup(p) ==
    /\ At(p, "cleanup")
    /\ temps' \in {temps, temps \ {Temp(p)}}
    /\ Goto(p, "failed")
    /\ UNCHANGED <<dirExists, dir, durable, written, stable, Local>>

(***************************************************************************)
(* delete: every document is parsed before the first file goes.            *)
(***************************************************************************)
CollectNothing(p) ==
    /\ At(p, "targets")
    /\ Goto(p, "delete")
    /\ UNCHANGED <<fsVars, Local>>

CollectTargets(p) ==
    /\ At(p, "targets")
    /\ \/ /\ job[p].docs # <<>>
          /\ \A i \in 1..Len(job[p].docs) : NamedDoc(job[p].docs[i])
          /\ Goto(p, "delete")
       \/ Goto(p, "failed")
    /\ UNCHANGED <<fsVars, Local>>

\* A variant that forgets to move on when there was nothing to delete.
DeleteStuck(p) ==
    /\ At(p, "delete")
    /\ \/ ~More(p) /\ Goto(p, "ok") /\ UNCHANGED <<dir, pos>>
       \/ /\ More(p)
          /\ dir[NameOf[Doc(p)]] # None
          /\ dir' = [dir EXCEPT ![NameOf[Doc(p)]] = None]
          /\ Advance(p)
          /\ UNCHANGED pc
    /\ UNCHANGED <<dirExists, durable, temps, written, stable, job, todo, got,
                   published, crashes>>

DeleteDoc(p) ==
    /\ At(p, "delete")
    /\ \/ ~More(p) /\ Goto(p, "ok") /\ UNCHANGED <<dir, pos>>
       \/ /\ More(p)
          /\ \/ /\ dir[NameOf[Doc(p)]] # None
                /\ dir' = [dir EXCEPT ![NameOf[Doc(p)]] = None]
                /\ Advance(p)
                /\ UNCHANGED pc
             \/ /\ dir[NameOf[Doc(p)]] = None
                /\ IF job[p].lenient
                   THEN Advance(p) /\ UNCHANGED pc
                   ELSE Goto(p, "missing") /\ UNCHANGED pos
                /\ UNCHANGED dir
             \/ Goto(p, "failed") /\ UNCHANGED <<dir, pos>>
    /\ UNCHANGED <<dirExists, durable, temps, written, stable, job, todo, got,
                   published, crashes>>

(***************************************************************************)
(* get policies: one ReadDir, then one ReadFile per entry ending in .yaml. *)
(***************************************************************************)
ReadDir(p) ==
    /\ At(p, "readdir")
    /\ \/ dirExists /\ Goto(p, "read") /\ todo' = [todo EXCEPT ![p] = Present]
       \/ ~dirExists /\ Goto(p, "ok") /\ UNCHANGED todo
       \/ Goto(p, "failed") /\ UNCHANGED todo
    /\ UNCHANGED <<fsVars, job, pos, got, published, crashes>>

\* A file that has gone since ReadDir ends the whole listing.
ReadFile(p) ==
    /\ At(p, "read")
    /\ \/ todo[p] = {} /\ Goto(p, "ok") /\ UNCHANGED <<todo, got>>
       \/ \E n \in todo[p] :
            \/ /\ dir[n] # None
               /\ got' = [got EXCEPT ![p] = @ \cup {dir[n]}]
               /\ todo' = [todo EXCEPT ![p] = @ \ {n}]
               /\ UNCHANGED pc
            \/ dir[n] = None /\ Goto(p, "missing") /\ UNCHANGED <<todo, got>>
       \/ todo[p] # {} /\ Goto(p, "failed") /\ UNCHANGED <<todo, got>>
    /\ UNCHANGED <<fsVars, job, pos, published, crashes>>

(***************************************************************************)
(* uninstall --purge-policies: os.RemoveAll reads the directory once,      *)
(* unlinks what it saw, then removes the directory.  A failure is only a   *)
(* warning; the command still exits 0.                                     *)
(***************************************************************************)
ScanForPurge(p) ==
    /\ At(p, "scan")
    /\ IF dirExists
       THEN Goto(p, "unlink") /\ todo' = [todo EXCEPT ![p] = Present \cup temps]
       ELSE Goto(p, "ok") /\ UNCHANGED todo
    /\ UNCHANGED <<fsVars, job, pos, got, published, crashes>>

\* An entry that has gone meanwhile counts as removed; one that cannot be
\* removed is passed over.
Unlink(p) ==
    /\ At(p, "unlink")
    /\ \/ \E e \in todo[p] :
            /\ todo' = [todo EXCEPT ![p] = @ \ {e}]
            /\ \/ /\ dir' = [n \in Names |-> IF n = e THEN None ELSE dir[n]]
                  /\ temps' = temps \ {e}
               \/ UNCHANGED <<dir, temps>>
            /\ UNCHANGED pc
       \/ todo[p] = {} /\ Goto(p, "rmdir") /\ UNCHANGED <<dir, temps, todo>>
    /\ UNCHANGED <<dirExists, durable, written, stable, job, pos, got,
                   published, crashes>>

\* rmdir(2) refuses a directory that is not empty.
RemoveDir(p) ==
    /\ At(p, "rmdir")
    /\ \/ /\ Present = {} /\ temps = {}
          /\ dirExists' = FALSE
          /\ Goto(p, "ok")
       \/ Goto(p, "warned") /\ UNCHANGED dirExists
    /\ UNCHANGED <<dir, durable, temps, written, stable, Local>>

(***************************************************************************)
(* The world: a process is killed, the kernel writes back, the host stops. *)
(***************************************************************************)
Kill(p) ==
    /\ pc[p] \in Running
    /\ Goto(p, "killed")
    /\ UNCHANGED <<fsVars, Local>>

\* Data may reach the disk at any time, and so may a directory entry: rename
\* and unlink are atomic on the disk, but nobody waits for them to get there.
WriteBack(f) ==
    /\ stable' = stable \cup {f}
    /\ UNCHANGED <<dirExists, dir, durable, temps, written, pc, Local>>

FlushEntry(n) ==
    /\ durable' = [durable EXCEPT ![n] = dir[n]]
    /\ UNCHANGED <<dirExists, dir, temps, written, stable, pc, Local>>

\* Every process is gone, every entry is what the disk holds, an inode whose
\* data never arrived is empty or cut short.  A temporary name may be back if
\* its removal or its rename was still in memory.
HostCrash ==
    /\ crashes < MaxCrashes
    /\ crashes' = crashes + 1
    /\ dir' = durable
    /\ temps' \in SUBSET ((temps \cup {dir[n] : n \in Present})
                            \ {durable[n] : n \in Names})
    /\ dirExists' \in BOOLEAN
    /\ ~dirExists' => temps' = {} /\ \A n \in Names : durable[n] = None
    /\ written' = written \cap stable
    /\ pc' = [p \in Procs |-> IF pc[p] \in Running THEN "killed" ELSE pc[p]]
    /\ UNCHANGED <<durable, stable, job, pos, todo, got, published>>

ApplyStep(p) == \/ ReadInput(p) \/ ApplyDoc(p) \/ CreateTemp(p) \/ Write(p)
                \/ Chmod(p) \/ Sync(p) \/ Close(p) \/ Rename(p)
                \/ WriteFails(p) \/ Cleanup(p)

OtherStep(p) == \/ CollectTargets(p) \/ DeleteDoc(p)
                \/ ReadDir(p) \/ ReadFile(p)
                \/ ScanForPurge(p) \/ Unlink(p) \/ RemoveDir(p)

Step(p) == ApplyStep(p) \/ OtherStep(p)

Next == \/ \E p \in Procs : Step(p) \/ Kill(p) \/ \E r \in Requests : Start(p, r)
        \/ \E f \in written \ stable : WriteBack(f)
        \/ \E n \in Names : FlushEntry(n)
        \/ HostCrash

Spec == Init /\ [][Next]_vars

\* The scheduler of the host runs every process that can run; nothing makes
\* anyone start kkctl, kill it or stop the host.
FairSpec == Spec /\ \A p \in Procs : WF_vars(Step(p))

(***************************************************************************)
(* Properties.                                                             *)
(***************************************************************************)

\* Every variable stays within its type.
TypeOK ==
    /\ dirExists \in BOOLEAN
    /\ dir \in [Names -> File \cup {None}]
    /\ durable \in [Names -> File \cup {None}]
    /\ temps \subseteq File
    /\ written \subseteq File
    /\ stable \subseteq File
    /\ pc \in [Procs -> Points]
    /\ job \in [Procs -> Request \cup {NoRequest}]
    /\ pos \in [Procs -> Nat \ {0}]
    /\ todo \in [Procs -> SUBSET (Names \cup File)]
    /\ got \in [Procs -> SUBSET File]
    /\ published \subseteq File
    /\ crashes \in 0..MaxCrashes

\* writePolicyFile writes "atomically": whoever opens <name>.yaml, now or
\* after the host went down and came back, finds one whole document, and one
\* that carries that name; never a prefix, never an empty file.
NeverTorn ==
    \A n \in Names :
       /\ dir[n] # None => dir[n] \in written /\ NameOf[dir[n].doc] = n
       /\ durable[n] # None => durable[n] \in stable /\ NameOf[durable[n].doc] = n

\* While the host stays up, a temporary file belongs to the write its process
\* is just now doing, or to a process that was killed or has reported failure:
\* no run that goes on or that succeeds leaves one behind.
TempsAccounted ==
    crashes = 0 =>
      \A f \in temps :
         \/ pc[f.by] \in Writing /\ f = Temp(f.by)
         \/ pc[f.by] \in {"killed", "failed"}

\* runApply stops at the first document it cannot apply: what an apply has
\* published is always a prefix of its input, and all of it when it reports
\* success, whatever deletes, purges and other applies ran meanwhile.
ApplyIsPrefix ==
    \A p \in Procs :
       (job[p] # NoRequest /\ job[p].op = "apply") =>
          LET done == {f \in published : f.by = p}
          IN  /\ done = {[doc |-> job[p].docs[i], by |-> p, at |-> i] : i \in 1..(pos[p] - 1)}
              /\ pc[p] = "ok" => pos[p] = Len(job[p].docs) + 1

\* collectDeleteTargets parses all of the input before runDelete removes the
\* first file: a delete whose input has a bad document anywhere removes nothing.
BadInputDeletesNothing ==
    \A p \in Procs :
       (/\ job[p] # NoRequest
        /\ job[p].op = "delete"
        /\ \E i \in 1..Len(job[p].docs) : ~NamedDoc(job[p].docs[i]))
       => pc[p] \in {"targets", "failed", "killed"} /\ pos[p] = 1

\* Replacing a policy never makes it look absent: a listing is cut short by a
\* file that has gone only if somebody has been deleting or purging, never
\* because of an apply.
ListingCutOnlyByRemoval ==
    \A p \in Procs :
       (pc[p] = "missing" /\ job[p].op = "list") =>
          \E q \in Procs : job[q] # NoRequest /\ job[q].op \in {"delete", "purge"}

\* A process that has started ends: no kkctl waits for another, and no loop
\* over documents or entries stands still.
EveryRunEnds ==
    \A p \in Procs : pc[p] # "idle" ~> pc[p] \in Ended

(***************************************************************************)
(* The directory implements the policy store.                              *)
(***************************************************************************)
View(entries, whole) ==
    [n \in Names |-> IF entries[n] = None THEN None
                     ELSE IF entries[n] \in whole THEN entries[n].doc
                     ELSE Unparsable]

Store == INSTANCE PolicyStore
           WITH NoDoc <- None,
                store <- View(dir, written), saved <- View(durable, stable)

\* Seen through whole files only, the kkctl processes, their faults and the
\* crashes of the host do nothing but what PolicyStore allows: one policy at
\* a time changes, at once, to a document that carries its name.
StoreRefined == Store!StoreSpec
====
