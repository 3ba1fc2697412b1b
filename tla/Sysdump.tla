---- MODULE Sysdump ----
(***************************************************************************)
(* `kkctl sysdump`: collects what it can find out and writes it into one   *)
(* tar.gz.  Three things in it can go wrong.  The status is printed by the *)
(* code of `kkctl status` into a pipe that stands in for os.Stdout, while  *)
(* a goroutine reads the other end.  The policies are read one file at a   *)
(* time while others change them.  The archive passes two buffers and a    *)
(* file whose close may be what fails.                                     *)
(*                                                                         *)
(* Policies are those of PolicyStore, which PolicyFiles implements; in     *)
(* Kubernetes mode the API server keeps such a map.                        *)
(***************************************************************************)
EXTENDS Naturals, Sequences, FiniteSets, PolicyStore

CONSTANTS
    MaxChunks,      \* how many pieces the status is printed in, at most
    PipeSize,       \* how many of them the pipe holds
    MaxChanges      \* how often others change the policies

ASSUME SizesAssumption ==
    MaxChunks \in Nat /\ PipeSize \in Nat \ {0} /\ MaxChanges \in Nat

VARIABLES
    env,            \* "none" if it could not be resolved, which is no error
    pc,
    stdout,         \* what os.Stdout stands for
    pipe, writeEnd, \* the pipe's content, and whether its write end is open
    reader,         \* the goroutine
    printed,        \* how many chunks the status printer has written
    statusErr,      \* has the status call failed
    buf,            \* what the goroutine has read
    files,          \* entries collected for the archive
    listed,         \* names of policy files still to read
    dumped,         \* policies collected
    tarred,         \* how many pieces the tar writer has been given
    flushed,        \* how many of them have reached the file
    archive,        \* how many are in the file once it is closed
    retErr,         \* the error writeTarGz returns, if any
    steady,         \* history: policies unchanged since the dump began
    unread,         \* history: policies whose file could not be read
    broke,          \* history: a call on the archive has failed
    changes

statusVars == <<stdout, pipe, writeEnd, reader, printed, statusErr, buf>>
policyVars == <<store, saved, listed, dumped, steady, unread, changes>>
archiveVars == <<tarred, flushed, archive, retErr, broke>>
vars == <<env, pc, statusVars, files, policyVars, archiveVars>>

Always == {"probe.txt", "status.txt", "policies.yaml", "meta.json"}
Optional(e) == CASE e = "k8s" -> {"k8s-events.txt", "server.log"}
                 [] e = "docker" -> {"docker.log"}
                 [] OTHER -> {}
Entries == Always \cup Optional("k8s") \cup Optional("docker")

\* The pieces of an archive: its entries, and the end marks of the two streams.
Pieces(entries) == Cardinality(entries) + 1

Collecting == {"probe", "pipe", "print", "close", "restore", "join", "policies", "read",
               "logs"}
Archiving == {"create", "entries", "gzip", "file"}
Busy == Collecting \cup Archiving

TypeOK ==
    /\ env \in {"k8s", "docker", "none"}
    /\ pc \in Busy \cup {"ok", "failed"}
    /\ stdout \in {"terminal", "pipe"}
    /\ pipe \in Seq(1..MaxChunks) /\ Len(pipe) <= PipeSize
    /\ writeEnd \in BOOLEAN /\ statusErr \in BOOLEAN
    /\ reader \in {"none", "reading", "done"}
    /\ printed \in 0..MaxChunks
    /\ buf \in Seq(1..MaxChunks)
    /\ Len(buf) + Len(pipe) = printed
    /\ files \subseteq Entries
    /\ store \in PolicyMap /\ saved \in PolicyMap
    /\ listed \subseteq Names /\ dumped \subseteq Docs
    /\ steady \subseteq Names /\ unread \subseteq Names
    /\ changes \in 0..MaxChanges
    /\ tarred \in 0..Pieces(files) /\ flushed \in 0..tarred /\ archive \in 0..flushed
    /\ retErr \in BOOLEAN /\ broke \in BOOLEAN

Init ==
    /\ env \in {"k8s", "docker", "none"}
    /\ pc = "probe"
    /\ stdout = "terminal" /\ pipe = <<>> /\ writeEnd = FALSE /\ reader = "none"
    /\ printed = 0 /\ statusErr = FALSE /\ buf = <<>>
    /\ files = {}
    /\ StoreInit /\ \A n \in Names : store[n] # NoDoc => NameOf[store[n]] = n
    /\ listed = {} /\ dumped = {} /\ steady = {} /\ unread = {} /\ changes = 0
    /\ tarred = 0 /\ flushed = 0 /\ archive = 0 /\ retErr = FALSE /\ broke = FALSE

Goto(point) == pc' = point
Collect(e) == files' = files \cup {e}

Present == {n \in Names : store[n] # NoDoc}

\* Others apply and delete policies.  Only what they do while the files are read
\* counts: earlier changes are in the store Init chose, later ones nothing reads.
PolicyChanges ==
    /\ pc = "read" /\ changes < MaxChanges
    /\ changes' = changes + 1
    /\ \E n \in Names :
         /\ Remove(n) \/ \E d \in Docs : Put(n, d)
         /\ steady' = steady \ {n}
    /\ UNCHANGED <<env, pc, statusVars, files, listed, dumped, unread, archiveVars>>

(***************************************************************************)
(* captureStatus.                                                          *)
(***************************************************************************)
\* The probe's results are computed, not captured.
Probe ==
    /\ pc = "probe"
    /\ Collect("probe.txt") /\ Goto("pipe")
    /\ UNCHANGED <<env, statusVars, policyVars, archiveVars>>

OpenPipe ==
    /\ pc = "pipe"
    /\ \/ /\ stdout' = "pipe" /\ writeEnd' = TRUE /\ reader' = "reading"
          /\ Goto("print") /\ UNCHANGED files
       \/ /\ Collect("status.txt")      \* no pipe: the entry says so
          /\ Goto("policies") /\ UNCHANGED <<stdout, writeEnd, reader>>
    /\ UNCHANGED <<env, pipe, printed, statusErr, buf, policyVars, archiveVars>>

\* A variant whose first piece still goes to the terminal.
PrintChunkElsewhere ==
    /\ pc = "print" /\ env # "none"
    /\ printed < MaxChunks /\ Len(pipe) < PipeSize
    /\ pipe' = IF printed = 0 THEN pipe ELSE Append(pipe, printed + 1)
    /\ printed' = printed + 1
    /\ UNCHANGED <<env, pc, stdout, writeEnd, reader, statusErr, buf, files, policyVars,
                   archiveVars>>

\* The status printer blocks while the pipe is full.
PrintChunk ==
    /\ pc = "print" /\ env # "none"
    /\ printed < MaxChunks /\ Len(pipe) < PipeSize
    /\ pipe' = Append(pipe, printed + 1)
    /\ printed' = printed + 1
    /\ UNCHANGED <<env, pc, stdout, writeEnd, reader, statusErr, buf, files, policyVars,
                   archiveVars>>

\* It fails before it has printed anything, or has printed all.
StatusReturns ==
    /\ pc = "print"
    /\ statusErr' \in {FALSE, env # "none" /\ printed = 0}
    /\ Goto("close")
    /\ UNCHANGED <<env, stdout, pipe, writeEnd, reader, printed, buf, files, policyVars,
                   archiveVars>>

\* A variant that leaves the write end open.
CloseForgotten ==
    /\ pc = "close"
    /\ Goto("restore")
    /\ UNCHANGED <<env, statusVars, files, policyVars, archiveVars>>

CloseWriteEnd ==
    /\ pc = "close"
    /\ writeEnd' = FALSE
    /\ Goto("restore")
    /\ UNCHANGED <<env, stdout, pipe, reader, printed, statusErr, buf, files, policyVars,
                   archiveVars>>

RestoreStdout ==
    /\ pc = "restore"
    /\ stdout' = "terminal"
    /\ Goto("join")
    /\ UNCHANGED <<env, pipe, writeEnd, reader, printed, statusErr, buf, files, policyVars,
                   archiveVars>>

\* A variant that does not wait for the goroutine.
JoinHasty ==
    /\ pc = "join"
    /\ Collect("status.txt") /\ Goto("policies")
    /\ UNCHANGED <<env, statusVars, policyVars, archiveVars>>

\* An error of the status call becomes a last line of the entry.
Join ==
    /\ pc = "join" /\ reader = "done"
    /\ Collect("status.txt") /\ Goto("policies")
    /\ UNCHANGED <<env, statusVars, policyVars, archiveVars>>

\* The goroutine: buf.ReadFrom(r), until the end of the file.
ReadChunk ==
    /\ reader = "reading" /\ pipe # <<>>
    /\ buf' = Append(buf, Head(pipe)) /\ pipe' = Tail(pipe)
    /\ UNCHANGED <<env, pc, stdout, writeEnd, reader, printed, statusErr, files, policyVars,
                   archiveVars>>

ReadEnd ==
    /\ reader = "reading" /\ pipe = <<>> /\ ~writeEnd
    /\ reader' = "done"
    /\ UNCHANGED <<env, pc, stdout, pipe, writeEnd, printed, statusErr, buf, files,
                   policyVars, archiveVars>>

(***************************************************************************)
(* capturePoliciesYAML and the logs.                                       *)
(***************************************************************************)
\* Kubernetes answers with one list; a directory is listed and then read; a
\* failure leaves a comment in the entry.
ListPolicies ==
    /\ pc = "policies"
    /\ \/ /\ env = "docker"
          /\ listed' = Present /\ steady' = Present
          /\ Goto("read") /\ UNCHANGED <<dumped, files>>
       \/ /\ env = "k8s"
          /\ dumped' = {store[n] : n \in Present} /\ steady' = Present
          /\ Collect("policies.yaml") /\ Goto("logs") /\ UNCHANGED listed
       \/ /\ Collect("policies.yaml") /\ Goto("logs")
          /\ UNCHANGED <<listed, steady, dumped>>
    /\ UNCHANGED <<env, statusVars, store, saved, unread, changes, archiveVars>>

\* A variant that ends like `get policies` at a file it cannot read.
ReadPolicyStrict ==
    /\ pc = "read"
    /\ \/ \E n \in listed :
            /\ store[n] # NoDoc
            /\ dumped' = dumped \cup {store[n]}
            /\ listed' = listed \ {n}
            /\ UNCHANGED <<pc, files, unread>>
       \/ /\ \A n \in listed : store[n] = NoDoc
          /\ Collect("policies.yaml") /\ Goto("logs")
          /\ UNCHANGED <<listed, dumped, unread>>
       \/ \E n \in listed :
            /\ listed' = {}
            /\ unread' = unread \cup {n}
            /\ UNCHANGED <<pc, files, dumped>>
    /\ UNCHANGED <<env, statusVars, store, saved, steady, changes, archiveVars>>

\* A file that cannot be read, because it is gone by now or for another reason,
\* is passed over.
ReadPolicy ==
    /\ pc = "read"
    /\ \/ \E n \in listed :
            /\ listed' = listed \ {n}
            /\ \/ store[n] # NoDoc /\ dumped' = dumped \cup {store[n]} /\ UNCHANGED unread
               \/ unread' = unread \cup {n} /\ UNCHANGED dumped
            /\ UNCHANGED <<pc, files>>
       \/ /\ listed = {}
          /\ Collect("policies.yaml") /\ Goto("logs")
          /\ UNCHANGED <<listed, dumped, unread>>
    /\ UNCHANGED <<env, statusVars, store, saved, steady, changes, archiveVars>>

\* A variant that gives up without the logs.
CaptureLogsStrict ==
    /\ pc = "logs"
    /\ \E got \in SUBSET Optional(env) :
         /\ files' = files \cup got \cup {"meta.json"}
         /\ Goto(IF got = Optional(env) THEN "create" ELSE "failed")
    /\ UNCHANGED <<env, statusVars, policyVars, archiveVars>>

\* Logs and events that cannot be had are left out; the description of the run is
\* always there.
CaptureLogs ==
    /\ pc = "logs"
    /\ \E got \in SUBSET Optional(env) : files' = files \cup got \cup {"meta.json"}
    /\ Goto("create")
    /\ UNCHANGED <<env, statusVars, policyVars, archiveVars>>

(***************************************************************************)
(* writeTarGz.                                                             *)
(***************************************************************************)
Fails(point) == retErr' = TRUE /\ broke' = TRUE /\ Goto(point)

CreateFile ==
    /\ pc = "create"
    /\ \/ Goto("entries") /\ UNCHANGED <<retErr, broke>>
       \/ Fails("failed")
    /\ UNCHANGED <<env, statusVars, files, policyVars, tarred, flushed, archive>>

\* The compressor keeps what it is given until it has enough of it; then a write
\* to the file may fail, whosever data that is.
Give(next) ==
    /\ tarred' = tarred + 1
    /\ \/ flushed' \in {flushed, tarred'} /\ Goto(next) /\ UNCHANGED <<retErr, broke>>
       \/ Fails("file") /\ UNCHANGED flushed

\* Entries come in the order of a Go map, which is any: only their number matters.
WriteEntry ==
    /\ pc = "entries" /\ tarred < Cardinality(files)
    /\ Give("entries")
    /\ UNCHANGED <<env, statusVars, files, policyVars, archive>>

CloseTar ==
    /\ pc = "entries" /\ tarred = Cardinality(files)
    /\ Give("gzip")
    /\ UNCHANGED <<env, statusVars, files, policyVars, archive>>

CloseGzip ==
    /\ pc = "gzip"
    /\ \/ flushed' = tarred /\ Goto("file") /\ UNCHANGED <<retErr, broke>>
       \/ Fails("file") /\ UNCHANGED flushed
    /\ UNCHANGED <<env, statusVars, files, policyVars, tarred, archive>>

\* A variant of a plain `defer f.Close()`.
CloseFileUnchecked ==
    /\ pc = "file"
    /\ \/ archive' = flushed /\ UNCHANGED broke
       \/ flushed > 0 /\ archive' = flushed - 1 /\ broke' = TRUE
    /\ Goto(IF retErr THEN "failed" ELSE "ok")
    /\ UNCHANGED <<env, statusVars, files, policyVars, tarred, flushed, retErr>>

\* The deferred close: its error counts if there is none yet.
CloseFile ==
    /\ pc = "file"
    /\ \/ archive' = flushed /\ UNCHANGED <<retErr, broke>>
       \/ flushed > 0 /\ archive' = flushed - 1 /\ retErr' = TRUE /\ broke' = TRUE
    /\ Goto(IF retErr' THEN "failed" ELSE "ok")
    /\ UNCHANGED <<env, statusVars, files, policyVars, tarred, flushed>>

Main == \/ Probe \/ OpenPipe \/ PrintChunk \/ StatusReturns \/ CloseWriteEnd
        \/ RestoreStdout \/ Join \/ ListPolicies \/ ReadPolicy \/ CaptureLogs
        \/ CreateFile \/ WriteEntry \/ CloseTar \/ CloseGzip \/ CloseFile

Reader == ReadChunk \/ ReadEnd

Next == Main \/ Reader \/ PolicyChanges

Spec == Init /\ [][Next]_vars

\* Go runs both goroutines as long as they can run; the calls on the daemon, the
\* API server and the file system return.
FairSpec == Spec /\ WF_vars(Main) /\ WF_vars(Reader)

(***************************************************************************)
(* Properties.                                                             *)
(***************************************************************************)

\* The status entry is all that the status printer has written, in its order, and
\* the goroutine does not touch it any more.
StatusIsWhole ==
    "status.txt" \in files =>
       /\ reader # "reading"
       /\ buf = [i \in 1..printed |-> i]
       /\ stdout = "terminal"

\* A policy that was there when the policies were listed, that nobody has changed
\* since and whose file could be read is in the bundle, whatever happens to other
\* policies meanwhile.
SteadyPoliciesDumped ==
    "policies.yaml" \in files => \A n \in steady \ unread : store[n] \in dumped

\* A bundle that is reported written is whole in its file, as far as its close tells
\* (nothing is synced): the entries that are always there, all others that were
\* collected, and the end of both streams.
BundleIsWhole ==
    pc = "ok" => archive = Pieces(files) /\ Always \subseteq files

\* Nothing that cannot be found out keeps the bundle from being written: sysdump
\* fails only on the archive itself.
OnlyArchiveFails == pc = "failed" => broke

\* sysdump neither blocks on the pipe nor waits for ever for its goroutine.
SysdumpEnds == pc \in Busy ~> pc \in {"ok", "failed"}
====
