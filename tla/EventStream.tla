---- MODULE EventStream ----
(***************************************************************************)
(* `kkctl stream events|alerts|logs`: a client that follows a server       *)
(* stream for ever, reconnects when it ends, prints each entry on a line   *)
(* of its own and stops on SIGINT or SIGTERM.  The main goroutine          *)
(* (runClient, or the same loop in runStreamLogs) meets a goroutine that   *)
(* waits for one signal and cancels the context, and a server that comes,  *)
(* goes, closes a stream or breaks it whenever it likes.                   *)
(*                                                                         *)
(* The server and gRPC are external: a server sends to a connection what   *)
(* happens while it is open, entries of one connection arrive in order,    *)
(* and a call under a cancelled context returns an error.                  *)
(***************************************************************************)
EXTENDS Naturals, Sequences, SequencesExt

CONSTANT MaxEntries     \* how many entries the server ever produces

ASSUME MaxEntriesAssumption == MaxEntries \in Nat

VARIABLES
    pc,             \* the main goroutine
    cancelled,      \* ctx.Done() is closed
    signals,        \* a signal waits in sigCh (capacity 1)
    watching,       \* the signal goroutine still waits
    serverUp,
    conn,           \* the stream: "none", "open", "eof" or "broken"
    inflight,       \* entries sent on this stream and not yet received
    produced,       \* number of the server's latest entry
    printed,        \* the entries on stdout, in order
    failed,         \* entries whose line could not be written
    cut             \* history: entries lost with a broken or cancelled stream

vars == <<pc, cancelled, signals, watching, serverUp, conn, inflight, produced,
          printed, failed, cut>>

serverVars == <<serverUp, produced>>
signalVars == <<cancelled, signals, watching>>

Entries == 1..MaxEntries

Init ==
    /\ pc = "loop"
    /\ cancelled = FALSE /\ signals = FALSE /\ watching = TRUE
    /\ serverUp \in BOOLEAN
    /\ conn = "none" /\ inflight = <<>> /\ produced = 0
    /\ printed = <<>> /\ failed = {} /\ cut = {}

(***************************************************************************)
(* The main goroutine.                                                     *)
(***************************************************************************)
\* A variant that does not look at the context before it reconnects.
LoopUnchecked ==
    /\ pc = "loop"
    /\ pc' = "connect"
    /\ UNCHANGED <<signalVars, serverVars, conn, inflight, printed, failed, cut>>

Loop ==
    /\ pc = "loop"
    /\ pc' = IF cancelled THEN "done" ELSE "connect"
    /\ UNCHANGED <<signalVars, serverVars, conn, inflight, printed, failed, cut>>

\* A new client and a new stream; opening it may fail for other reasons, too.
Connect ==
    /\ pc = "connect"
    /\ \/ serverUp /\ ~cancelled /\ conn' = "open" /\ pc' = "recv"
       \/ conn' = "none" /\ pc' = "wait"
    /\ inflight' = <<>>
    /\ UNCHANGED <<signalVars, serverVars, printed, failed, cut>>

\* One entry is received and written; a failed write is reported on stderr and the
\* entry is gone.  The JSON encoder is one for the whole process and keeps its first
\* error: after a failed write nothing is written any more, and the client goes on.
Receive ==
    /\ pc = "recv" /\ inflight # <<>>
    /\ \/ failed = {} /\ printed' = Append(printed, Head(inflight)) /\ UNCHANGED failed
       \/ failed' = failed \cup {Head(inflight)} /\ UNCHANGED printed
    /\ inflight' = Tail(inflight)
    /\ UNCHANGED <<pc, signalVars, serverVars, conn, cut>>

\* A variant that takes the close of the stream for the end of its data.
EndOfStreamEarly ==
    /\ pc = "recv" /\ conn = "eof"
    /\ conn' = "none" /\ pc' = "loop" /\ inflight' = <<>>
    /\ UNCHANGED <<signalVars, serverVars, printed, failed, cut>>

\* A variant that leaves the ended stream in place.
EndOfStreamKept ==
    /\ pc = "recv" /\ conn = "eof" /\ inflight = <<>>
    /\ pc' = "loop"
    /\ UNCHANGED <<signalVars, serverVars, conn, inflight, printed, failed, cut>>

\* io.EOF comes after the last entry; connectAndStream returns nil and the loop
\* reconnects at once.
EndOfStream ==
    /\ pc = "recv" /\ conn = "eof" /\ inflight = <<>>
    /\ conn' = "none" /\ pc' = "loop"
    /\ UNCHANGED <<signalVars, serverVars, inflight, printed, failed, cut>>

\* Any other error of Recv: what was on its way is lost.
StreamError ==
    /\ pc = "recv" /\ (conn = "broken" \/ cancelled)
    /\ cut' = cut \cup ToSet(inflight)
    /\ inflight' = <<>> /\ conn' = "none" /\ pc' = "wait"
    /\ UNCHANGED <<signalVars, serverVars, printed, failed>>

\* A variant that gives up after an error.
WaitGivesUp ==
    /\ pc = "wait"
    /\ pc' = "done"
    /\ UNCHANGED <<signalVars, serverVars, conn, inflight, printed, failed, cut>>

\* Five seconds, or the context, whichever is first; select is free to choose
\* when both are ready.
Wait ==
    /\ pc = "wait"
    /\ \/ cancelled /\ pc' = "done"
       \/ pc' = "loop"
    /\ UNCHANGED <<signalVars, serverVars, conn, inflight, printed, failed, cut>>

Client == Loop \/ Connect \/ Receive \/ EndOfStream \/ StreamError \/ Wait

(***************************************************************************)
(* Signals and the server.                                                 *)
(***************************************************************************)
\* The runtime drops a signal when the channel is full.
Signal ==
    /\ pc # "done" /\ ~signals
    /\ signals' = TRUE
    /\ UNCHANGED <<pc, cancelled, watching, serverVars, conn, inflight, printed,
                   failed, cut>>

\* The goroutine takes one signal and cancels; later ones stay in the channel.
CancelOnSignal ==
    /\ watching /\ signals /\ pc # "done"
    /\ watching' = FALSE /\ signals' = FALSE /\ cancelled' = TRUE
    /\ UNCHANGED <<pc, serverVars, conn, inflight, printed, failed, cut>>

Produce ==
    /\ serverUp /\ produced < MaxEntries
    /\ produced' = produced + 1
    /\ \/ inflight' = IF conn = "open" THEN Append(inflight, produced') ELSE inflight
       \/ UNCHANGED inflight        \* the filter does not let it through
    /\ UNCHANGED <<pc, signalVars, serverUp, conn, printed, failed, cut>>

EndStream(how) ==
    /\ conn = "open"
    /\ conn' = how
    /\ UNCHANGED <<pc, signalVars, serverVars, inflight, printed, failed, cut>>

ServerGoes ==
    /\ serverUp /\ serverUp' = FALSE
    /\ conn' = IF conn = "open" THEN "broken" ELSE conn
    /\ UNCHANGED <<pc, signalVars, produced, inflight, printed, failed, cut>>

ServerComes ==
    /\ ~serverUp /\ serverUp' = TRUE
    /\ UNCHANGED <<pc, signalVars, produced, conn, inflight, printed, failed, cut>>

ServerStep == \/ Produce \/ EndStream("eof") \/ EndStream("broken")
              \/ ServerGoes \/ ServerComes

Next == \/ Client
        \/ Signal \/ CancelOnSignal \/ ServerStep

Spec == Init /\ [][Next]_vars

\* Go's scheduler runs every goroutine that can run, and its timers fire.  An
\* attempt to connect to a server that is up succeeds now and then.
FairSpec == /\ Spec
            /\ WF_vars(Client)
            /\ WF_vars(CancelOnSignal)
            /\ SF_vars(Connect /\ pc' = "recv")

(***************************************************************************)
(* Properties.                                                             *)
(***************************************************************************)

\* Every variable stays within its type.
TypeOK ==
    /\ pc \in {"loop", "connect", "recv", "wait", "done"}
    /\ cancelled \in BOOLEAN /\ signals \in BOOLEAN /\ watching \in BOOLEAN
    /\ serverUp \in BOOLEAN
    /\ conn \in {"none", "open", "eof", "broken"}
    /\ (conn = "none") = (pc # "recv")
    /\ inflight \in Seq(Entries) /\ printed \in Seq(Entries)
    /\ produced \in 0..MaxEntries
    /\ failed \subseteq Entries /\ cut \subseteq Entries

\* Where an entry that came down a stream can be.
Accounted == ToSet(inflight) \cup ToSet(printed) \cup failed \cup cut

\* An entry that came down a stream is lost only with a stream that broke or was
\* cancelled, or by a failed write; a stream the server closes is read to its end
\* first, and a reconnection throws nothing away.
OnlyBrokenStreamsLose ==
    [][ToSet(inflight) \subseteq Accounted']_vars

\* SIGINT or SIGTERM ends the client wherever it is: in Recv, in the five
\* seconds, or about to reconnect.
SignalStops == signals ~> (pc = "done")

\* Reconnection is automatic: while nobody stops it, a client whose server stays
\* up is connected again and again, whatever ended its streams before.
KeepsReconnecting ==
    (<>[]serverUp /\ []~signals) => []<>(pc = "recv")
====
