---- MODULE EventStreamProofs ----
(***************************************************************************)
(* Proofs about EventStream, for any number of entries: the types, and     *)
(* that an entry is lost only with a stream that broke or was cancelled,   *)
(* or by a failed write.                                                   *)
(***************************************************************************)
EXTENDS EventStream, SequenceTheorems, TLAPS

\* Only a stream has something on its way, so a reconnection finds nothing to
\* throw away.
NothingWithoutStream == conn = "none" => inflight = <<>>

StreamInv == TypeOK /\ NothingWithoutStream

\* Whatever the server's state, a client starts with nothing printed.
LEMMA InitInv == Init => StreamInv
<1> SUFFICES ASSUME Init PROVE StreamInv
  OBVIOUS
<1>1. <<>> \in Seq(Entries)
  BY EmptySeq
<1>2. produced \in 0..MaxEntries
  BY MaxEntriesAssumption DEF Init
<1> QED
  BY <1>1, <1>2 DEF Init, StreamInv, TypeOK, NothingWithoutStream

\* The oldest entry on its way goes to stdout or is reported as not written.
LEMMA ReceiveKeepsInv ==
    ASSUME StreamInv, Receive
    PROVE  StreamInv'
<1> DEFINE e == Head(inflight)
<1>1. /\ inflight \in Seq(Entries) /\ inflight # <<>> /\ printed \in Seq(Entries)
      /\ pc = "recv" /\ conn # "none"
  BY DEF Receive, StreamInv, TypeOK
<1>2. inflight' \in Seq(Entries) /\ e \in Entries
  BY <1>1, HeadTailProperties DEF Receive
<1>3. printed' \in Seq(Entries) /\ failed' \subseteq Entries
  <2>1. Append(printed, e) \in Seq(Entries)
    BY <1>1, <1>2, AppendProperties
  <2> QED
    BY <1>1, <1>2, <2>1 DEF Receive, StreamInv, TypeOK
<1> QED
  BY <1>1, <1>2, <1>3
  DEF StreamInv, TypeOK, NothingWithoutStream, Receive, signalVars, serverVars

\* The server sends on an open stream only.
LEMMA ProduceKeepsInv ==
    ASSUME StreamInv, Produce
    PROVE  StreamInv'
<1>1. produced' \in Entries /\ produced' \in 0..MaxEntries
  BY MaxEntriesAssumption DEF Produce, StreamInv, TypeOK, Entries
<1>2. inflight' \in Seq(Entries) /\ (inflight' = inflight \/ conn = "open")
  <2>1. Append(inflight, produced') \in Seq(Entries)
    BY <1>1, AppendProperties DEF StreamInv, TypeOK
  <2> QED
    BY <2>1 DEF Produce, StreamInv, TypeOK
<1> QED
  BY <1>1, <1>2 DEF StreamInv, TypeOK, NothingWithoutStream, Produce, signalVars

\* Every step of the client, of the signals and of the server keeps the invariant.
LEMMA NextKeepsInv == StreamInv /\ [Next]_vars => StreamInv'
<1> SUFFICES ASSUME StreamInv, [Next]_vars PROVE StreamInv'
  OBVIOUS
<1>0. <<>> \in Seq(Entries)
  BY EmptySeq
<1> USE DEF StreamInv, TypeOK, NothingWithoutStream, signalVars, serverVars
<1>1. CASE Loop
  BY <1>1 DEF Loop
<1>2. CASE Connect
  BY <1>0, <1>2 DEF Connect
<1>3. CASE Receive
  BY <1>3, ReceiveKeepsInv
<1>4. CASE EndOfStream
  BY <1>4 DEF EndOfStream
<1>5. CASE StreamError
  <2>1. ToSet(inflight) \subseteq Entries
    BY ElementOfSeq, LenProperties DEF ToSet
  <2> QED
    BY <1>0, <1>5, <2>1 DEF StreamError
<1>6. CASE Wait
  BY <1>6 DEF Wait
<1>7. CASE Signal \/ CancelOnSignal
  BY <1>7 DEF Signal, CancelOnSignal
<1>8. CASE Produce
  BY <1>8, ProduceKeepsInv
<1>9. CASE EndStream("eof") \/ EndStream("broken")
  BY <1>9 DEF EndStream
<1>10. CASE ServerGoes \/ ServerComes
  BY <1>10 DEF ServerGoes, ServerComes
<1>11. CASE UNCHANGED vars
  BY <1>11 DEF vars
<1> QED
  BY <1>1, <1>2, <1>3, <1>4, <1>5, <1>6, <1>7, <1>8, <1>9, <1>10, <1>11
  DEF Next, Client, ServerStep

\* The invariant of a client, for every number of entries.
LEMMA StreamInvariant == Spec => []StreamInv
  BY InitInv, NextKeepsInv, PTL DEF Spec

\* Every variable of the streaming client stays within its type.
THEOREM Typing == Spec => []TypeOK
<1>1. StreamInv => TypeOK
  BY DEF StreamInv
<1> QED
  BY <1>1, StreamInvariant, PTL

\* No step makes an entry vanish that came down a stream: it is on stdout, still
\* to be received, reported as unwritable, or went with a stream that broke or was
\* cancelled.
LEMMA StepKeepsEntries ==
    StreamInv /\ [Next]_vars => ToSet(inflight) \subseteq Accounted'
<1> SUFFICES ASSUME StreamInv, [Next]_vars PROVE ToSet(inflight) \subseteq Accounted'
  OBVIOUS
<1>1. /\ inflight \in Seq(Entries) /\ DOMAIN inflight = 1..Len(inflight)
      /\ Len(inflight) \in Nat /\ printed \in Seq(Entries)
      /\ Len(printed) \in Nat
  BY LenProperties DEF StreamInv, TypeOK
<1>2. CASE UNCHANGED inflight
  BY <1>2 DEF Accounted
<1>3. CASE Connect
  <2>1. inflight = <<>>
    BY <1>3 DEF Connect, StreamInv, NothingWithoutStream, TypeOK
  <2> QED
    BY <2>1 DEF ToSet
<1>4. CASE Receive
  <2> DEFINE e == Head(inflight)
  <2>1. inflight # <<>> /\ inflight' = Tail(inflight)
    BY <1>4 DEF Receive
  <2>2. /\ e = inflight[1] /\ e \in Entries /\ inflight' \in Seq(Entries)
        /\ Len(inflight') = Len(inflight) - 1
        /\ \A i \in 1..Len(inflight') : inflight'[i] = inflight[i + 1]
        /\ DOMAIN inflight' = 1..Len(inflight')
    BY <1>1, <2>1, HeadTailProperties, LenProperties
  <2>3. e \in ToSet(printed') \cup failed'
    <3>1. CASE printed' = Append(printed, e)
      <4>1. /\ DOMAIN printed' = 1..(Len(printed) + 1)
            /\ printed'[Len(printed) + 1] = e
        BY <1>1, <2>2, <3>1, AppendProperties, LenProperties
      <4>2. Len(printed) + 1 \in DOMAIN printed'
        BY <1>1, <4>1
      <4> QED
        BY <4>1, <4>2 DEF ToSet
    <3> QED
      BY <1>4, <3>1 DEF Receive
  <2>4. ASSUME NEW i \in 1..Len(inflight)
        PROVE  inflight[i] \in ToSet(inflight') \cup {e}
    <3>1. CASE i = 1
      BY <2>2, <3>1
    <3>2. CASE i # 1
      <4>1. i - 1 \in 1..Len(inflight') /\ inflight'[i - 1] = inflight[i]
        BY <1>1, <2>2, <3>2
      <4> QED
        BY <2>2, <4>1 DEF ToSet
    <3> QED
      BY <3>1, <3>2
  <2> QED
    BY <1>1, <2>3, <2>4 DEF ToSet, Accounted
<1>5. CASE StreamError
  BY <1>5 DEF StreamError, Accounted
<1>6. CASE Produce
  <2>1. CASE inflight' = Append(inflight, produced')
    <3>1. produced' \in Entries
      BY <1>6, MaxEntriesAssumption DEF Produce, StreamInv, TypeOK, Entries
    <3>2. /\ DOMAIN inflight' = 1..(Len(inflight) + 1)
          /\ \A i \in 1..Len(inflight) : inflight'[i] = inflight[i]
      BY <1>1, <2>1, <3>1, AppendProperties, LenProperties
    <3> QED
      BY <1>1, <3>2 DEF ToSet, Accounted
  <2> QED
    BY <1>2, <1>6, <2>1 DEF Produce
<1> QED
  BY <1>2, <1>3, <1>4, <1>5, <1>6 DEF Next, Client, ServerStep, Loop, EndOfStream,
     Wait, Signal, CancelOnSignal, EndStream, ServerGoes, ServerComes, vars

\* A stream that the server closes is read to its end, and a reconnection throws
\* nothing away: entries go only with a broken or cancelled stream.
THEOREM LossOnlyWithStream == Spec => OnlyBrokenStreamsLose
<1>1. StreamInv /\ [Next]_vars => [ToSet(inflight) \subseteq Accounted']_vars
  BY StepKeepsEntries
<1> QED
  BY <1>1, StreamInvariant, PTL DEF Spec, OnlyBrokenStreamsLose
====
