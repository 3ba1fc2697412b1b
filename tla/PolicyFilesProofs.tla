---- MODULE PolicyFilesProofs ----
(***************************************************************************)
(* Proofs about PolicyFiles, for any number of kkctl processes, policies,  *)
(* documents and host crashes: the types, that no reader ever meets half a *)
(* document, and that the directory implements PolicyStore.                *)
(***************************************************************************)
EXTENDS PolicyFiles, TLAPS

\* The loop of an apply stands at a document that carries a name from the
\* moment writePolicyFile makes the temporary file until that file is renamed.
AtDocument ==
    \A p \in Procs : pc[p] \in Writing \cup {"create"} =>
        job[p] # NoRequest /\ More(p) /\ NamedDoc(Doc(p))

\* A delete that has passed collectDeleteTargets has only documents with names.
DeleteTargetsNamed ==
    \A p \in Procs : pc[p] = "delete" =>
        /\ job[p] # NoRequest
        /\ \A i \in 1..Len(job[p].docs) : NamedDoc(job[p].docs[i])

\* A listing only visits names.
ListingVisitsNames == \A p \in Procs : pc[p] = "read" => todo[p] \subseteq Names

\* A started process has a request.
StartedHasRequest == \A p \in Procs : pc[p] \in Running => job[p] # NoRequest

\* How far a temporary file has come, by the step its process is about to do.
WriteProgress ==
    \A p \in Procs :
        /\ pc[p] \in {"chmod", "sync", "close", "rename"} => Temp(p) \in written
        /\ pc[p] \in {"close", "rename"} => Temp(p) \in stable

\* What the names stand for: inodes that are on the disk as a whole, which is
\* more than NeverTorn says, and what makes NeverTorn survive a crash.
Sound(entries) ==
    \A n \in Names : entries[n] # None =>
        entries[n] \in stable /\ NameOf[entries[n].doc] = n

FilesInv ==
    /\ TypeOK
    /\ StartedHasRequest
    /\ AtDocument
    /\ DeleteTargetsNamed
    /\ ListingVisitsNames
    /\ WriteProgress
    /\ stable \subseteq written
    /\ Sound(dir)
    /\ Sound(durable)

\* The inode an apply is working on is one: its document is a document.
LEMMA TempIsFile ==
    ASSUME TypeOK, NEW p \in Procs, job[p] # NoRequest, More(p)
    PROVE  Doc(p) \in Docs /\ Temp(p) \in File
<1>1. job[p] \in Request /\ pos[p] \in Nat \ {0}
  BY DEF TypeOK
<1>2. job[p].docs \in Seq(Docs)
  BY <1>1 DEF Request
<1>3. pos[p] \in 1..Len(job[p].docs)
  BY <1>1, <1>2 DEF More
<1>4. Doc(p) \in Docs
  BY <1>2, <1>3 DEF Doc
<1> QED
  BY <1>1, <1>4 DEF Temp, File

\* Whole files under their own names are what a run of kkctl starts from.
LEMMA InitInv == Init => FilesInv
<1> SUFFICES ASSUME Init PROVE FilesInv
  OBVIOUS
<1>1. \A n \in Names : dir[n] # None => dir[n] \in File /\ NameOf[dir[n].doc] = n
  BY DEF Init, File, NamedDoc
<1>2. TypeOK
  BY <1>1, ConstantsAssumption, NoneAssumption DEF Init, TypeOK, Present, Points
<1>3. Sound(dir) /\ Sound(durable)
  BY DEF Init, Sound, Present
<1>4. \A p \in Procs : pc[p] = "idle"
  BY DEF Init
<1> QED
  BY <1>2, <1>3, <1>4 DEF Init, FilesInv, StartedHasRequest, AtDocument,
     DeleteTargetsNamed, ListingVisitsNames, WriteProgress, Running, Writing

\* One process moves its control point; the names, what they stand for and the
\* requests stay as they are.
LEMMA GotoKeepsInv ==
    ASSUME FilesInv, NEW p \in Procs, NEW point \in Points, Goto(p, point),
           UNCHANGED <<dir, durable, written, stable, job, pos, published, crashes>>,
           dirExists' \in BOOLEAN, temps' \subseteq File,
           todo' \in [Procs -> SUBSET (Names \cup File)],
           \A q \in Procs : q # p => todo'[q] = todo[q],
           got' \in [Procs -> SUBSET File],
           point = "read" => todo'[p] \subseteq Names,
           point \in Running => job[p] # NoRequest,
           point \in {"create"} \cup Writing =>
               job[p] # NoRequest /\ More(p) /\ NamedDoc(Doc(p)),
           point = "delete" =>
               \A i \in 1..Len(job[p].docs) : NamedDoc(job[p].docs[i]),
           point \in {"chmod", "sync", "close", "rename"} => Temp(p) \in written,
           point \in {"close", "rename"} => Temp(p) \in stable
    PROVE  FilesInv'
<1>1. pc' = [pc EXCEPT ![p] = point] /\ pc \in [Procs -> Points]
  BY DEF Goto, FilesInv, TypeOK
<1>2. TypeOK'
  BY <1>1 DEF FilesInv, TypeOK
<1>3. \A q \in Procs : q # p => pc'[q] = pc[q]
  BY <1>1
<1>4. pc'[p] = point
  BY <1>1
<1>5. (Sound(dir) /\ Sound(durable) /\ stable \subseteq written)'
  BY DEF FilesInv, Sound
<1>6. StartedHasRequest' /\ DeleteTargetsNamed' /\ ListingVisitsNames'
  BY <1>3, <1>4 DEF FilesInv, StartedHasRequest, DeleteTargetsNamed,
     ListingVisitsNames, Running
<1>7. AtDocument'
  BY <1>3, <1>4 DEF FilesInv, AtDocument, More, Doc
<1>8. WriteProgress'
  BY <1>3, <1>4 DEF FilesInv, WriteProgress, Temp, Doc
<1> QED
  BY <1>2, <1>5, <1>6, <1>7, <1>8 DEF FilesInv

\* Every system call of an apply keeps the invariant.
LEMMA ApplyStepInv ==
    ASSUME FilesInv, NEW p \in Procs, ApplyStep(p)
    PROVE  FilesInv'
<1> USE DEF At, Local, fsVars
<1>0. TypeOK /\ StartedHasRequest /\ AtDocument /\ WriteProgress
  BY DEF FilesInv
<1>1. CASE ReadInput(p)
  BY <1>0, <1>1, GotoKeepsInv
     DEF ReadInput, StartedHasRequest, Running, Writing, Points, Ended, TypeOK
<1>2. CASE ApplyDoc(p)
  BY <1>0, <1>2, GotoKeepsInv
     DEF ApplyDoc, StartedHasRequest, Running, Writing, Points, Ended, TypeOK
<1>3. CASE CreateTemp(p)
  <2>1. job[p] # NoRequest /\ More(p) /\ NamedDoc(Doc(p))
    BY <1>0, <1>3 DEF CreateTemp, AtDocument
  <2>2. temps' \subseteq File
    BY <1>0, <1>3, <2>1, TempIsFile DEF CreateTemp, TypeOK
  <2> QED
    BY <1>0, <1>3, <2>1, <2>2, GotoKeepsInv
       DEF CreateTemp, Running, Writing, Points, Ended, TypeOK
<1>4. CASE Write(p)
  <2>1. job[p] # NoRequest /\ More(p) /\ Temp(p) \in File
    BY <1>0, <1>4, TempIsFile DEF Write, AtDocument, Writing
  <2>2. TypeOK'
    BY <1>0, <1>4, <2>1 DEF Write, Goto, TypeOK, Points, Running, Writing
  <2>3. pc'[p] = "chmod" /\ \A q \in Procs : q # p => pc'[q] = pc[q]
    BY <1>0, <1>4 DEF Write, Goto, TypeOK
  <2>4. \A q \in Procs : Temp(q)' = Temp(q)
    BY <1>4 DEF Write, Temp, Doc
  <2>5. WriteProgress'
    BY <1>0, <1>4, <2>3, <2>4 DEF Write, WriteProgress
  <2>6. StartedHasRequest' /\ AtDocument' /\ DeleteTargetsNamed' /\ ListingVisitsNames'
    BY <1>4, <2>3 DEF FilesInv, Write, StartedHasRequest, AtDocument,
       DeleteTargetsNamed, ListingVisitsNames, Running, Writing, More, Doc
  <2>7. (stable \subseteq written)' /\ Sound(dir)' /\ Sound(durable)'
    BY <1>4 DEF FilesInv, Write, Sound
  <2> QED
    BY <2>2, <2>5, <2>6, <2>7 DEF FilesInv
<1>5. CASE Chmod(p)
  BY <1>0, <1>5, GotoKeepsInv
     DEF Chmod, AtDocument, WriteProgress, Running, Writing, Points, Ended, TypeOK
<1>6. CASE Sync(p)
  <2>1. Temp(p) \in written /\ Temp(p) \in File
    BY <1>0, <1>6 DEF Sync, WriteProgress, TypeOK
  <2>2. TypeOK'
    BY <1>0, <1>6, <2>1 DEF Sync, Goto, TypeOK, Points, Running, Writing
  <2>3. pc'[p] = "close" /\ \A q \in Procs : q # p => pc'[q] = pc[q]
    BY <1>0, <1>6 DEF Sync, Goto, TypeOK
  <2>4. \A q \in Procs : Temp(q)' = Temp(q)
    BY <1>6 DEF Sync, Temp, Doc
  <2>5. WriteProgress'
    BY <1>0, <1>6, <2>1, <2>3, <2>4 DEF Sync, WriteProgress
  <2>6. StartedHasRequest' /\ AtDocument' /\ DeleteTargetsNamed' /\ ListingVisitsNames'
    BY <1>6, <2>3 DEF FilesInv, Sync, StartedHasRequest, AtDocument,
       DeleteTargetsNamed, ListingVisitsNames, Running, Writing, More, Doc
  <2>7. (stable \subseteq written)' /\ Sound(dir)' /\ Sound(durable)'
    BY <1>6, <2>1 DEF FilesInv, Sync, Sound
  <2> QED
    BY <2>2, <2>5, <2>6, <2>7 DEF FilesInv
<1>7. CASE Close(p)
  BY <1>0, <1>7, GotoKeepsInv
     DEF Close, AtDocument, WriteProgress, Running, Writing, Points, Ended, TypeOK
<1>8. CASE Rename(p)
  <2> DEFINE n == NameOf[Doc(p)]
  <2>1. job[p] # NoRequest /\ More(p) /\ NamedDoc(Doc(p)) /\ Temp(p) \in stable
    BY <1>0, <1>8 DEF Rename, AtDocument, WriteProgress, Writing
  <2>2. n \in Names /\ Temp(p) \in File /\ Temp(p).doc = Doc(p)
    BY <1>0, <2>1, TempIsFile DEF NamedDoc, Temp
  <2>3. TypeOK'
    BY <1>0, <1>8, <2>2 DEF Rename, Goto, Advance, TypeOK, Points, Running
  <2>4. pc'[p] = "doc" /\ \A q \in Procs : q # p => pc'[q] = pc[q] /\ pos'[q] = pos[q]
    BY <1>0, <1>8 DEF Rename, Goto, Advance, TypeOK
  <2>5. \A q \in Procs : q # p => Temp(q)' = Temp(q)
    BY <1>8, <2>4 DEF Rename, Temp, Doc
  <2>6. WriteProgress'
    BY <1>0, <1>8, <2>4, <2>5 DEF Rename, WriteProgress
  <2>7. StartedHasRequest' /\ AtDocument' /\ DeleteTargetsNamed' /\ ListingVisitsNames'
    BY <1>8, <2>1, <2>4 DEF FilesInv, Rename, StartedHasRequest, AtDocument,
       DeleteTargetsNamed, ListingVisitsNames, Running, Writing, More, Doc
  <2>8. Sound(dir)'
    BY <1>0, <1>8, <2>1, <2>2 DEF FilesInv, Rename, Sound, TypeOK
  <2>9. (stable \subseteq written)' /\ Sound(durable)'
    BY <1>8 DEF FilesInv, Rename, Sound
  <2> QED
    BY <2>3, <2>6, <2>7, <2>8, <2>9 DEF FilesInv
<1>9. CASE WriteFails(p)
  BY <1>0, <1>9, GotoKeepsInv
     DEF WriteFails, AtDocument, Running, Writing, Points, Ended, TypeOK
<1>10. CASE Cleanup(p)
  BY <1>0, <1>10, GotoKeepsInv
     DEF Cleanup, Running, Writing, Points, Ended, TypeOK
<1> QED
  BY <1>1, <1>2, <1>3, <1>4, <1>5, <1>6, <1>7, <1>8, <1>9, <1>10 DEF ApplyStep

\* Names change, a process moves on, no inode is touched: deletes and purges.
LEMMA RemovalKeepsInv ==
    ASSUME FilesInv, NEW p \in Procs, pc[p] \notin Writing \cup {"create"},
           UNCHANGED <<dirExists, durable, written, stable, pc, job, got,
                       published, crashes>>,
           pos' \in [Procs -> Nat \ {0}],
           \A q \in Procs : q # p => pos'[q] = pos[q],
           pc[p] # "read",
           todo' \in [Procs -> SUBSET (Names \cup File)],
           \A q \in Procs : q # p => todo'[q] = todo[q],
           temps' \subseteq temps,
           dir' \in [Names -> File \cup {None}],
           \A n \in Names : dir'[n] \in {dir[n], None}
    PROVE  FilesInv'
<1>1. TypeOK'
  BY DEF FilesInv, TypeOK
<1>2. \A q \in Procs : q # p => Temp(q)' = Temp(q) /\ Doc(q)' = Doc(q)
  BY DEF Temp, Doc
<1>3. StartedHasRequest' /\ DeleteTargetsNamed' /\ ListingVisitsNames'
  BY DEF FilesInv, StartedHasRequest, DeleteTargetsNamed, ListingVisitsNames
<1>4. AtDocument' /\ WriteProgress'
  BY <1>2 DEF FilesInv, AtDocument, WriteProgress, More, Writing
<1>5. Sound(dir)' /\ Sound(durable)' /\ (stable \subseteq written)'
  BY DEF FilesInv, Sound
<1> QED
  BY <1>1, <1>3, <1>4, <1>5 DEF FilesInv

\* So does every call of a delete, a listing and a purge.
LEMMA OtherStepInv ==
    ASSUME FilesInv, NEW p \in Procs, OtherStep(p)
    PROVE  FilesInv'
<1> USE DEF At, Local, fsVars
<1>0. TypeOK /\ StartedHasRequest /\ DeleteTargetsNamed /\ ListingVisitsNames
  BY DEF FilesInv
<1>1. CASE CollectTargets(p)
  BY <1>0, <1>1, GotoKeepsInv
     DEF CollectTargets, StartedHasRequest, Running, Writing, Points, Ended, TypeOK
<1>2. CASE DeleteDoc(p)
  <2>1. CASE pc' # pc
    <3>1. UNCHANGED <<dir, pos>>
      BY <1>2, <2>1 DEF DeleteDoc
    <3>2. PICK point \in {"ok", "missing", "failed"} : Goto(p, point)
      BY <1>2, <2>1 DEF DeleteDoc
    <3> QED
      BY <1>0, <1>2, <3>1, <3>2, GotoKeepsInv
         DEF DeleteDoc, Running, Writing, Points, Ended, TypeOK
  <2>2. CASE pc' = pc
    <3>1. UNCHANGED pos \/ Advance(p)
      BY <1>2 DEF DeleteDoc
    <3>2. pos' \in [Procs -> Nat \ {0}] /\ \A q \in Procs : q # p => pos'[q] = pos[q]
      BY <1>0, <3>1 DEF Advance, TypeOK
    <3>3. UNCHANGED dir \/ dir' = [dir EXCEPT ![NameOf[Doc(p)]] = None]
      BY <1>2 DEF DeleteDoc
    <3>4. dir' \in [Names -> File \cup {None}] /\ \A n \in Names : dir'[n] \in {dir[n], None}
      BY <1>0, <3>3 DEF TypeOK
    <3> QED
      BY <1>0, <1>2, <2>2, <3>2, <3>4, RemovalKeepsInv DEF DeleteDoc, Writing, TypeOK
  <2> QED
    BY <2>1, <2>2
<1>3. CASE ReadDir(p)
  <2>1. /\ todo' \in [Procs -> SUBSET (Names \cup File)]
        /\ \A q \in Procs : q # p => todo'[q] = todo[q]
        /\ Goto(p, "read") => todo'[p] \subseteq Names
    BY <1>0, <1>3 DEF ReadDir, Goto, TypeOK, Present
  <2> QED
    BY <1>0, <1>3, <2>1, GotoKeepsInv
       DEF ReadDir, StartedHasRequest, Running, Writing, Points, Ended, TypeOK
<1>4. CASE ReadFile(p)
  <2>1. /\ todo' \in [Procs -> SUBSET (Names \cup File)]
        /\ \A q \in Procs : q # p => todo'[q] = todo[q]
        /\ todo'[p] \subseteq Names
    BY <1>0, <1>4 DEF ReadFile, ListingVisitsNames, TypeOK
  <2>2. got' \in [Procs -> SUBSET File]
    <3>1. CASE UNCHANGED got
      BY <1>0, <3>1 DEF TypeOK
    <3>2. CASE \E n \in todo[p] : dir[n] # None /\ got' = [got EXCEPT ![p] = @ \cup {dir[n]}]
      <4>1. PICK n \in todo[p] : dir[n] # None /\ got' = [got EXCEPT ![p] = @ \cup {dir[n]}]
        BY <3>2
      <4>2. n \in Names
        BY <1>0, <1>4, <4>1 DEF ReadFile, ListingVisitsNames
      <4> QED
        BY <1>0, <4>1, <4>2 DEF TypeOK
    <3> QED
      BY <1>4, <3>1, <3>2 DEF ReadFile
  <2>3. PICK point \in {"ok", "read", "missing", "failed"} : Goto(p, point)
    BY <1>0, <1>4 DEF ReadFile, Goto, TypeOK
  <2> QED
    BY <1>0, <1>4, <2>1, <2>2, <2>3, GotoKeepsInv
       DEF ReadFile, StartedHasRequest, Running, Writing, Points, Ended, TypeOK
<1>5. CASE ScanForPurge(p)
  <2>1. /\ todo' \in [Procs -> SUBSET (Names \cup File)]
        /\ \A q \in Procs : q # p => todo'[q] = todo[q]
    BY <1>0, <1>5 DEF ScanForPurge, TypeOK, Present
  <2> QED
    BY <1>0, <1>5, <2>1, GotoKeepsInv
       DEF ScanForPurge, StartedHasRequest, Running, Writing, Points, Ended, TypeOK
<1>6. CASE Unlink(p)
  <2>1. /\ todo' \in [Procs -> SUBSET (Names \cup File)]
        /\ \A q \in Procs : q # p => todo'[q] = todo[q]
    BY <1>0, <1>6 DEF Unlink, TypeOK
  <2>2. CASE pc' # pc
    BY <1>0, <1>6, <2>1, <2>2, GotoKeepsInv
       DEF Unlink, StartedHasRequest, Running, Writing, Points, Ended, TypeOK
  <2>3. CASE pc' = pc
    <3>1. /\ temps' \subseteq temps
          /\ dir' \in [Names -> File \cup {None}]
          /\ \A n \in Names : dir'[n] \in {dir[n], None}
      BY <1>0, <1>6 DEF Unlink, TypeOK
    <3> QED
      BY <1>0, <1>6, <2>1, <2>3, <3>1, RemovalKeepsInv DEF Unlink, Writing, TypeOK
  <2> QED
    BY <2>2, <2>3
<1>7. CASE RemoveDir(p)
  BY <1>0, <1>7, GotoKeepsInv
     DEF RemoveDir, Running, Writing, Points, Ended, TypeOK
<1> QED
  BY <1>1, <1>2, <1>3, <1>4, <1>5, <1>6, <1>7 DEF OtherStep

\* So do a new process, a killed one, the kernel's write-back and a host crash.
LEMMA WorldStepInv ==
    ASSUME FilesInv,
           \/ \E p \in Procs : Kill(p) \/ \E r \in Requests : Start(p, r)
           \/ \E f \in written \ stable : WriteBack(f)
           \/ \E n \in Names : FlushEntry(n)
           \/ HostCrash
    PROVE  FilesInv'
<1> USE DEF At, Local, fsVars
<1>0. TypeOK
  BY DEF FilesInv
<1>1. ASSUME NEW p \in Procs, Kill(p) PROVE FilesInv'
  BY <1>0, <1>1, GotoKeepsInv DEF Kill, Running, Writing, Points, Ended, TypeOK
<1>2. ASSUME NEW p \in Procs, NEW r \in Requests, Start(p, r) PROVE FilesInv'
  <2>1. r \in Request /\ r # NoRequest
    BY ConstantsAssumption
  <2>2. Entry(r.op) \in {"input", "targets", "readdir", "scan"}
    BY <2>1 DEF Request, Ops, Entry
  <2>3. /\ pc'[p] = Entry(r.op) /\ job'[p] = r
        /\ \A q \in Procs : q # p => pc'[q] = pc[q] /\ job'[q] = job[q]
    BY <1>0, <1>2 DEF Start, Goto, TypeOK
  <2>4. TypeOK'
    BY <1>0, <1>2, <2>1, <2>2 DEF Start, Goto, TypeOK, Points, Running
  <2>5. \A q \in Procs : q # p => Temp(q)' = Temp(q) /\ Doc(q)' = Doc(q)
    BY <1>2, <2>3 DEF Start, Temp, Doc
  <2>6. StartedHasRequest' /\ DeleteTargetsNamed' /\ ListingVisitsNames'
    BY <1>2, <2>1, <2>2, <2>3 DEF Start, FilesInv, StartedHasRequest,
       DeleteTargetsNamed, ListingVisitsNames
  <2>7. AtDocument' /\ WriteProgress'
    BY <1>2, <2>2, <2>3, <2>5 DEF Start, FilesInv, AtDocument, WriteProgress,
       More, Writing
  <2>8. Sound(dir)' /\ Sound(durable)' /\ (stable \subseteq written)'
    BY <1>2 DEF Start, FilesInv, Sound
  <2> QED
    BY <2>4, <2>6, <2>7, <2>8 DEF FilesInv
<1>3. ASSUME NEW f \in written \ stable, WriteBack(f) PROVE FilesInv'
  <2>1. TypeOK'
    BY <1>0, <1>3 DEF WriteBack, TypeOK
  <2>2. \A q \in Procs : Temp(q)' = Temp(q)
    BY <1>3 DEF WriteBack, Temp, Doc
  <2>3. WriteProgress' /\ AtDocument'
    BY <1>3, <2>2 DEF WriteBack, FilesInv, WriteProgress, AtDocument, More, Doc
  <2> QED
    BY <1>3, <2>1, <2>3 DEF WriteBack, FilesInv, Sound, StartedHasRequest,
       DeleteTargetsNamed, ListingVisitsNames
<1>4. ASSUME NEW n \in Names, FlushEntry(n) PROVE FilesInv'
  <2>1. TypeOK'
    BY <1>0, <1>4 DEF FlushEntry, TypeOK
  <2>2. Sound(durable)'
    BY <1>0, <1>4 DEF FlushEntry, FilesInv, Sound, TypeOK
  <2>3. \A q \in Procs : Temp(q)' = Temp(q)
    BY <1>4 DEF FlushEntry, Temp, Doc
  <2>4. WriteProgress' /\ AtDocument'
    BY <1>4, <2>3 DEF FlushEntry, FilesInv, WriteProgress, AtDocument, More, Doc
  <2> QED
    BY <1>4, <2>1, <2>2, <2>4 DEF FlushEntry, FilesInv, Sound, StartedHasRequest,
       DeleteTargetsNamed, ListingVisitsNames
<1>5. CASE HostCrash
  <2>1. \A q \in Procs : pc'[q] \notin Running
    BY <1>0, <1>5 DEF HostCrash, TypeOK, Running, Writing
  <2>2. temps' \subseteq File
    BY <1>0, <1>5 DEF HostCrash, TypeOK, Present
  <2>3. crashes' \in 0..MaxCrashes
    BY <1>0, <1>5, ConstantsAssumption DEF HostCrash, TypeOK
  <2>4. pc' \in [Procs -> Points]
    BY <1>0, <1>5 DEF HostCrash, TypeOK, Points, Ended
  <2>5. TypeOK'
    BY <1>0, <1>5, <2>2, <2>3, <2>4 DEF HostCrash, TypeOK
  <2>6. Sound(dir)' /\ Sound(durable)' /\ (stable \subseteq written)'
    BY <1>5 DEF HostCrash, FilesInv, Sound
  <2> QED
    BY <2>1, <2>5, <2>6 DEF FilesInv, StartedHasRequest, AtDocument,
       DeleteTargetsNamed, ListingVisitsNames, WriteProgress, Running, Writing
<1> QED
  BY <1>1, <1>2, <1>3, <1>4, <1>5

\* FilesInv is inductive.
LEMMA StepInv == FilesInv /\ [Next]_vars => FilesInv'
<1> SUFFICES ASSUME FilesInv, [Next]_vars PROVE FilesInv'
  OBVIOUS
<1>1. CASE \E p \in Procs : Step(p)
  BY <1>1, ApplyStepInv, OtherStepInv DEF Step
<1>2. CASE UNCHANGED vars
  BY <1>2 DEF vars, FilesInv, TypeOK, StartedHasRequest, AtDocument,
     DeleteTargetsNamed, ListingVisitsNames, WriteProgress, Sound, Temp, Doc, More
<1>3. CASE Next /\ ~\E p \in Procs : Step(p)
  BY <1>3, WorldStepInv DEF Next
<1> QED
  BY <1>1, <1>2, <1>3

\* Hence it always holds.
LEMMA FilesInvariant == Spec => []FilesInv
  BY InitInv, StepInv, PTL DEF Spec

\* Every variable keeps its type: no action of runApply, runDelete, getPolicies
\* or the purge, no fault and no crash leaves the state space.
THEOREM Typing == Spec => []TypeOK
<1>1. FilesInv => TypeOK
  BY DEF FilesInv
<1> QED
  BY <1>1, FilesInvariant, PTL

\* writePolicyFile is atomic: the file behind a policy's name is one whole
\* document that carries the name, at every moment and after every crash.
THEOREM NoTornPolicy == Spec => []NeverTorn
<1>1. FilesInv => NeverTorn
  BY DEF FilesInv, Sound, NeverTorn
<1> QED
  BY <1>1, FilesInvariant, PTL

(***************************************************************************)
(* The directory implements the policy store: Rename is a Put, a delete or *)
(* an unlink of a purge a Remove, a flushed entry a Persist, a host crash  *)
(* a PowerLoss; everything else is invisible.                              *)
(***************************************************************************)
LEMMA InitRefines == Init => Store!StoreInit
<1> SUFFICES ASSUME Init PROVE Store!StoreInit
  OBVIOUS
<1>1. FilesInv
  BY InitInv
<1>2. View(dir, written) \in [Names -> Docs \cup {None}]
  BY <1>1 DEF FilesInv, TypeOK, Sound, View, File
<1>3. View(durable, stable) = View(dir, written)
  BY DEF Init
<1> QED
  BY <1>2, <1>3 DEF Store!StoreInit, Store!PolicyMap

\* Reads of whole files and writes to temporary ones are invisible.
LEMMA UnseenStep ==
    ASSUME FilesInv, UNCHANGED <<dir, durable>>, FilesInv'
    PROVE  UNCHANGED Store!storeVars
<1>1. View(dir, written)' = View(dir, written)
  BY DEF FilesInv, Sound, View
<1>2. View(durable, stable)' = View(durable, stable)
  BY DEF FilesInv, Sound, View
<1> QED
  BY <1>1, <1>2 DEF Store!storeVars

\* A name that is taken away is a Remove of the store, if it is a policy's name.
LEMMA RemovalRefines ==
    ASSUME FilesInv, FilesInv', NEW n, UNCHANGED <<durable, written, stable>>,
           dir' = [m \in Names |-> IF m = n THEN None ELSE dir[m]]
    PROVE  [Store!StoreNext]_Store!storeVars
<1>1. View(durable, stable)' = View(durable, stable)
  BY DEF View
<1>2. CASE n \in Names
  <2>1. View(dir, written)' = [View(dir, written) EXCEPT ![n] = None]
    BY DEF View
  <2>2. Store!Remove(n)
    BY <1>1, <2>1 DEF Store!Remove
  <2> QED
    BY <1>2, <2>2 DEF Store!StoreNext
<1>3. CASE n \notin Names
  BY <1>1, <1>3, UnseenStep DEF FilesInv, TypeOK, View, Store!storeVars
<1> QED
  BY <1>2, <1>3

\* The rename of a temporary file is a Put: its content has been written.
LEMMA RenameRefines ==
    ASSUME FilesInv, FilesInv', NEW p \in Procs, Rename(p)
    PROVE  [Store!StoreNext]_Store!storeVars
<1> DEFINE n == NameOf[Doc(p)]
<1>1. job[p] # NoRequest /\ More(p) /\ NamedDoc(Doc(p)) /\ Temp(p) \in written
  BY DEF Rename, At, FilesInv, AtDocument, WriteProgress, Writing
<1>2. n \in Names /\ Doc(p) \in Docs /\ Temp(p) # None /\ Temp(p).doc = Doc(p)
  BY <1>1, TempIsFile, NoneAssumption DEF NamedDoc, FilesInv, Temp
<1>3. View(dir, written)' = [View(dir, written) EXCEPT ![n] = Doc(p)]
  BY <1>1, <1>2 DEF Rename, View, FilesInv, TypeOK
<1>4. View(durable, stable)' = View(durable, stable)
  BY DEF Rename, View
<1>5. Store!Put(n, Doc(p))
  BY <1>3, <1>4 DEF Store!Put
<1> QED
  BY <1>2, <1>5 DEF Store!StoreNext

\* Every step is a step of the store or none at all.
LEMMA StepRefines ==
    FilesInv /\ FilesInv' /\ [Next]_vars => [Store!StoreNext]_Store!storeVars
<1> SUFFICES ASSUME FilesInv, FilesInv', [Next]_vars
             PROVE  [Store!StoreNext]_Store!storeVars
  OBVIOUS
<1> USE DEF Local, fsVars
<1>1. ASSUME NEW p \in Procs, ApplyStep(p), ~Rename(p)
      PROVE  [Store!StoreNext]_Store!storeVars
  BY <1>1, UnseenStep DEF ApplyStep, ReadInput, ApplyDoc, CreateTemp, Write, Chmod,
     Sync, Close, WriteFails, Cleanup
<1>2. ASSUME NEW p \in Procs, CollectTargets(p) \/ ReadDir(p) \/ ReadFile(p)
                              \/ ScanForPurge(p) \/ RemoveDir(p)
      PROVE  [Store!StoreNext]_Store!storeVars
  BY <1>2, UnseenStep DEF CollectTargets, ReadDir, ReadFile, ScanForPurge, RemoveDir
<1>3. ASSUME NEW p \in Procs, DeleteDoc(p)
      PROVE  [Store!StoreNext]_Store!storeVars
  <2>1. CASE UNCHANGED dir
    BY <1>3, <2>1, UnseenStep DEF DeleteDoc
  <2>2. CASE dir' = [dir EXCEPT ![NameOf[Doc(p)]] = None]
    <3>1. dir' = [m \in Names |-> IF m = NameOf[Doc(p)] THEN None ELSE dir[m]]
      BY <2>2 DEF FilesInv, TypeOK
    <3> QED
      BY <1>3, <3>1, RemovalRefines DEF DeleteDoc
  <2> QED
    BY <1>3, <2>1, <2>2 DEF DeleteDoc
<1>4. ASSUME NEW p \in Procs, Unlink(p)
      PROVE  [Store!StoreNext]_Store!storeVars
  <2>1. CASE UNCHANGED dir
    BY <1>4, <2>1, UnseenStep DEF Unlink
  <2>2. CASE \E e : dir' = [n \in Names |-> IF n = e THEN None ELSE dir[n]]
    BY <1>4, <2>2, RemovalRefines DEF Unlink
  <2> QED
    BY <1>4, <2>1, <2>2 DEF Unlink
<1>5. ASSUME NEW p \in Procs, Kill(p) \/ \E r \in Requests : Start(p, r)
      PROVE  [Store!StoreNext]_Store!storeVars
  BY <1>5, UnseenStep DEF Kill, Start
<1>6. ASSUME NEW f \in written \ stable, WriteBack(f)
      PROVE  [Store!StoreNext]_Store!storeVars
  BY <1>6, UnseenStep DEF WriteBack
<1>7. ASSUME NEW n \in Names, FlushEntry(n)
      PROVE  [Store!StoreNext]_Store!storeVars
  <2>1. View(dir, written)' = View(dir, written)
    BY <1>7 DEF FlushEntry, View
  <2>2. View(durable, stable)'
          = [View(durable, stable) EXCEPT ![n] = View(dir, written)[n]]
    BY <1>7 DEF FlushEntry, View, FilesInv, Sound, TypeOK
  <2> QED
    BY <2>1, <2>2 DEF Store!Persist, Store!StoreNext
<1>8. CASE HostCrash
  <2>1. View(dir, written)' = View(durable, stable)
    BY <1>8 DEF HostCrash, View, FilesInv, Sound
  <2>2. View(durable, stable)' = View(durable, stable)
    BY <1>8 DEF HostCrash, View
  <2> QED
    BY <2>1, <2>2 DEF Store!PowerLoss, Store!StoreNext
<1>9. CASE UNCHANGED vars
  BY <1>9, UnseenStep DEF vars
<1> QED
  BY <1>1, <1>2, <1>3, <1>4, <1>5, <1>6, <1>7, <1>8, <1>9, RenameRefines
     DEF Next, Step, ApplyStep, OtherStep

\* The docker-mode policy directory is a policy store: for every set of kkctl
\* processes, whatever fails, is killed or crashes, it changes one policy at a
\* time, at once, to a document of that name.
THEOREM DirectoryIsStore == Spec => StoreRefined
<1>1. Spec => []FilesInv
  BY FilesInvariant
<1> QED
  BY <1>1, InitRefines, StepRefines, PTL DEF Spec, StoreRefined, Store!StoreSpec
====
