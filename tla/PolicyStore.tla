---- MODULE PolicyStore ----
(***************************************************************************)
(* What the docker-mode policy directory promises to everyone who looks at *)
(* it (`kkctl get policies`, the agent's policy loader): a map from policy *)
(* names to whole documents, changed one name at a time and at once.  The  *)
(* host may lose power; the map then falls back to what had reached the    *)
(* disk, which again is a map to whole documents.                          *)
(* PolicyFiles implements this specification with files.                   *)
(***************************************************************************)
CONSTANTS Names,    \* policy names
          Docs,     \* policy documents
          NameOf,   \* NameOf[d]: the metadata.name a document carries
          NoDoc     \* stands for "no such policy"

VARIABLES store,    \* name -> the document a reader sees
          saved     \* name -> the document a power loss leaves behind

storeVars == <<store, saved>>

PolicyMap == [Names -> Docs \cup {NoDoc}]

StoreInit == /\ store \in PolicyMap
             /\ saved = store

\* A document is only ever stored under its own name.
Put(n, d) == /\ NameOf[d] = n
             /\ store' = [store EXCEPT ![n] = d]
             /\ UNCHANGED saved

Remove(n) == /\ store' = [store EXCEPT ![n] = NoDoc]
             /\ UNCHANGED saved

Persist(n) == /\ saved' = [saved EXCEPT ![n] = store[n]]
              /\ UNCHANGED store

PowerLoss == /\ store' = saved
             /\ UNCHANGED saved

StoreNext == \/ \E n \in Names : Remove(n) \/ Persist(n)
             \/ \E n \in Names, d \in Docs : Put(n, d)
             \/ PowerLoss

StoreSpec == StoreInit /\ [][StoreNext]_storeVars
====
