-------------------------- MODULE BlobProvider_proofs --------------------------
(***************************************************************************)
(* Theorems about BlobProvider, for any keys, workers, processes and blobs *)
(* and for any set of faults, power loss among them.                       *)
(***************************************************************************)
EXTENDS BlobProvider, TLAPS

(* Every reachable state of the provider is well typed; no file gets the   *)
(* name before all of it is on disk.                                       *)
THEOREM TypeCorrect == Spec => []TypeOK
<1> USE BlobAssumption DEF TypeOK, Entries, Writes, Looks
<1>1. Init => TypeOK
  BY DEF Init
<1>2. TypeOK /\ [Next]_vars => TypeOK'
  <2> SUFFICES ASSUME TypeOK, [Next]_vars PROVE TypeOK'
    OBVIOUS
  <2> USE DEF Goto, EndCall, SetEntry, Reading, Found, Gone, Write, TempStep, Confirm,
              files, confirmed
  <2>1. ASSUME NEW w \in Workers, NEW k \in Keys, Get(w, k) PROVE TypeOK'
    BY <2>1 DEF Get
  <2>2. ASSUME NEW w \in Workers, NEW k \in Keys, Delete(w, k) PROVE TypeOK'
    BY <2>2 DEF Delete
  <2>3. ASSUME NEW w \in Workers, NEW k \in Keys, NEW v \in Values, Put(w, k, v)
        PROVE TypeOK'
    BY <2>3 DEF Put
  <2>4. ASSUME NEW w \in Workers, CreateTemp(w) PROVE TypeOK'
    BY <2>4 DEF CreateTemp
  <2>5. ASSUME NEW w \in Workers, WriteTemp(w) PROVE TypeOK'
    BY <2>5 DEF WriteTemp
  <2>6. ASSUME NEW w \in Workers, FsyncTemp(w) PROVE TypeOK'
    BY <2>6 DEF FsyncTemp
  <2>7. ASSUME NEW w \in Workers, Replace(w) PROVE TypeOK'
    BY <2>7 DEF Replace, Remains
  <2>8. ASSUME NEW w \in Workers, SyncDirectory(w) PROVE TypeOK'
    BY <2>8 DEF SyncDirectory
  <2>9. ASSUME NEW w \in Workers, DeleteExists(w) PROVE TypeOK'
    BY <2>9 DEF DeleteExists
  <2>10. ASSUME NEW w \in Workers, Unlink(w) PROVE TypeOK'
    BY <2>10 DEF Unlink
  <2>11. ASSUME NEW w \in Workers, GetExists(w) PROVE TypeOK'
    BY <2>11 DEF GetExists
  <2>12. ASSUME NEW w \in Workers, GetStat(w) PROVE TypeOK'
    BY <2>12 DEF GetStat
  <2>13. ASSUME NEW w \in Workers, GetOpen(w) PROVE TypeOK'
    BY <2>13 DEF GetOpen
  <2>14. ASSUME NEW w \in Workers, GetAnswer(w) PROVE TypeOK'
    BY <2>14 DEF GetAnswer
  <2>15. ASSUME NEW p \in Processes, Crash(p) PROVE TypeOK'
    BY <2>15 DEF Crash
  <2>16. CASE PowerLoss
    BY <2>16 DEF PowerLoss
  <2>17. CASE UNCHANGED vars
    BY <2>17 DEF vars
  <2> QED
    BY <2>1, <2>2, <2>3, <2>4, <2>5, <2>6, <2>7, <2>8, <2>9, <2>10, <2>11,
       <2>12, <2>13, <2>14, <2>15, <2>16, <2>17 DEF Next, Advance
<1>3. QED
  BY <1>1, <1>2, PTL DEF Spec

-----------------------------------------------------------------------------
(* A writer holds the lease of its key until its call ends.                *)
LeaseInv == \A w \in Workers : pc[w] \in Writes => lease[key[w]] = w

(* The directory shows one of the entries that may survive, and none of    *)
(* those is a damaged file.                                                *)
WholeInv ==
    \A k \in Keys : entry[k] \in disk[k] /\ Damaged \notin disk[k]

(* A reader has recorded the present entry of its key.                     *)
ReadInv ==
    \A w \in Workers :
        /\ Damaged \notin seen[w]
        /\ Reading(w) => entry[key[w]] \in seen[w]
        /\ pc[w] # "answer" => opened[w] = NoBlob
        /\ pc[w] = "answer" => opened[w] \in seen[w]

(* What a writer is about to confirm is among the attempts on its key, and *)
(* the directory shows it once only the fsync is missing.                  *)
AttemptInv ==
    \A w \in Workers :
        /\ pc[w] \in Writes => value[w] \in attempted[key[w]]
        /\ pc[w] \in {"exists", "unlink"} => value[w] = NoBlob
        /\ pc[w] = "syncdir" => entry[key[w]] = value[w]

Inv == LeaseInv /\ WholeInv /\ ReadInv /\ AttemptInv /\ ConfirmedIsDurable

(* Reads are whole and current, and confirmed outcomes survive a power     *)
(* loss: both rest on the lease, because only its holder changes the entry *)
(* of a key or clears the attempts on it.                                  *)
THEOREM InvHolds == Spec => []Inv
<1> USE BlobAssumption DEF TypeOK, Entries, Writes, Looks
<1>1. Init => Inv
  BY DEF Init, Inv, LeaseInv, WholeInv, ReadInv, Reading, AttemptInv, ConfirmedIsDurable
<1>2. TypeOK /\ Inv /\ [Next]_vars => Inv'
  <2> SUFFICES ASSUME TypeOK, Inv, [Next]_vars PROVE Inv'
    OBVIOUS
  <2> USE DEF Goto, Found, Gone, files, confirmed
  <2> USE DEF Inv, LeaseInv, WholeInv, ReadInv, Reading, AttemptInv, ConfirmedIsDurable
  <2>1. ASSUME NEW w \in Workers, NEW k \in Keys, Get(w, k) PROVE Inv'
    BY <2>1 DEF Get
  <2>2. ASSUME NEW w \in Workers, NEW k \in Keys, Delete(w, k) PROVE Inv'
    BY <2>2 DEF Delete, Write
  <2>3. ASSUME NEW w \in Workers, NEW k \in Keys, NEW v \in Values, Put(w, k, v)
        PROVE Inv'
    BY <2>3 DEF Put, Write
  <2>4. ASSUME NEW ws \in SUBSET Workers, EndCall(ws), UNCHANGED <<files, confirmed>>
        PROVE Inv'
    BY <2>4 DEF EndCall
  <2>5. ASSUME NEW w \in Workers, CreateTemp(w) PROVE Inv'
    BY <2>4, <2>5 DEF CreateTemp, TempStep
  <2>6. ASSUME NEW w \in Workers, WriteTemp(w) PROVE Inv'
    BY <2>4, <2>6 DEF WriteTemp, TempStep
  <2>7. ASSUME NEW w \in Workers, FsyncTemp(w) PROVE Inv'
    BY <2>4, <2>7 DEF FsyncTemp, TempStep
  <2>8. ASSUME NEW w \in Workers, Replace(w) PROVE Inv'
    <3>1. CASE pc[w] = "replace" /\ EndCall({w}) /\ UNCHANGED <<files, confirmed>>
      BY <2>4, <3>1
    <3>2. CASE /\ Goto(w, "replace", "syncdir")
               /\ SetEntry(key[w], value[w])
               /\ disk' = [disk EXCEPT ![key[w]] = @ \union Remains(w)]
               /\ UNCHANGED <<key, value, opened, lease, confirmed>>
      <4>1. Remains(w) = {value[w]} /\ value[w] # Damaged /\ key[w] \in Keys
        BY <3>2 DEF Remains
      <4> QED
        BY <3>2, <4>1 DEF SetEntry
    <3> QED
      BY <2>8, <3>1, <3>2 DEF Replace
  <2>9. ASSUME NEW w \in Workers, SyncDirectory(w) PROVE Inv'
    <3>1. pc[w] = "syncdir" /\ EndCall({w}) /\ UNCHANGED entry
      BY <2>9 DEF SyncDirectory
    <3>2. CASE UNCHANGED <<disk, confirmed>>
      BY <2>4, <3>1, <3>2
    <3>3. CASE disk' = [k \in Keys |-> {entry[k]}] /\ Confirm(key[w], value[w])
      <4>1. key[w] \in Keys /\ entry[key[w]] = value[w] /\ lease[key[w]] = w
        BY <3>1
      <4>2. (LeaseInv /\ WholeInv /\ ReadInv)'
        BY <3>1, <3>3 DEF EndCall
      <4>3. \A u \in Workers : u # w /\ pc[u] \in Writes => key[u] # key[w]
        BY <4>1
      <4>4. AttemptInv'
        BY <3>1, <3>3, <4>1, <4>3 DEF EndCall, Confirm
      <4>5. ConfirmedIsDurable'
        BY <3>1, <3>3, <4>1 DEF Confirm
      <4> QED
        BY <4>2, <4>4, <4>5
    <3> QED
      BY <2>9, <3>2, <3>3 DEF SyncDirectory
  <2>10. ASSUME NEW w \in Workers, DeleteExists(w) PROVE Inv'
    BY <2>4, <2>10 DEF DeleteExists
  <2>11. ASSUME NEW w \in Workers, Unlink(w) PROVE Inv'
    BY <2>4, <2>11 DEF Unlink, SetEntry
  <2>12. ASSUME NEW w \in Workers, GetExists(w) PROVE Inv'
    BY <2>12 DEF GetExists
  <2>13. ASSUME NEW w \in Workers, GetStat(w) PROVE Inv'
    BY <2>4, <2>13 DEF GetStat
  <2>14. ASSUME NEW w \in Workers, GetOpen(w) PROVE Inv'
    BY <2>4, <2>14 DEF GetOpen
  <2>15. ASSUME NEW w \in Workers, GetAnswer(w) PROVE Inv'
    BY <2>4, <2>15 DEF GetAnswer
  <2>16. ASSUME NEW p \in Processes, Crash(p) PROVE Inv'
    BY <2>4, <2>16 DEF Crash
  <2>17. CASE PowerLoss
    BY <2>17 DEF PowerLoss, EndCall
  <2>18. CASE UNCHANGED vars
    BY <2>18 DEF vars
  <2> QED
    BY <2>1, <2>2, <2>3, <2>5, <2>6, <2>7, <2>8, <2>9, <2>10, <2>11, <2>12,
       <2>13, <2>14, <2>15, <2>16, <2>17, <2>18 DEF Next, Advance
<1>3. QED
  BY <1>1, <1>2, TypeCorrect, PTL DEF Spec

(* A read without the lease answers with a blob stored whole, or with      *)
(* None, at some moment of the call.                                       *)
THEOREM WholeReads == Spec => []ReadsAreWhole
<1>1. TypeOK /\ Inv => ReadsAreWhole
  BY DEF Inv, ReadInv, ReadsAreWhole
<1>2. QED
  BY <1>1, InvHolds, TypeCorrect, PTL

(* A power loss leaves the last confirmed outcome of a key, or one that    *)
(* was tried after it.                                                     *)
THEOREM Durable == Spec => []ConfirmedIsDurable
<1>1. Inv => ConfirmedIsDurable
  BY DEF Inv
<1>2. QED
  BY <1>1, InvHolds, PTL

=============================================================================
