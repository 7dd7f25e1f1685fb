----------------------------- MODULE BlobProvider -----------------------------
(***************************************************************************)
(* HardenedAtomicFileBlobProvider: one file per subject key in one         *)
(* directory, replaced through a temporary file.                           *)
(*                                                                         *)
(* put_bytes and delete are called under the subject's lease; get_bytes is *)
(* also called without it (exists), so a reader looks, stats, opens and    *)
(* reads a file that is being replaced or removed.  A process may die      *)
(* between two system calls.  After a power loss the directory holds, for  *)
(* each key, any entry it had since the last fsync of the directory, and a *)
(* file that was not fsynced has any content.                              *)
(***************************************************************************)
CONSTANTS
    Keys,       \* object keys, one per subject
    Workers,    \* threads that call the provider
    Processes,  \* operating-system processes they run in
    ProcessOf,  \* ProcessOf[w] : the process of worker w
    Values,     \* sealed blobs that may be stored
    NoBlob,     \* the key has no file
    Damaged,    \* an empty or partly written file
    Faults      \* which of the failures in FaultKinds may happen

(*   create   the directory or the temporary file cannot be made           *)
(*   write    the temporary file cannot be written or fsynced              *)
(*   replace  os.replace or unlink raises                                  *)
(*   sync     the directory cannot be opened or fsynced                    *)
(*   crash    a process dies            power  the host loses power        *)
FaultKinds == {"create", "write", "replace", "sync", "crash", "power"}

NoWorker == "no worker"
NoKey    == "no key"

ASSUME BlobAssumption ==
    /\ ProcessOf \in [Workers -> Processes]
    /\ NoWorker \notin Workers
    /\ NoKey \notin Keys
    /\ NoBlob # Damaged
    /\ {NoBlob, Damaged} \intersect Values = {}
    /\ Faults \subseteq FaultKinds

VARIABLES
    pc,        \* pc[w] : the next step of worker w
    key,       \* key[w] : the key of its call
    value,     \* value[w] : what its call wants stored, NoBlob for a delete
    temp,      \* temp[w] : its temporary file
    opened,    \* opened[w] : the file its read opened, later its answer
    seen,      \* seen[w] : every entry of the key since its read began
    entry,     \* entry[k] : the file the directory shows for k
    disk,      \* disk[k] : the entries a power loss may leave for k
    lease,     \* lease[k] : the worker that may write k
    acked,     \* acked[k] : the last outcome a call on k has confirmed
    attempted  \* attempted[k] : the outcomes tried since

files     == <<entry, disk>>
confirmed == <<acked, attempted>>
vars      == <<pc, key, value, temp, opened, seen, entry, disk, lease, acked,
               attempted>>

Entries == Values \union {NoBlob, Damaged}
Writes  == {"create", "write", "fsync", "replace", "exists", "unlink", "syncdir"}
Looks   == {"look", "stat", "open", "answer"}

Init ==
    /\ pc = [w \in Workers |-> "idle"]
    /\ key = [w \in Workers |-> NoKey]
    /\ value = [w \in Workers |-> NoBlob]
    /\ temp = [w \in Workers |-> "none"]
    /\ opened = [w \in Workers |-> NoBlob]
    /\ seen = [w \in Workers |-> {}]
    /\ entry = [k \in Keys |-> NoBlob]
    /\ disk = [k \in Keys |-> {NoBlob}]
    /\ lease = [k \in Keys |-> NoWorker]
    /\ acked = [k \in Keys |-> NoBlob]
    /\ attempted = [k \in Keys |-> {}]

-----------------------------------------------------------------------------
Fault(kind) == kind \in Faults

Goto(w, from, to) ==
    /\ pc[w] = from
    /\ pc' = [pc EXCEPT ![w] = to]

Reading(w) == pc[w] \in Looks

(* The calls of these workers return, raise or die, and their leases are   *)
(* given back.                                                             *)
EndCall(ws) ==
    /\ pc' = [w \in Workers |-> IF w \in ws THEN "idle" ELSE pc[w]]
    /\ value' = [w \in Workers |-> IF w \in ws THEN NoBlob ELSE value[w]]
    /\ temp' = [w \in Workers |-> IF w \in ws THEN "none" ELSE temp[w]]
    /\ opened' = [w \in Workers |-> IF w \in ws THEN NoBlob ELSE opened[w]]
    /\ key' = [w \in Workers |-> IF w \in ws THEN NoKey ELSE key[w]]
    /\ seen' = [w \in Workers |-> IF w \in ws THEN {} ELSE seen[w]]
    /\ lease' = [k \in Keys |-> IF lease[k] \in ws THEN NoWorker ELSE lease[k]]

(* The directory shows x for k; readers of k may have seen it.             *)
SetEntry(k, x) ==
    /\ entry' = [entry EXCEPT ![k] = x]
    /\ seen' = [r \in Workers |-> IF Reading(r) /\ key[r] = k THEN seen[r] \union {x}
                            ELSE seen[r]]

(* LeaseProtectedAuthStore calls save and delete under the lease.          *)
Write(w, k, x, first) ==
    /\ Goto(w, "idle", first)
    /\ lease[k] = NoWorker
    /\ lease' = [lease EXCEPT ![k] = w]
    /\ key' = [key EXCEPT ![w] = k]
    /\ value' = [value EXCEPT ![w] = x]
    /\ attempted' = [attempted EXCEPT ![k] = @ \union {x}]
    /\ UNCHANGED <<temp, opened, seen, files, acked>>

Put(w, k, v) == Write(w, k, v, "create")

(* A step on the temporary file.  One that raises ends the call, after     *)
(* unlinking a temporary file that exists.                                 *)
TempStep(w, from, to, state, fault) ==
    /\ \/ /\ Goto(w, from, to)
          /\ temp' = [temp EXCEPT ![w] = state]
          /\ UNCHANGED <<key, value, opened, seen, lease>>
       \/ pc[w] = from /\ Fault(fault) /\ EndCall({w})
    /\ UNCHANGED <<files, confirmed>>

CreateTemp(w) == TempStep(w, "create", "write", "partial", "create")
WriteTemp(w)  == TempStep(w, "write", "fsync", "whole", "write")

FsyncTemp(w) == TempStep(w, "fsync", "replace", "synced", "write")

(* What a power loss may make of the temporary file once it has the name.  *)
Remains(w) == IF temp[w] = "synced" THEN {value[w]} ELSE {value[w], Damaged}

(* Mutant: the blob is written into the target itself.                     *)
ReplaceInPlace(w) ==
    LET k == key[w] IN
    /\ pc[w] = "replace"
    /\ \/ entry[k] # Damaged /\ SetEntry(k, Damaged) /\ UNCHANGED pc
       \/ entry[k] = Damaged /\ SetEntry(k, value[w]) /\ Goto(w, "replace", "syncdir")
    /\ disk' = [disk EXCEPT ![k] = @ \union {entry'[k]}]
    /\ UNCHANGED <<key, value, temp, opened, lease, confirmed>>

(* os.replace; when it raises the temporary file stays behind.             *)
Replace(w) ==
    LET k == key[w] IN
    /\ \/ /\ Goto(w, "replace", "syncdir")
          /\ SetEntry(k, value[w])
          /\ disk' = [disk EXCEPT ![k] = @ \union Remains(w)]
          /\ temp' = [temp EXCEPT ![w] = "none"]
          /\ UNCHANGED <<key, value, opened, lease>>
       \/ pc[w] = "replace" /\ Fault("replace") /\ EndCall({w}) /\ UNCHANGED files
    /\ UNCHANGED confirmed

Confirm(k, x) ==
    /\ acked' = [acked EXCEPT ![k] = x]
    /\ attempted' = [attempted EXCEPT ![k] = {}]

(* Mutant: put_bytes and delete return without fsync of the directory.     *)
ConfirmUnsynced(w) ==
    /\ pc[w] = "syncdir"
    /\ EndCall({w})
    /\ Confirm(key[w], value[w])
    /\ UNCHANGED files

(* fsync of the directory settles the entries of all its keys; then        *)
(* put_bytes returns, and delete returns True.                             *)
SyncDirectory(w) ==
    /\ pc[w] = "syncdir"
    /\ EndCall({w})
    /\ \/ disk' = [k \in Keys |-> {entry[k]}] /\ Confirm(key[w], value[w])
       \/ Fault("sync") /\ UNCHANGED <<disk, confirmed>>
    /\ UNCHANGED entry

Delete(w, k) == Write(w, k, NoBlob, "exists")

(* The file is there at this step, or it is not.                           *)
Found(w, from, to) == Goto(w, from, to) /\ entry[key[w]] # NoBlob
Gone(w, from)      == pc[w] = from /\ entry[key[w]] = NoBlob

(* delete answers False when there is no file, and confirms nothing.       *)
DeleteExists(w) ==
    /\ \/ Found(w, "exists", "unlink")
          /\ UNCHANGED <<key, value, temp, opened, seen, lease>>
       \/ Gone(w, "exists") /\ EndCall({w})
    /\ UNCHANGED <<files, confirmed>>

(* lstat finds the regular file, which the lease keeps in place; unlink.   *)
Unlink(w) ==
    LET k == key[w] IN
    /\ \/ /\ Goto(w, "unlink", "syncdir")
          /\ SetEntry(k, NoBlob)
          /\ disk' = [disk EXCEPT ![k] = @ \union {NoBlob}]
          /\ UNCHANGED <<key, value, temp, opened, lease>>
       \/ pc[w] = "unlink" /\ Fault("replace") /\ EndCall({w}) /\ UNCHANGED files
    /\ UNCHANGED confirmed

(* get_bytes, from exists() without the lease or from load under it.       *)
Get(w, k) ==
    /\ Goto(w, "idle", "look")
    /\ key' = [key EXCEPT ![w] = k]
    /\ seen' = [seen EXCEPT ![w] = {entry[k]}]
    /\ UNCHANGED <<value, temp, opened, lease, files, confirmed>>

(* exists() sees a file, or get_bytes answers None.                        *)
GetExists(w) ==
    /\ \/ Found(w, "look", "stat")
       \/ Gone(w, "look") /\ Goto(w, "look", "answer")
    /\ UNCHANGED <<key, value, temp, opened, seen, lease, files, confirmed>>

(* A file that is removed after exists() makes lstat or open raise         *)
(* FileNotFoundError.                                                      *)
GetStat(w) ==
    /\ \/ Found(w, "stat", "open") /\ UNCHANGED <<key, value, temp, opened, seen, lease>>
       \/ Gone(w, "stat") /\ EndCall({w})
    /\ UNCHANGED <<files, confirmed>>

(* Replacing or removing the name does not touch the file that is open.    *)
GetOpen(w) ==
    /\ \/ /\ Found(w, "open", "answer")
          /\ opened' = [opened EXCEPT ![w] = entry[key[w]]]
          /\ UNCHANGED <<key, value, temp, seen, lease>>
       \/ Gone(w, "open") /\ EndCall({w})
    /\ UNCHANGED <<files, confirmed>>

GetAnswer(w) ==
    /\ pc[w] = "answer"
    /\ EndCall({w})
    /\ UNCHANGED <<files, confirmed>>

(* A process dies; the file system does not notice.                        *)
Crash(p) ==
    LET dead == {w \in Workers : ProcessOf[w] = p} IN
    /\ Fault("crash")
    /\ \E w \in dead : pc[w] # "idle"
    /\ EndCall(dead)
    /\ UNCHANGED <<files, confirmed>>

(* After a power loss the directory is what happens to be on disk.         *)
PowerLoss ==
    /\ Fault("power")
    /\ EndCall(Workers)
    /\ entry' \in [Keys -> UNION {disk[k] : k \in Keys}]
    /\ \A k \in Keys : entry'[k] \in disk[k]
    /\ disk' = [k \in Keys |-> {entry'[k]}]
    /\ UNCHANGED confirmed

Advance(w) ==
    \/ CreateTemp(w) \/ WriteTemp(w) \/ FsyncTemp(w) \/ Replace(w) \/ SyncDirectory(w)
    \/ DeleteExists(w) \/ Unlink(w)
    \/ GetExists(w) \/ GetStat(w) \/ GetOpen(w) \/ GetAnswer(w)

Next ==
    \/ \E w \in Workers :
        \/ \E k \in Keys : Get(w, k) \/ Delete(w, k) \/ \E v \in Values : Put(w, k, v)
        \/ Advance(w)
    \/ \E p \in Processes : Crash(p)
    \/ PowerLoss

Spec == Init /\ [][Next]_vars

-----------------------------------------------------------------------------
(* The variables range over what their comments say; in particular only a  *)
(* file that is whole and on disk is about to get the name.                *)
TypeOK ==
    /\ pc \in [Workers -> Writes \union Looks \union {"idle"}]
    /\ key \in [Workers -> Keys \union {NoKey}]
    /\ \A w \in Workers : pc[w] # "idle" => key[w] \in Keys
    /\ value \in [Workers -> Values \union {NoBlob}]
    /\ temp \in [Workers -> {"none", "partial", "whole", "synced"}]
    /\ \A w \in Workers : pc[w] = "replace" => temp[w] = "synced"
    /\ opened \in [Workers -> Entries]
    /\ seen \in [Workers -> SUBSET Entries]
    /\ entry \in [Keys -> Entries]
    /\ disk \in [Keys -> SUBSET Entries]
    /\ lease \in [Keys -> Workers \union {NoWorker}]
    /\ acked \in [Keys -> Values \union {NoBlob}]
    /\ attempted \in [Keys -> SUBSET (Values \union {NoBlob})]

(* A read without the lease answers with a blob that was stored whole, or  *)
(* with None, at some moment of the call: never with a half written one    *)
(* and never with one that was already replaced when the call began, also  *)
(* after a power loss.                                                     *)
ReadsAreWhole ==
    \A w \in Workers :
        pc[w] = "answer" => opened[w] \in seen[w] /\ opened[w] # Damaged

(* What a power loss may leave of a key is the last outcome a put or a     *)
(* delete has confirmed or one tried after it: a confirmed refresh is not  *)
(* rolled back to the token it spent and a confirmed revocation stays.     *)
ConfirmedIsDurable ==
    \A k \in Keys : disk[k] \subseteq {acked[k]} \union attempted[k]

=============================================================================
