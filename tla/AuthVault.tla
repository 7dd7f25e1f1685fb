------------------------------ MODULE AuthVault ------------------------------
(***************************************************************************)
(* The credential vault of the Plugin: SealedSubjectAuthStore behind       *)
(* LeaseProtectedAuthStore, over a blob provider with atomic replacement.  *)
(*                                                                         *)
(* Worker threads in several processes authorize a subject, read its quota *)
(* or revoke it.  An operation takes the subject's lease, then works in    *)
(* several steps: load and open the sealed blob, make a temporary          *)
(* CODEX_HOME, write auth.json into it, let Codex use (and refresh) it,    *)
(* validate and seal the result, save it, remove the home, give the lease  *)
(* back.  Any step may raise, and a process may die between any two.       *)
(***************************************************************************)
CONSTANTS
    Subjects,   \* authenticated Plugin users (one opaque subject key each)
    Workers,    \* threads that call the store
    Processes,  \* operating-system processes they run in
    ProcessOf,  \* ProcessOf[w] : the process of worker w
    Tokens,     \* refresh tokens the upstream service may hand out (bound)
    NoBlob,     \* load() returns None
    Unreadable, \* stored bytes that open() or validation refuses
    NoAuth,     \* auth.json missing, empty, too large or no JSON object
    Faults      \* which of the failures in FaultKinds may happen

(* Failures of the environment a step can meet:                            *)
(*   lockfile the lock file of the lease cannot be opened                  *)
(*   open     the crypto provider refuses or is down when opening          *)
(*   mkhome   mkdtemp raises             write  writing auth.json raises   *)
(*   body     Codex, the network or a cancellation raises in the with body *)
(*   spoil    Codex leaves no valid auth.json behind                       *)
(*   seal     the crypto provider is down when sealing                     *)
(*   put      the blob provider raises, nothing changed                    *)
(*   sync     the blob provider raises after os.replace or unlink          *)
(*   rmtree   the home cannot be removed (ignore_errors=True)              *)
(*   crash    a process dies                                               *)
FaultKinds == {"lockfile", "open", "mkhome", "write", "body", "spoil", "seal",
               "put", "sync", "rmtree", "crash"}

NoWorker  == "no worker"
NoSubject == "no subject"

ASSUME VaultAssumption ==
    /\ ProcessOf \in [Workers -> Processes]
    /\ NoWorker \notin Workers
    /\ NoSubject \notin Subjects
    /\ {NoBlob, Unreadable, NoAuth} \intersect Tokens = {}
    /\ Faults \subseteq FaultKinds

VARIABLES
    pc,       \* pc[w] : the next step of worker w
    op,       \* op[w] : the operation it runs
    subj,     \* subj[w] : the subject it runs it for
    auth,     \* auth[w] : the plaintext in its memory, later in its auth.json
    home,     \* home[w] : it has a temporary CODEX_HOME to remove
    failed,   \* failed[w] : an exception is propagating
    entry,    \* entry[w] : what was stored when it got the lease
    lease,    \* lease[s] : the worker that holds the lease of subject s
    blob,     \* blob[s] : the sealed blob stored for s
    orphans,  \* how temporary homes were left that no operation will remove
    minted,   \* tokens the upstream service has handed out
    unspent,  \* those it would still refresh
    granted   \* granted[s] : tokens handed to s since its last revocation

call     == <<op, subj, entry>>
stores   == <<lease, blob, orphans>>
upstream == <<minted, unspent, granted>>
vars     == <<pc, op, subj, auth, home, failed, entry, lease, blob, orphans,
              minted, unspent, granted>>

Ops == {"authorize", "read", "revoke"}

(* The steps an operation takes while it holds the lease.                  *)
InLease == {"load", "mkhome", "write", "body", "seal", "save", "delete",
            "cleanup", "release"}

Stored == Tokens \union {NoBlob, Unreadable}

Init ==
    /\ pc = [w \in Workers |-> "idle"]
    /\ op = [w \in Workers |-> "none"]
    /\ subj = [w \in Workers |-> NoSubject]
    /\ auth = [w \in Workers |-> NoAuth]
    /\ home = [w \in Workers |-> FALSE]
    /\ failed = [w \in Workers |-> FALSE]
    /\ entry = [w \in Workers |-> NoBlob]
    /\ lease = [s \in Subjects |-> NoWorker]
    /\ blob \in [Subjects -> {NoBlob, Unreadable}]
    /\ orphans = {}
    /\ minted = {}
    /\ unspent = {}
    /\ granted = [s \in Subjects |-> {}]

-----------------------------------------------------------------------------
Goto(w, from, to) ==
    /\ pc[w] = from
    /\ pc' = [pc EXCEPT ![w] = to]
    /\ UNCHANGED failed

(* The step raises; the exception unwinds to the step `to`.                *)
Raise(w, from, to) ==
    /\ pc[w] = from
    /\ pc' = [pc EXCEPT ![w] = to]
    /\ failed' = [failed EXCEPT ![w] = TRUE]

Fault(kind) == kind \in Faults

(* Mutant: a wait that timed out releases the lease it never got.          *)
FreedAnyway(ws) ==
    [s \in Subjects |-> IF \E w \in ws : subj[w] = s THEN NoWorker ELSE lease[s]]

(* The finally of the lease releases what was acquired, and no more; so    *)
(* does the kernel when a process dies.                                    *)
Freed(ws) == [s \in Subjects |-> IF lease[s] \in ws THEN NoWorker ELSE lease[s]]

(* How a temporary home may be left behind: writing auth.json raised, which *)
(* is before the try block; rmtree removed nothing; its process died; its  *)
(* call was over.                                                          *)
Leaks == {"write", "rmtree", "crash", "over"}

Abandon(w, how) ==
    /\ home' = [home EXCEPT ![w] = FALSE]
    /\ orphans' = orphans \union {how}

(* The calls of these workers are over; a home they still have is left     *)
(* behind with no one to remove it.                                        *)
EndCall(ws, how) ==
    /\ pc' = [w \in Workers |-> IF w \in ws THEN "idle" ELSE pc[w]]
    /\ op' = [w \in Workers |-> IF w \in ws THEN "none" ELSE op[w]]
    /\ subj' = [w \in Workers |-> IF w \in ws THEN NoSubject ELSE subj[w]]
    /\ auth' = [w \in Workers |-> IF w \in ws THEN NoAuth ELSE auth[w]]
    /\ home' = [w \in Workers |-> IF w \in ws THEN FALSE ELSE home[w]]
    /\ failed' = [w \in Workers |-> IF w \in ws THEN FALSE ELSE failed[w]]
    /\ entry' = [w \in Workers |-> IF w \in ws THEN NoBlob ELSE entry[w]]
    /\ lease' = Freed(ws)
    /\ orphans' = orphans \union {x \in {how} : \E w \in ws : home[w]}

(* A thread calls authorization_session, materialize or revoke.            *)
Call(w, s, o) ==
    /\ Goto(w, "idle", "lease")
    /\ op' = [op EXCEPT ![w] = o]
    /\ subj' = [subj EXCEPT ![w] = s]
    /\ UNCHANGED <<auth, home, entry, stores, upstream>>

FirstStep == [authorize |-> "mkhome", read |-> "load", revoke |-> "delete"]

(* Mutant: no mutual exclusion.                                            *)
AcquireShared(w) ==
    LET s == subj[w] IN
    /\ Goto(w, "lease", FirstStep[op[w]])
    /\ lease' = [lease EXCEPT ![s] = w]
    /\ entry' = [entry EXCEPT ![w] = blob[s]]
    /\ UNCHANGED <<op, subj, auth, home, blob, orphans, upstream>>

(* Mutant: revoke does not take the lease.                                 *)
AcquireNotForRevoke(w) ==
    LET s == subj[w] IN
    /\ Goto(w, "lease", FirstStep[op[w]])
    /\ \/ op[w] = "revoke" /\ UNCHANGED lease
       \/ lease[s] = NoWorker /\ lease' = [lease EXCEPT ![s] = w]
    /\ entry' = [entry EXCEPT ![w] = blob[s]]
    /\ UNCHANGED <<op, subj, auth, home, blob, orphans, upstream>>

Acquire(w) ==
    LET s == subj[w] IN
    /\ Goto(w, "lease", FirstStep[op[w]])
    /\ lease[s] = NoWorker
    /\ lease' = [lease EXCEPT ![s] = w]
    /\ entry' = [entry EXCEPT ![w] = blob[s]]
    /\ UNCHANGED <<op, subj, auth, home, blob, orphans, upstream>>

(* Mutant: the deadline moves with every attempt.                          *)
LeaseWaitsForever(w) ==
    /\ pc[w] = "lease"
    /\ lease[subj[w]] # NoWorker
    /\ UNCHANGED vars

(* Mutant: on a timeout the operation goes on unprotected.                 *)
LeaseTimeoutIgnored(w) ==
    /\ Goto(w, "lease", FirstStep[op[w]])
    /\ lease[subj[w]] # NoWorker
    /\ UNCHANGED <<call, auth, home, stores, upstream>>

(* Only a failed attempt looks at the deadline.                            *)
LeaseTimeout(w) ==
    /\ pc[w] = "lease"
    /\ lease[subj[w]] # NoWorker \/ Fault("lockfile")
    /\ EndCall({w}, "over")
    /\ UNCHANGED <<blob, upstream>>

(* materialize: load, open and validate the sealed blob.                   *)
Load(w) ==
    LET stored == blob[subj[w]] IN
    /\ \/ /\ Goto(w, "load", "mkhome")
          /\ stored \in Tokens
          /\ auth' = [auth EXCEPT ![w] = stored]
       \/ /\ Raise(w, "load", "release")
          /\ stored \notin Tokens \/ Fault("open")
          /\ UNCHANGED auth
    /\ UNCHANGED <<call, home, stores, upstream>>

MakeHome(w) ==
    /\ \/ /\ Goto(w, "mkhome", IF op[w] = "read" THEN "write" ELSE "body")
          /\ home' = [home EXCEPT ![w] = TRUE]
       \/ /\ Fault("mkhome")
          /\ Raise(w, "mkhome", "release")
          /\ UNCHANGED home
    /\ UNCHANGED <<call, auth, stores, upstream>>

(* materialize writes auth.json before its try block: an exception here    *)
(* skips the rmtree.                                                       *)
WriteAuth(w) ==
    /\ \/ Goto(w, "write", "body") /\ UNCHANGED <<home, orphans>>
       \/ Fault("write") /\ Raise(w, "write", "release") /\ Abandon(w, "write")
    /\ UNCHANGED <<call, auth, lease, blob, upstream>>

(* The with body: Codex works in the home and rewrites auth.json.          *)
Mint(s, t, old) ==
    /\ t \in Tokens \ minted
    /\ minted' = minted \union {t}
    /\ unspent' = (unspent \ old) \union {t}
    /\ granted' = [granted EXCEPT ![s] = @ \union {t}]

Rewrite(w, content) ==
    /\ Goto(w, "body", "body")
    /\ auth' = [auth EXCEPT ![w] = content]
    /\ UNCHANGED <<call, home, stores>>

BodyLogin(w) ==
    /\ op[w] = "authorize"
    /\ auth[w] = NoAuth
    /\ \E t \in Tokens : Rewrite(w, t) /\ Mint(subj[w], t, {})

BodyRefresh(w) ==
    /\ auth[w] \in unspent
    /\ \E t \in Tokens : Rewrite(w, t) /\ Mint(subj[w], t, {auth[w]})

BodySpoil(w) ==
    /\ Fault("spoil")
    /\ auth[w] # NoAuth
    /\ Rewrite(w, NoAuth)
    /\ UNCHANGED upstream

(* Mutant: the reseal is in a finally.                                     *)
BodyEndAlwaysSeals(w) ==
    /\ \/ Goto(w, "body", "seal")
       \/ Fault("body") /\ Raise(w, "body", "seal")
    /\ UNCHANGED <<call, auth, home, stores, upstream>>

BodyEnd(w) ==
    /\ \/ Goto(w, "body", "seal")
       \/ Fault("body") /\ Raise(w, "body", "cleanup")
    /\ UNCHANGED <<call, auth, home, stores, upstream>>

(* Mutant: sealing happens after the try block.                            *)
SealOutsideTry(w) ==
    /\ \/ auth[w] \in Tokens /\ Goto(w, "seal", "save")
       \/ (auth[w] = NoAuth \/ Fault("seal")) /\ Raise(w, "seal", "release")
    /\ UNCHANGED <<call, auth, home, stores, upstream>>

(* Normal exit of the body: auth.json is read back, validated and sealed.  *)
Seal(w) ==
    /\ \/ auth[w] \in Tokens /\ Goto(w, "seal", "save")
       \/ (auth[w] = NoAuth \/ Fault("seal")) /\ Raise(w, "seal", "cleanup")
    /\ UNCHANGED <<call, auth, home, stores, upstream>>

(* put_bytes raises before os.replace, or after it in the directory fsync. *)
Put(w) == blob' = [blob EXCEPT ![subj[w]] = auth[w]]

(* Mutant: the error of the blob provider is swallowed.                    *)
SaveSwallowsError(w) ==
    /\ \/ Goto(w, "save", "cleanup") /\ Put(w)
       \/ Fault("put") /\ Goto(w, "save", "cleanup") /\ UNCHANGED blob
    /\ UNCHANGED <<call, auth, home, lease, orphans, upstream>>

Save(w) ==
    /\ \/ Goto(w, "save", "cleanup") /\ Put(w)
       \/ Fault("sync") /\ Raise(w, "save", "cleanup") /\ Put(w)
       \/ Fault("put") /\ Raise(w, "save", "cleanup") /\ UNCHANGED blob
    /\ UNCHANGED <<call, auth, home, lease, orphans, upstream>>

(* delete answers False when there is nothing to delete.                   *)
Unlink(w) ==
    /\ blob' = [blob EXCEPT ![subj[w]] = NoBlob]
    /\ granted' = [granted EXCEPT ![subj[w]] = {}]

Delete(w) ==
    /\ \/ Goto(w, "delete", "release") /\ Unlink(w)
       \/ /\ Fault("sync") /\ Raise(w, "delete", "release")
          /\ blob[subj[w]] # NoBlob /\ Unlink(w)
       \/ Fault("put") /\ Raise(w, "delete", "release") /\ UNCHANGED <<blob, granted>>
    /\ UNCHANGED <<call, auth, home, lease, orphans, minted, unspent>>

(* rmtree(ignore_errors=True) never raises, whether or not it removes.     *)
Cleanup(w) ==
    /\ Goto(w, "cleanup", "release")
    /\ \/ home' = [home EXCEPT ![w] = FALSE] /\ UNCHANGED orphans
       \/ Fault("rmtree") /\ Abandon(w, "rmtree")
    /\ UNCHANGED <<call, auth, lease, blob, upstream>>

(* Mutant: the lease is given back only when the call succeeded.           *)
ReleaseOnSuccess(w) ==
    /\ pc[w] = "release"
    /\ \/ ~failed[w] /\ EndCall({w}, "over") /\ UNCHANGED <<blob, upstream>>
       \/ failed[w] /\ Goto(w, "release", "idle")
          /\ UNCHANGED <<call, auth, home, stores, upstream>>

(* The finally of the lease gives it back and the call returns or raises.  *)
Release(w) ==
    /\ pc[w] = "release"
    /\ EndCall({w}, "over")
    /\ UNCHANGED <<blob, upstream>>

(* A process dies with its threads; the kernel drops its flocks.           *)
Crash(p) ==
    LET dead == {w \in Workers : ProcessOf[w] = p} IN
    /\ Fault("crash")
    /\ \E w \in dead : pc[w] # "idle"
    /\ EndCall(dead, "crash")
    /\ UNCHANGED <<blob, upstream>>

(* The steps that carry a call to its end.                                 *)
Advance(w) ==
    \/ Acquire(w) \/ LeaseTimeout(w) \/ Load(w) \/ MakeHome(w) \/ WriteAuth(w)
    \/ BodyEnd(w) \/ Seal(w) \/ Save(w) \/ Delete(w) \/ Cleanup(w) \/ Release(w)

Next ==
    \/ \E w \in Workers :
        \/ \E s \in Subjects, o \in Ops : Call(w, s, o)
        \/ Advance(w)
        \/ BodyLogin(w) \/ BodyRefresh(w) \/ BodySpoil(w)
    \/ \E p \in Processes : Crash(p)

Spec == Init /\ [][Next]_vars

(* Every step of the store is a bounded call, and the callers bound the    *)
(* with body (read and authorization timeouts), so a thread that is not    *)
(* killed keeps advancing.                                                 *)
FairSpec == Spec /\ \A w \in Workers : WF_vars(Advance(w))

-----------------------------------------------------------------------------
Busy(w) == pc[w] \in InLease

(* The variables range over what their comments say; in particular what is *)
(* stored is a sealed token, Unreadable bytes or nothing.                  *)
TypeOK ==
    /\ pc \in [Workers -> InLease \union {"idle", "lease"}]
    /\ op \in [Workers -> Ops \union {"none"}]
    /\ subj \in [Workers -> Subjects \union {NoSubject}]
    /\ \A w \in Workers : pc[w] # "idle" => op[w] \in Ops /\ subj[w] \in Subjects
    /\ auth \in [Workers -> Tokens \union {NoAuth}]
    /\ \A w \in Workers : pc[w] = "save" => auth[w] \in Tokens
    /\ home \in [Workers -> BOOLEAN]
    /\ failed \in [Workers -> BOOLEAN]
    /\ entry \in [Workers -> Stored]
    /\ lease \in [Subjects -> Workers \union {NoWorker}]
    /\ blob \in [Subjects -> Stored]
    /\ orphans \subseteq Leaks
    /\ minted \subseteq Tokens
    /\ unspent \subseteq minted
    /\ granted \in [Subjects -> SUBSET minted]

(* Two operations never work on one subject's credential at a time, across *)
(* authorize, read and revoke and across processes that crash: the lease   *)
(* of LeaseProtectedAuthStore covers the whole of each delegate call.      *)
Exclusive ==
    \A w, v \in Workers :
        Busy(w) /\ Busy(v) /\ subj[w] = subj[v] => w = v

(* A held lease has a running operation of its own subject behind it: no   *)
(* exception, timeout or crash leaves a lease nobody will give back, and a *)
(* subject is never locked out by an operation of another one.             *)
NoAbandonedLease ==
    \A s \in Subjects :
        lease[s] # NoWorker => Busy(lease[s]) /\ subj[lease[s]] = s

(* A stored credential is only ever replaced by one that Codex did not     *)
(* spend meanwhile: a slow read cannot put back the token that another     *)
(* read has already refreshed (materialize's reseal, lines 261-265).       *)
NoLostRefresh ==
    [][\A s \in Subjects :
         blob'[s] # blob[s] /\ blob'[s] \in Tokens => blob'[s] \in unspent]_vars

(* What an operation stores was granted to that very subject since the     *)
(* last deletion of its credential: neither a read nor an authorization    *)
(* that was in flight can bring a revoked credential back, and no          *)
(* subject's credential lands under another's key.                         *)
NoResurrection ==
    [][\A s \in Subjects :
         blob'[s] # blob[s] /\ blob'[s] \in Tokens => blob'[s] \in granted[s]]_vars

(* When an operation returns normally the vault holds its outcome until it *)
(* lets go of the lease: nothing after a revoke, what Codex left after an  *)
(* authorization or a read.                                                *)
AcknowledgedIsStored ==
    \A w \in Workers :
        pc[w] = "release" /\ ~failed[w] =>
            blob[subj[w]] = IF op[w] = "revoke" THEN NoBlob ELSE auth[w]

(* An operation that raised leaves the vault as it found it.  It holds as  *)
(* long as the blob provider does not raise after os.replace or unlink.    *)
FailureChangesNothing ==
    \A w \in Workers :
        Busy(w) /\ failed[w] => blob[subj[w]] = entry[w]

(* A call that returns or raises takes its temporary home with it, whatever *)
(* else fails on the way.  Three things leave a home behind, and no other: *)
(* rmtree removes nothing, the process dies, or auth.json cannot be        *)
(* written: materialize makes and fills the home before its try block      *)
(* (lines 254-259), so that its docstring, "removed in all cases", is not  *)
(* true of that error.                                                     *)
NoOrphanedHome == orphans \subseteq {"write", "rmtree", "crash"}

(* Every call of a thread returns: it gets the lease or times out, and a   *)
(* step that raises still leads it out of the lease.                       *)
EveryCallReturns ==
    \A w \in Workers : pc[w] # "idle" ~> pc[w] = "idle"

(* The vault is a register per subject that only changes by a login, a     *)
(* refresh, a store of a live grant or a revocation.                       *)
Register ==
    INSTANCE CredentialRegister
        WITH Subjects <- Subjects, Tokens <- Tokens, NoBlob <- NoBlob,
             Unreadable <- Unreadable, blob <- blob, minted <- minted,
             unspent <- unspent, granted <- granted
ImplementsRegister == Register!Spec

=============================================================================
