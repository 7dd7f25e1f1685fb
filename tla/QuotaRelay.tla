------------------------------ MODULE QuotaRelay ------------------------------
(***************************************************************************)
(* The quota relay and the macOS companion: pairing, claim and push.       *)
(*                                                                         *)
(* A companion starts a pairing, opens its URL in the browser and polls;   *)
(* in the browser a subject claims the pairing; the companion then saves   *)
(* installation id and device token in the keychain and pushes with them.  *)
(* Workers serve the calls, each with a RelayStore of its own on the one   *)
(* SQLite file.  A write that raises leaves the transaction of its         *)
(* connection open: nothing in the relay rolls back.                       *)
(***************************************************************************)
EXTENDS Integers, FiniteSets

CONSTANTS
    Workers,
    Companions,
    Subjects,
    None,         \* no subject
    MaxPairing,   \* pairings started (bound)
    MaxPolls      \* 150 in pollPairing

ASSUME RelayAssumption ==
    /\ None \notin Subjects
    /\ MaxPairing \in Nat
    /\ MaxPolls \in Nat

VARIABLES
    status,   \* pairings.status, "none" before start_pairing
    claimed,  \* pairings.claimed_subject_id
    bound,    \* subjects.installation_id; an installation has its pairing's number
    fed,      \* installations with a snapshot
    expired,  \* pairings past expires_at
    lock,     \* what the open transaction of a worker's connection holds
    pending,  \* claims written in that transaction and not committed
    job,      \* the claim a worker has read the pairing row for
    told,     \* the installation a claim has answered to the subject
    busy,     \* history: SQLite has answered "database is locked"
    ui,       \* the companion's main thread
    session,  \* its pairing
    tries,    \* pollAttempts
    key,      \* the keychain
    loaded    \* the ids that the pushes which run have loaded from it

relay     == <<status, claimed, bound, fed, expired, lock, pending, job, told, busy>>
companion == <<ui, session, tries, key, loaded>>
vars      == <<status, claimed, bound, fed, expired, lock, pending, job, told, busy,
               ui, session, tries, key, loaded>>

Pairings == 1..MaxPairing
Ids      == 0..MaxPairing   \* 0 for none
Idle     == <<None, 0>>

TypeOK ==
    /\ status \in [Pairings -> {"none", "pending", "claimed"}]
    /\ claimed \in [Pairings -> Subjects \union {None}]
    /\ bound \in [Subjects -> Ids]
    /\ fed \subseteq Pairings
    /\ expired \subseteq Pairings
    /\ lock \in [Workers -> {"none", "open", "shared", "reserved"}]
    /\ pending \in [Workers -> SUBSET (Subjects \X Pairings)]
    /\ job \in [Workers -> (Subjects \X Pairings) \union {Idle}]
    /\ told \in [Subjects -> Ids]
    /\ busy \in BOOLEAN
    /\ ui \in [Companions -> {"ready", "starting", "polling", "saving"}]
    /\ session \in [Companions -> Ids]
    /\ tries \in [Companions -> 0..MaxPolls]
    /\ key \in [Companions -> [id : Ids, token : Ids]]
    /\ loaded \in [Companions -> SUBSET Pairings]

Init ==
    /\ status = [p \in Pairings |-> "none"]
    /\ claimed = [p \in Pairings |-> None]
    /\ bound = [s \in Subjects |-> 0]
    /\ fed = {}
    /\ expired = {}
    /\ lock = [w \in Workers |-> "none"]
    /\ pending = [w \in Workers |-> {}]
    /\ job = [w \in Workers |-> Idle]
    /\ told = [s \in Subjects |-> 0]
    /\ busy = FALSE
    /\ ui = [m \in Companions |-> "ready"]
    /\ session = [m \in Companions |-> 0]
    /\ tries = [m \in Companions |-> 0]
    /\ key = [m \in Companions |-> [id |-> 0, token |-> 0]]
    /\ loaded = [m \in Companions |-> {}]

-----------------------------------------------------------------------------
(* SQLite under the sqlite3 module: a write opens a transaction and needs  *)
(* the reserved lock, a read inside it takes a shared one, and a commit    *)
(* waits in vain for every other connection that keeps a shared lock.      *)
(* So two workers can lock each other out for good: one refuses a claim    *)
(* (reserved), the other one finds the database locked and then reads.     *)

Others(w) == Workers \ {w}

CanWrite(w)  == \A v \in Others(w) : lock[v] # "reserved"
CanCommit(w) == \A v \in Others(w) : lock[v] # "shared"

Holds(w, what) == lock' = [lock EXCEPT ![w] = what]

Read(w) == Holds(w, IF lock[w] = "open" THEN "shared" ELSE lock[w])

(* What commit makes of the claims that were written and the new pairings. *)
Apply(claims, starts) ==
    /\ status' = [p \in Pairings |->
                     IF p \in starts THEN "pending"
                     ELSE IF \E s \in Subjects : <<s, p>> \in claims THEN "claimed"
                     ELSE status[p]]
    /\ claimed' = [p \in Pairings |->
                     IF \E s \in Subjects : <<s, p>> \in claims
                     THEN CHOOSE s \in Subjects : <<s, p>> \in claims
                     ELSE claimed[p]]
    /\ bound' = [s \in Subjects |->
                     IF \E p \in Pairings : <<s, p>> \in claims
                     THEN CHOOSE p \in Pairings : <<s, p>> \in claims
                     ELSE bound[s]]

(* Mutant: the commit is left to a later write.                            *)
CommittedLater(w, claims, starts) ==
    /\ CanWrite(w)
    /\ Holds(w, "reserved")
    /\ Apply({}, starts)
    /\ pending' = [pending EXCEPT ![w] = @ \union claims]
    /\ UNCHANGED busy

(* A write and its commit: they succeed together with all that the open    *)
(* transaction already holds, or the transaction stays open.               *)
Committed(w, claims, starts) ==
    /\ CanWrite(w)
    /\ CanCommit(w)
    /\ Holds(w, "none")
    /\ Apply(pending[w] \union claims, starts)
    /\ pending' = [pending EXCEPT ![w] = {}]
    /\ UNCHANGED busy

(* "database is locked"                                                    *)
Locked(w, claims, lockAfter) ==
    /\ ~(CanWrite(w) /\ CanCommit(w))
    /\ Holds(w, IF CanWrite(w) THEN "reserved" ELSE lockAfter)
    /\ pending' = [pending EXCEPT ![w] = @ \union (IF CanWrite(w) THEN claims ELSE {})]
    /\ busy' = TRUE
    /\ UNCHANGED <<status, claimed, bound>>

(* Of two commits the second one fails, after a write or at it.  Where the *)
(* first one has no claims to commit, it is Locked in another order.       *)
CommittedHalf(w) ==
    /\ pending[w] # {}
    /\ CanWrite(w)
    /\ CanCommit(w)
    /\ \E lockAfter \in {"open", "reserved"} : Holds(w, lockAfter)
    /\ Apply(pending[w], {})
    /\ pending' = [pending EXCEPT ![w] = {}]
    /\ busy' = TRUE

Opened(w) == IF lock[w] = "none" THEN "open" ELSE lock[w]

-----------------------------------------------------------------------------
(* claim_pairing, in two steps: the row is read, then it is written.       *)

Seen(w, p) == {s \in Subjects : <<s, p>> \in pending[w] \/ claimed[p] = s}

(* A claim that is already the subject's own is answered again; that of    *)
(* another one and an expired one are refused, after the same read.        *)
Refused(w, s, p) == IF Seen(w, p) = {} THEN p \in expired ELSE s \notin Seen(w, p)

ClaimRead(w, s, p) ==
    /\ job[w] = Idle
    /\ status[p] # "none"
    /\ \/ s \in Seen(w, p) /\ told' = [told EXCEPT ![s] = p] /\ UNCHANGED job
       \/ /\ Seen(w, p) = {}
          /\ p \notin expired
          /\ job' = [job EXCEPT ![w] = <<s, p>>]
          /\ UNCHANGED told
       \/ Refused(w, s, p) /\ UNCHANGED <<told, job>>
    /\ Read(w)
    /\ UNCHANGED <<status, claimed, bound, fed, expired, pending, busy, companion>>

(* Mutant: INSERT OR REPLACE INTO subjects.                                *)
UniqueInstallation(w, s, p) ==
    /\ \A t \in Subjects : bound[t] # p
    /\ \A claim \in pending[w] : claim[1] # s /\ claim[2] # p

(* Mutant: installation_id without UNIQUE.                                 *)
UniqueSubject(w, s, p) == bound[s] = 0 /\ \A claim \in pending[w] : claim[1] # s

(* subject_id is the primary key of subjects, installation_id is unique.   *)
Unique(w, s, p) ==
    /\ bound[s] = 0
    /\ \A t \in Subjects : bound[t] # p
    /\ \A claim \in pending[w] : claim[1] # s /\ claim[2] # p

ClaimWrite(w) ==
    \E s \in Subjects, p \in Pairings :
        /\ job[w] = <<s, p>>
        /\ job' = [job EXCEPT ![w] = Idle]
        /\ \/ /\ Unique(w, s, p)
              /\ Committed(w, {<<s, p>>}, {})
              /\ told' = [told EXCEPT ![s] = p]
           \/ /\ Unique(w, s, p) \/ ~CanWrite(w)
              /\ Locked(w, {<<s, p>>}, Opened(w))
              /\ UNCHANGED told
           \/ /\ ~Unique(w, s, p) /\ CanWrite(w)   \* SUBJECT_ALREADY_BOUND
              /\ Holds(w, "reserved")
              /\ UNCHANGED <<status, claimed, bound, pending, told, busy>>
        /\ UNCHANGED <<fed, expired, companion>>

(* Any other read, as that of a snapshot for the chat: it finds what it    *)
(* finds, and its shared lock stays where a transaction is open.           *)
ReadOnly(w) ==
    /\ Read(w)
    /\ UNCHANGED <<status, claimed, bound, fed, expired, pending, job, told, busy, companion>>

(* A worker dies: SQLite rolls its transaction back.                       *)
Restart(w) ==
    /\ Holds(w, "none")
    /\ pending' = [pending EXCEPT ![w] = {}]
    /\ job' = [job EXCEPT ![w] = Idle]
    /\ UNCHANGED <<status, claimed, bound, fed, expired, told, busy, companion>>

Expire(p) ==
    /\ status[p] # "none"
    /\ expired' = expired \union {p}
    /\ UNCHANGED <<status, claimed, bound, fed, lock, pending, job, told, busy, companion>>

-----------------------------------------------------------------------------
(* The companion's main thread.                                            *)

Ui(m, state)     == ui' = [ui EXCEPT ![m] = state]
Session(m, p)    == session' = [session EXCEPT ![m] = p]
Save(m, what, p) == key' = [key EXCEPT ![m][what] = p]

Unstarted == {p \in Pairings : status[p] = "none"}

ConnectPressed(m) ==
    /\ ui[m] = "ready"
    /\ Unstarted # {}
    /\ Ui(m, "starting")
    /\ UNCHANGED <<relay, session, tries, key, loaded>>

NoPairing(m) == Ui(m, "ready") /\ UNCHANGED <<session, tries>>

(* start_pairing on some worker: it commits the installation, then the     *)
(* pairing.  A pairing whose answer is lost stays PENDING; one that is not *)
(* committed is known to nobody and left out.                              *)
StartPairing(m) ==
    /\ ui[m] = "starting"
    /\ \/ \E w \in Workers, p \in Unstarted :
             /\ \A q \in Unstarted : p <= q
             /\ Committed(w, {}, {p})
             /\ \/ Ui(m, "polling") /\ Session(m, p) /\ tries' = [tries EXCEPT ![m] = 0]
                \/ NoPairing(m)
       \/ \E w \in Workers :
             (CommittedHalf(w) \/ Locked(w, {}, Opened(w))) /\ NoPairing(m)
       \/ /\ NoPairing(m)   \* the relay was not reached
          /\ UNCHANGED <<status, claimed, bound, lock, pending, busy>>
    /\ UNCHANGED <<fed, expired, job, told, key, loaded>>

(* Mutant: the connect button stays disabled.                              *)
GiveUpSilently(m) ==
    /\ ui[m] = "polling"
    /\ tries[m] = MaxPolls
    /\ Session(m, 0)
    /\ UNCHANGED <<relay, ui, tries, key, loaded>>

(* After the last attempt the pairing is forgotten.                        *)
GiveUp(m) ==
    /\ ui[m] = "polling"
    /\ tries[m] = MaxPolls
    /\ Session(m, 0)
    /\ Ui(m, "ready")
    /\ UNCHANGED <<relay, tries, key, loaded>>

SavedId(m) ==
    \/ Save(m, "id", session[m]) /\ Ui(m, "saving")
    \/ Save(m, "id", 0) /\ Ui(m, "ready")

(* pairing_status on some worker.  PENDING, an expired pairing and a call  *)
(* that fails are asked again.                                             *)
IsClaimed(w, m) == Seen(w, session[m]) # {}

Poll(m) ==
    /\ ui[m] = "polling"
    /\ tries[m] < MaxPolls
    /\ tries' = [tries EXCEPT ![m] = @ + 1]
    /\ \/ \E w \in Workers :
             /\ Read(w)
             /\ IF IsClaimed(w, m) THEN SavedId(m) ELSE UNCHANGED <<ui, key>>
       \/ UNCHANGED <<lock, ui, key>>
    /\ UNCHANGED <<status, claimed, bound, fed, expired, pending, job, told, busy,
                   session, loaded>>

(* A save deletes the old value first.  If it fails, polling just stops.   *)
SaveToken(m) ==
    /\ ui[m] = "saving"
    /\ Ui(m, "ready")
    /\ \/ Save(m, "token", session[m]) /\ Session(m, 0)
       \/ Save(m, "token", 0) /\ UNCHANGED session
    /\ UNCHANGED <<relay, tries, loaded>>

(* The app ends, at any point; the keychain stays.                         *)
Quit(m) ==
    /\ ui[m] # "ready"
    /\ Ui(m, "ready")
    /\ Session(m, 0)
    /\ loaded' = [loaded EXCEPT ![m] = {}]
    /\ UNCHANGED <<relay, tries, key>>

(* refreshAndPush, on background threads, for the timer, the button and a  *)
(* new pairing at once: each loads the id, then the token while the main   *)
(* thread may be saving others; put_snapshot reads which token belongs to  *)
(* the id before it writes.                                                *)
LoadId(m) ==
    /\ key[m].id # 0
    /\ loaded' = [loaded EXCEPT ![m] = @ \union {key[m].id}]
    /\ UNCHANGED <<relay, ui, session, tries, key>>

(* The end of a push: another one that loaded the same id may still run.   *)
Push(m) ==
    \E id \in loaded[m] :
        /\ loaded' \in {loaded, [loaded EXCEPT ![m] = @ \ {id}]}
        /\ \E w \in Workers :
              IF key[m].token = id
                THEN \/ Committed(w, {}, {}) /\ fed' = fed \union {id}
                     \/ /\ Locked(w, {}, IF lock[w] = "open" THEN "shared" ELSE Opened(w))
                        /\ UNCHANGED fed
                ELSE Read(w) /\ UNCHANGED <<status, claimed, bound, fed, pending, busy>>
        /\ UNCHANGED <<expired, job, told, ui, session, tries, key>>

-----------------------------------------------------------------------------
Step(m) == StartPairing(m) \/ Poll(m) \/ GiveUp(m) \/ SaveToken(m)

Next ==
    \/ \E w \in Workers : \/ ClaimWrite(w)
                          \/ ReadOnly(w)
                          \/ Restart(w)
                          \/ \E s \in Subjects, p \in Pairings : ClaimRead(w, s, p)
    \/ \E p \in Pairings : Expire(p)
    \/ \E m \in Companions : \/ ConnectPressed(m) \/ Step(m) \/ Quit(m)
                             \/ LoadId(m) \/ Push(m)

Spec == Init /\ [][Next]_vars

(* The calls of a companion time out and its timers fire.                  *)
FairSpec == Spec /\ \A m \in Companions : WF_vars(Step(m))

-----------------------------------------------------------------------------
(* The two tables agree: a pairing is CLAIMED by exactly the subject that  *)
(* is bound to its installation, and no two subjects share one, however    *)
(* the claims of several workers interleave, fail and roll back.           *)
BindingsAgree ==
    /\ \A p \in Pairings : status[p] = "claimed" <=> claimed[p] # None
    /\ \A p \in Pairings, s \in Subjects : claimed[p] = s <=> bound[s] = p

(* A binding is for good: no later claim, of the same subject or the same  *)
(* pairing, by whatever worker, takes an installation from its subject.    *)
BindingIsForGood ==
    [][\A s \in Subjects : bound[s] # 0 => bound'[s] = bound[s]]_vars

(* What was answered is not taken back by a failed commit or a dying       *)
(* worker: a subject that was told its installation has it, and whatever a *)
(* companion saved as claimed, and so pushes under, is read by some        *)
(* subject.  Only once SQLite has answered "database is locked" can a      *)
(* worker tell what it has not committed.                                  *)
ToldIsBound == \A s \in Subjects : told[s] # 0 => bound[s] = told[s]

FedIsRead ==
    \A p \in Pairings :
        p \in fed \/ (\E m \in Companions : key[m].id = p)
            => \E s \in Subjects : bound[s] = p

AnswersAreKept == busy \/ (ToldIsBound /\ FedIsRead)

(* A companion that starts a pairing always comes back to the user.        *)
EveryPairingEnds == \A m \in Companions : ui[m] # "ready" ~> ui[m] = "ready"
=============================================================================
