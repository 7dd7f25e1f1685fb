------------------------------- MODULE QuotaRead -------------------------------
(***************************************************************************)
(* get_quota_snapshot for one subject: QuotaService, alone or wrapped in   *)
(* RecoveringQuotaService, and the answer the MCP transport makes of it.   *)
(*                                                                         *)
(* A read checks without the lease that a credential exists, materializes  *)
(* it under the lease, lets Codex read the limits, saves what Codex left   *)
(* and normalizes the result.  Every step may raise; the wrapper maps the  *)
(* exception to a retry, a demand to reconnect or an unavailability.       *)
(* Meanwhile other reads run, the user revokes or connects, and the        *)
(* upstream service spends a refresh token when it hands out the next.     *)
(***************************************************************************)
EXTENDS Naturals

CONSTANTS
    Readers,     \* request threads
    MaxRetries,  \* max_transient_retries
    Faults       \* which of the failures in FaultKinds may happen

(*   lease    a login in progress keeps the lease beyond the wait          *)
(*   io       an OSError: disk, lock file, socket of the crypto helper,    *)
(*            race of get_bytes with a delete                              *)
(*   crypto   the crypto helper answers with an error                      *)
(*   codex    Codex is slow, dies or answers with an error                 *)
(*   spoil    Codex leaves no valid auth.json behind                       *)
(*   payload  the answer of Codex cannot be normalized                     *)
(*   logout   the account ends its sessions upstream                       *)
(*   rotate   the stored bytes are no longer readable: damage, new key     *)
FaultKinds == {"lease", "io", "crypto", "codex", "spoil", "payload", "logout", "rotate"}

NoReader == "no reader"

ASSUME QuotaReadAssumption ==
    /\ MaxRetries \in 0..1
    /\ NoReader \notin Readers
    /\ Faults \subseteq FaultKinds

VARIABLES
    recovering, \* the service is wrapped in RecoveringQuotaService
    pc,         \* pc[r] : the next step of reader r
    attempts,   \* attempts[r] : retries of its call so far
    copy,       \* copy[r] : the credential in its temporary home
    error,      \* error[r] : the class of the exception that propagates
    outcome,    \* outcome[r] : what the service returned or raised
    seen,       \* seen[r] : what was stored since its attempt began
    stored,     \* the subject's sealed credential
    lease       \* the reader that holds the subject's lease

call == <<attempts, outcome>>
vars == <<recovering, pc, attempts, copy, error, outcome, seen, stored, lease>>

(* A stored credential is fresh while the upstream service would refresh   *)
(* its token, and spent after it handed out the next one.                  *)
Usable == {"fresh", "spent"}
Stored == Usable \union {"none", "unreadable"}

(* Exceptions, by the way classify_recovery tells them apart:              *)
(*   unbound   AuthorizationRequired      gone      SealedAuthNotFound     *)
(*   corrupt   InvalidAuthBlob            rejected  CodexProtocolError     *)
(*   protocol  other CodexProtocolError             with a marker          *)
(*   timeout   CodexProtocolTimeout       io        OSError                *)
(*   exited    RuntimeError of a dead Codex                                *)
(*   busy      SubjectLeaseTimeout        other     any other exception    *)
Reconnect == {"unbound", "gone", "corrupt", "rejected"}
Transient == {"timeout", "io", "exited"}
Final     == {"protocol", "busy", "other"}
Errors    == Reconnect \union Transient \union Final

Outcomes == {"snapshot", "AuthorizationRequired", "ReauthorizationRequired",
             "QuotaTemporarilyUnavailable", "exception"}

Init ==
    /\ recovering \in BOOLEAN
    /\ pc = [r \in Readers |-> "idle"]
    /\ attempts = [r \in Readers |-> 0]
    /\ copy = [r \in Readers |-> "none"]
    /\ error = [r \in Readers |-> "none"]
    /\ outcome = [r \in Readers |-> "none"]
    /\ seen = [r \in Readers |-> {}]
    /\ stored \in Stored
    /\ lease = NoReader

-----------------------------------------------------------------------------
Fault(kind) == kind \in Faults

Goto(r, from, to) ==
    /\ pc[r] = from
    /\ pc' = [pc EXCEPT ![r] = to]

(* The with blocks remove the home and release the lease.                  *)
Unwind(r) ==
    /\ copy' = [copy EXCEPT ![r] = "none"]
    /\ lease' = IF lease = r THEN NoReader ELSE lease

Raise(r, e) ==
    /\ pc' = [pc EXCEPT ![r] = "failed"]
    /\ error' = [error EXCEPT ![r] = e]
    /\ Unwind(r)

(* The stored credential becomes x; attempts under way may have met it.    *)
Store(x) ==
    /\ stored' = x
    /\ seen' = [r \in Readers |-> IF pc[r] = "idle" THEN {} ELSE seen[r] \union {x}]

Keep == UNCHANGED <<stored, seen>>

Call(r) ==
    /\ Goto(r, "idle", "exists")
    /\ seen' = [seen EXCEPT ![r] = {stored}]
    /\ UNCHANGED <<recovering, attempts, copy, error, outcome, stored, lease>>

(* Mutant: the existence check is left to materialize.                     *)
ExistsUnchecked(r) ==
    /\ Goto(r, "exists", "lease")
    /\ UNCHANGED <<recovering, call, copy, error, stored, seen, lease>>

(* auth_store.exists, without the lease.                                   *)
Exists(r) ==
    /\ pc[r] = "exists"
    /\ \/ stored # "none" /\ Goto(r, "exists", "lease") /\ UNCHANGED <<copy, error, lease>>
       \/ stored = "none" /\ Raise(r, "unbound")
       \/ Fault("io") /\ Raise(r, "io")
    /\ Keep /\ UNCHANGED <<recovering, call>>

(* Only a failed attempt looks at the deadline; before the first one the   *)
(* lock file has to be opened.                                             *)
TakeLease(r) ==
    /\ pc[r] = "lease"
    /\ \/ /\ lease = NoReader
          /\ Goto(r, "lease", "load")
          /\ lease' = r
          /\ UNCHANGED <<copy, error>>
       \/ (lease # NoReader \/ Fault("lease")) /\ Raise(r, "busy")
       \/ Fault("io") /\ Raise(r, "io")
    /\ Keep /\ UNCHANGED <<recovering, call>>

(* materialize up to its yield.  A blob that does not open makes the       *)
(* crypto provider raise, one that opens to no JSON object fails           *)
(* validation.                                                             *)
Load(r) ==
    /\ pc[r] = "load"
    /\ \/ /\ stored \in Usable
          /\ Goto(r, "load", "body")
          /\ copy' = [copy EXCEPT ![r] = stored]
          /\ UNCHANGED <<error, lease>>
       \/ stored = "none" /\ Raise(r, "gone")
       \/ stored = "unreadable" /\ \E e \in {"corrupt", "other"} : Raise(r, e)
       \/ Fault("io") /\ Raise(r, "io")
       \/ Fault("crypto") /\ Raise(r, "other")
    /\ Keep /\ UNCHANGED <<recovering, call>>

(* Codex refreshes the token: the stored one is spent from here on.        *)
Refresh(r) ==
    /\ pc[r] = "body"
    /\ copy[r] = "fresh"
    /\ stored = "fresh"
    /\ Store("spent")
    /\ UNCHANGED <<recovering, pc, call, copy, error, lease>>

(* What read_rate_limits may raise: a spent token is refused, in words     *)
(* classify_recovery knows or in others.                                   *)
BodyErrors(r) ==
    (IF copy[r] = "spent" THEN {"rejected", "protocol"} ELSE {})
      \union (IF Fault("codex") THEN Transient \union {"protocol"} ELSE {})

(* The access token may outlive a spent refresh token.                     *)
Body(r) ==
    /\ pc[r] = "body"
    /\ \/ Goto(r, "body", "save") /\ UNCHANGED <<copy, error, lease>>
       \/ \E e \in BodyErrors(r) : Raise(r, e)
    /\ Keep /\ UNCHANGED <<recovering, call>>

(* The normal exit of materialize.  put_bytes may raise after it has       *)
(* replaced the blob.                                                      *)
Save(r) ==
    /\ pc[r] = "save"
    /\ \/ Goto(r, "save", "normalize") /\ Unwind(r) /\ Store(copy[r]) /\ UNCHANGED error
       \/ Fault("spoil") /\ Raise(r, "corrupt") /\ stored' = stored
          /\ seen' = [seen EXCEPT ![r] = @ \union {"spoiled"}]
       \/ Fault("crypto") /\ Raise(r, "other") /\ Keep
       \/ Fault("io") /\ Raise(r, "io") /\ (Keep \/ Store(copy[r]))
    /\ UNCHANGED <<recovering, call>>

(* normalize_rate_limits, after the lease is released.                     *)
Normalize(r) ==
    /\ pc[r] = "normalize"
    /\ \/ /\ Goto(r, "normalize", "answered")
          /\ outcome' = [outcome EXCEPT ![r] = "snapshot"]
          /\ UNCHANGED <<copy, error, lease>>
       \/ Fault("payload") /\ Raise(r, "other") /\ UNCHANGED outcome
    /\ Keep /\ UNCHANGED <<recovering, attempts>>

(* Mutant: every protocol error counts as a rejection.                     *)
DecisionAnyProtocol(e) ==
    IF e \in Reconnect \union {"protocol"} THEN "ReauthorizationRequired"
    ELSE "QuotaTemporarilyUnavailable"

(* classify_recovery, once no retry is left.                               *)
Decision(e) ==
    IF e \in Reconnect THEN "ReauthorizationRequired" ELSE "QuotaTemporarilyUnavailable"

(* Without the wrapper the exception reaches the transport as it is.       *)
Bare(e) == IF e = "unbound" THEN "AuthorizationRequired" ELSE "exception"

(* Mutant: the retries are not counted.                                    *)
RetryAgain(r) ==
    /\ recovering /\ error[r] \in Transient
    /\ Goto(r, "failed", "exists")
    /\ error' = [error EXCEPT ![r] = "none"]
    /\ seen' = [seen EXCEPT ![r] = {stored}]
    /\ UNCHANGED <<recovering, attempts, copy, outcome, stored, lease>>

Retry(r) ==
    /\ recovering /\ error[r] \in Transient /\ attempts[r] < MaxRetries
    /\ Goto(r, "failed", "exists")
    /\ attempts' = [attempts EXCEPT ![r] = @ + 1]
    /\ error' = [error EXCEPT ![r] = "none"]
    /\ seen' = [seen EXCEPT ![r] = {stored}]
    /\ UNCHANGED <<recovering, copy, outcome, stored, lease>>

GiveUp(r) ==
    /\ ~(recovering /\ error[r] \in Transient /\ attempts[r] < MaxRetries)
    /\ Goto(r, "failed", "answered")
    /\ outcome' = [outcome EXCEPT
                     ![r] = IF recovering THEN Decision(error[r]) ELSE Bare(error[r])]
    /\ UNCHANGED <<recovering, attempts, copy, error, seen, stored, lease>>

Return(r) ==
    /\ Goto(r, "answered", "idle")
    /\ attempts' = [attempts EXCEPT ![r] = 0]
    /\ error' = [error EXCEPT ![r] = "none"]
    /\ outcome' = [outcome EXCEPT ![r] = "none"]
    /\ seen' = [seen EXCEPT ![r] = {}]
    /\ UNCHANGED <<recovering, copy, stored, lease>>

(* The user connects or revokes; both wait for the lease.  begin has seen  *)
(* no credential, but that was before its login: one may be stored by now, *)
(* and is replaced.                                                        *)
Connect ==
    /\ lease = NoReader
    /\ Store("fresh")
    /\ UNCHANGED <<recovering, pc, call, copy, error, lease>>

Revoke ==
    /\ stored # "none" /\ lease = NoReader
    /\ Store("none")
    /\ UNCHANGED <<recovering, pc, call, copy, error, lease>>

Logout ==
    /\ Fault("logout")
    /\ stored \in Usable
    /\ Store("spent")
    /\ copy' = [r \in Readers |-> IF copy[r] = "fresh" THEN "spent" ELSE copy[r]]
    /\ UNCHANGED <<recovering, pc, call, error, lease>>

Rotate ==
    /\ Fault("rotate")
    /\ stored \in Usable
    /\ Store("unreadable")
    /\ UNCHANGED <<recovering, pc, call, copy, error, lease>>

Advance(r) ==
    \/ Exists(r) \/ TakeLease(r) \/ Load(r) \/ Body(r) \/ Save(r) \/ Normalize(r)
    \/ Retry(r) \/ GiveUp(r) \/ Return(r)

Next ==
    \/ \E r \in Readers : Call(r) \/ Refresh(r) \/ Advance(r)
    \/ Connect \/ Revoke \/ Logout \/ Rotate

(* Every wait of a read has a deadline: the lease, the crypto helper and   *)
(* the requests to Codex.                                                  *)
Spec == Init /\ [][Next]_vars /\ \A r \in Readers : WF_vars(Advance(r))

-----------------------------------------------------------------------------
(* dispatch_tool_call: the error code a ChatGPT client acts on.            *)
Dispatch(o) ==
    CASE o = "snapshot" -> "OK"
      [] o = "AuthorizationRequired" -> "QUOTA_AUTH_REQUIRED"
      [] OTHER -> "QUOTA_UNAVAILABLE"

(* The variables range over what their comments say, and a credential is   *)
(* loaded, used and saved only under the lease.                            *)
TypeOK ==
    /\ recovering \in BOOLEAN
    /\ pc \in [Readers -> {"idle", "exists", "lease", "load", "body", "save",
                           "normalize", "failed", "answered"}]
    /\ attempts \in [Readers -> 0..MaxRetries]
    /\ copy \in [Readers -> Usable \union {"none"}]
    /\ \A r \in Readers : copy[r] # "none" => pc[r] \in {"body", "save"}
    /\ \A r \in Readers : pc[r] \in {"load", "body", "save"} => lease = r
    /\ error \in [Readers -> Errors \union {"none"}]
    /\ outcome \in [Readers -> Outcomes \union {"none"}]
    /\ seen \in [Readers -> SUBSET (Stored \union {"spoiled"})]
    /\ stored \in Stored
    /\ lease \in Readers \union {NoReader}

(* A user is sent to reconnect only when the last attempt met no usable    *)
(* credential: a slow or dead Codex, a busy lease or a broken helper never *)
(* costs a working connection, even after the retry and with another       *)
(* reader, a revoke or a login in between (classify_recovery).             *)
ReauthIsJustified ==
    \A r \in Readers :
        outcome[r] = "ReauthorizationRequired" =>
            seen[r] \intersect {"none", "unreadable", "spent", "spoiled"} # {}

(* A subject that had no credential throughout the call is asked to        *)
(* connect: with QUOTA_AUTH_REQUIRED by the plain service, with            *)
(* ReauthorizationRequired by the wrapper.                                 *)
MissingIsReported ==
    \A r \in Readers :
        outcome[r] # "none" /\ seen[r] = {"none"} /\ error[r] # "io" =>
            \/ Dispatch(outcome[r]) = "QUOTA_AUTH_REQUIRED"
            \/ recovering /\ outcome[r] = "ReauthorizationRequired"

(* Every read is answered: the single retry does not become a loop.        *)
EveryReadAnswers ==
    \A r \in Readers : pc[r] = "exists" ~> pc[r] = "idle"

=============================================================================
