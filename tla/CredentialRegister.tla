------------------------- MODULE CredentialRegister -------------------------
(***************************************************************************)
(* What the credential vault promises, with no leases, temporary homes,    *)
(* workers or faults in it: one register per subject holding the sealed    *)
(* Codex credential, which changes only by one of the steps below.         *)
(*                                                                         *)
(* A credential is identified by the refresh token inside auth.json.       *)
(* The upstream service hands out a token when a subject logs in and       *)
(* replaces it when Codex refreshes it; a replaced token is spent and      *)
(* worthless.  The promise is that whatever is put in a register was       *)
(* granted to that subject since its last revocation and is not spent.     *)
(***************************************************************************)
CONSTANTS
    Subjects,   \* authenticated Plugin users
    Tokens,     \* refresh tokens the upstream service may hand out
    NoBlob,     \* the subject has no stored credential
    Unreadable  \* stored bytes that do not open under the subject's AAD

VARIABLES
    blob,       \* blob[s] : the credential stored for subject s
    minted,     \* tokens the upstream service has handed out
    unspent,    \* those it would still refresh
    granted     \* granted[s] : tokens handed to s since its last revocation

registerVars == <<blob, minted, unspent, granted>>

Init ==
    /\ blob \in [Subjects -> {NoBlob, Unreadable}]
    /\ minted = {}
    /\ unspent = {}
    /\ granted = [s \in Subjects |-> {}]

(* A new token t is handed to subject s; the tokens in old are spent.      *)
Mint(s, t, old) ==
    /\ t \in Tokens \ minted
    /\ minted' = minted \union {t}
    /\ unspent' = (unspent \ old) \union {t}
    /\ granted' = [granted EXCEPT ![s] = @ \union {t}]

(* The subject completes a device-code login.                              *)
Login(s) ==
    /\ \E t \in Tokens : Mint(s, t, {})
    /\ UNCHANGED blob

(* Codex refreshes a token of s.                                           *)
Refresh(s) ==
    /\ \E old \in unspent \intersect granted[s], t \in Tokens : Mint(s, t, {old})
    /\ UNCHANGED blob

(* A credential becomes the stored one.                                    *)
Store(s) ==
    /\ \E t \in unspent \intersect granted[s] : blob' = [blob EXCEPT ![s] = t]
    /\ UNCHANGED <<minted, unspent, granted>>

(* The stored credential is deleted, and no earlier grant may be stored.   *)
Revoke(s) ==
    /\ blob' = [blob EXCEPT ![s] = NoBlob]
    /\ granted' = [granted EXCEPT ![s] = {}]
    /\ UNCHANGED <<minted, unspent>>

Next == \E s \in Subjects : Login(s) \/ Refresh(s) \/ Store(s) \/ Revoke(s)

Spec == Init /\ [][Next]_registerVars
=============================================================================
