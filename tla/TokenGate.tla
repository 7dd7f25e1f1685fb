------------------------------- MODULE TokenGate -------------------------------
(***************************************************************************)
(* From the settings of the runtime to the two gates a call passes.        *)
(*                                                                         *)
(* At start the metadata of the identity provider is validated and the     *)
(* token verifier and the transport are built from the same settings.      *)
(* Every call is verified on a thread of its own against the key set of    *)
(* the provider, cached for all threads.  Some time later it passes the    *)
(* bearer middleware of the SDK, and later again, its body read and its    *)
(* handler scheduled, the transport looks at its token once more.          *)
(* Meanwhile the provider rotates its keys and tokens expire.              *)
(***************************************************************************)
EXTENDS Integers

CONSTANTS
    Calls,      \* calls under way at once (bound)
    Tokens,     \* the tokens that occur (bound)
    MaxKey,     \* signing keys of the provider, one after the other (bound)
    MaxTime,    \* length of the run (bound)
    Lifespan,   \* jwks_cache_seconds
    FetchTime,  \* network_timeout_seconds
    Leeway      \* leeway_seconds

Keys    == 1..MaxKey
Clock   == 0..MaxTime
Nothing == {0}   \* no key set; {} is an empty one
NoToken == [kid |-> 0]
Off     == [issuer |-> "none", audience |-> "none", scope |-> "none"]
Config  == [issuer : {"none", "issuer"}, audience : {"none", "resource"},
            scope : {"none", "quota:read"}]

Token ==
    [kid : Keys, nbf : Nat, exp : Nat, issuer : {"issuer", "other"},
     audience : {"resource", "other"}, scope : {"quota:read", "other"},
     sound : BOOLEAN]   \* size, algorithm, kid, header, signature, subject

ASSUME GateAssumption ==
    /\ Tokens \subseteq Token
    /\ MaxKey \in Nat \ {0}
    /\ MaxTime \in Nat
    /\ Lifespan \in Nat
    /\ FetchTime \in Nat
    /\ Leeway \in Nat

VARIABLES
    verifier,   \* OIDCVerifierConfig: issuer, audience, required scope
    transport,  \* MCPTransportConfig: the same three
    now,
    published,  \* the keys of the provider's key set
    newest,     \* the key published last
    gone,       \* when a key was withdrawn
    cache,      \* JWKSetCache: the keys, or Nothing
    stamp,      \* when they were put there
    pc,         \* how far a call is
    token,      \* its bearer token
    since,      \* when its fetch began, or the middleware let it pass
    got,        \* the answer of the fetch
    again,      \* the fetch is the refresh for an unknown kid
    steady      \* history: its key has been published all the time

config   == <<verifier, transport>>
provider == <<published, newest, gone>>
jwks     == <<cache, stamp>>
call     == <<pc, token, since, got, again, steady>>
vars     == <<verifier, transport, now, published, newest, gone, cache, stamp,
              pc, token, since, got, again, steady>>

Running  == {"lookup", "fetch", "put", "verified", "passed"}
Answered == {"served", "denied", "unknown", "unreachable", "refused"}

TypeOK ==
    /\ verifier \in Config
    /\ transport \in Config
    /\ now \in Clock
    /\ newest \in Keys
    /\ published \subseteq 1..newest
    /\ gone \in [Keys -> Clock]
    /\ cache \in (SUBSET Keys) \union {Nothing}
    /\ stamp \in Clock
    /\ pc \in [Calls -> Running \union Answered \union {"idle"}]
    /\ token \in [Calls -> Token \union {NoToken}]
    /\ since \in [Calls -> Clock]
    /\ got \in [Calls -> SUBSET Keys]
    /\ again \in [Calls -> BOOLEAN]
    /\ steady \in [Calls -> BOOLEAN]

Init ==
    /\ verifier = Off
    /\ transport = Off
    /\ now = 0
    /\ published = {1}
    /\ newest = 1
    /\ gone = [k \in Keys |-> 0]
    /\ cache = Nothing
    /\ stamp = 0
    /\ pc = [c \in Calls |-> "idle"]
    /\ token = [c \in Calls |-> NoToken]
    /\ since = [c \in Calls |-> 0]
    /\ got = [c \in Calls |-> {}]
    /\ again = [c \in Calls |-> FALSE]
    /\ steady = [c \in Calls |-> FALSE]

-----------------------------------------------------------------------------
(* The start of the runtime.                                               *)

(* What the metadata of the provider has right.  A list of grant or        *)
(* response types that is absent is no objection.                          *)
Always   == {"issuer", "endpoints over https", "S256", "public client method",
             "authorization_code", "code"}
Features == Always \union {"client_id_metadata_document", "registration_endpoint",
                           "authorization_response_iss"}

Settings == [mode : {"cimd", "dcr", "predefined"}, reviewed : BOOLEAN,
             rfc9207 : BOOLEAN, complete : BOOLEAN, secret : BOOLEAN]

Accepted(s) ==
    /\ s.complete /\ ~s.secret
    /\ s.mode = "predefined" => s.reviewed

ValidateMetadata(s, metadata) ==
    /\ Always \subseteq metadata
    /\ s.mode = "cimd" => "client_id_metadata_document" \in metadata
    /\ s.mode = "dcr" => "registration_endpoint" \in metadata
    /\ s.rfc9207 => "authorization_response_iss" \in metadata

VerifierConfig ==
    [issuer |-> "issuer", audience |-> "resource", scope |-> "quota:read"]

(* Mutant: the transport is configured on its own, without the resource.   *)
TransportOfIssuer ==
    [issuer |-> "issuer", audience |-> "none", scope |-> "quota:read"]

TransportConfig ==
    [issuer |-> "issuer", audience |-> "resource", scope |-> "quota:read"]

Start ==
    /\ verifier = Off
    /\ \E s \in Settings, metadata \in SUBSET Features :
          Accepted(s) /\ ValidateMetadata(s, metadata)
    /\ verifier' = VerifierConfig
    /\ transport' = TransportConfig
    /\ UNCHANGED <<now, provider, jwks, call>>

-----------------------------------------------------------------------------
(* The provider.  Its key set is never empty.                              *)

Publish ==
    /\ newest < MaxKey
    /\ newest' = newest + 1
    /\ published' = published \union {newest + 1}
    /\ UNCHANGED <<config, now, gone, jwks, call>>

Withdraw(k) ==
    /\ k \in published
    /\ published # {k}
    /\ published' = published \ {k}
    /\ gone' = [gone EXCEPT ![k] = now]
    /\ steady' = [c \in Calls |-> steady[c] /\ token[c].kid # k]
    /\ UNCHANGED <<config, now, newest, jwks, pc, token, since, got, again>>

(* A fetch is over when its time is.                                       *)
Fetching(c) == pc[c] \in {"fetch", "put"}

Tick ==
    /\ now < MaxTime
    /\ \A c \in Calls : Fetching(c) => now < since[c] + FetchTime
    /\ now' = now + 1
    /\ UNCHANGED <<config, provider, jwks, call>>

-----------------------------------------------------------------------------
(* A call.                                                                 *)

Arrive(c) ==
    /\ verifier # Off
    /\ pc[c] \in Answered \union {"idle"}
    /\ \E t \in Tokens :
          /\ t.kid <= newest
          /\ token' = [token EXCEPT ![c] = t]
          /\ steady' = [steady EXCEPT ![c] = t.kid \in published]
          /\ pc' = [pc EXCEPT ![c] = "lookup"]
    /\ UNCHANGED <<config, now, provider, jwks, since, got, again>>

(* jwt.decode with leeway, and the scopes.                                 *)
Verified(t) ==
    /\ t.issuer = verifier.issuer
    /\ t.audience = verifier.audience
    /\ t.scope = verifier.scope
    /\ t.exp > now - Leeway
    /\ t.nbf <= now + Leeway

(* The call is over; of its state nothing is needed any more.              *)
End(c, result) ==
    /\ pc' = [pc EXCEPT ![c] = result]
    /\ token' = [token EXCEPT ![c] = NoToken]
    /\ since' = [since EXCEPT ![c] = 0]
    /\ again' = [again EXCEPT ![c] = FALSE]
    /\ got' = [got EXCEPT ![c] = {}]

UseKey(c) ==
    \/ ~Verified(token[c]) /\ End(c, "refused")
    \/ /\ Verified(token[c])
       /\ pc' = [pc EXCEPT ![c] = "verified"]
       /\ since' = [since EXCEPT ![c] = 0]
       /\ again' = [again EXCEPT ![c] = FALSE]
       /\ got' = [got EXCEPT ![c] = {}]
       /\ UNCHANGED token

BeginFetch(c, refresh) ==
    /\ pc' = [pc EXCEPT ![c] = "fetch"]
    /\ since' = [since EXCEPT ![c] = now]
    /\ again' = [again EXCEPT ![c] = refresh]
    /\ got' = [got EXCEPT ![c] = {}]
    /\ UNCHANGED token

(* Mutant: a cached key set does not expire.                               *)
CachedForever == cache # Nothing

Cached == cache # Nothing /\ now <= stamp + Lifespan

(* Mutant: an unknown kid is refused without a look at the provider.       *)
LookupOnce(c) ==
    /\ pc[c] = "lookup"
    /\ \/ ~token[c].sound /\ End(c, "refused")
       \/ token[c].sound /\ Cached /\ token[c].kid \in cache /\ UseKey(c)
       \/ token[c].sound /\ Cached /\ token[c].kid \notin cache /\ End(c, "unknown")
       \/ token[c].sound /\ ~Cached /\ BeginFetch(c, FALSE)
    /\ UNCHANGED <<config, now, provider, jwks, steady>>

(* get_signing_key: from the cache; a kid it does not have is looked for   *)
(* once more in a key set fetched for it.                                  *)
Lookup(c) ==
    /\ pc[c] = "lookup"
    /\ \/ ~token[c].sound /\ End(c, "refused")
       \/ token[c].sound /\ Cached /\ token[c].kid \in cache /\ UseKey(c)
       \/ token[c].sound /\ Cached /\ token[c].kid \notin cache /\ BeginFetch(c, TRUE)
       \/ token[c].sound /\ ~Cached /\ BeginFetch(c, FALSE)
    /\ UNCHANGED <<config, now, provider, jwks, steady>>

(* The provider answers with the keys it has at that moment ...            *)
Fetch(c) ==
    /\ pc[c] = "fetch"
    /\ pc' = [pc EXCEPT ![c] = "put"]
    /\ got' = [got EXCEPT ![c] = published]
    /\ UNCHANGED <<config, now, provider, jwks, token, since, again, steady>>

(* ... and they enter the cache when they arrive, whatever another thread  *)
(* has put there in between.                                               *)
Put(c) ==
    /\ pc[c] = "put"
    /\ cache' = got[c]
    /\ stamp' = now
    /\ \/ token[c].kid \in got[c] /\ UseKey(c)
       \/ token[c].kid \notin got[c] /\ ~again[c] /\ BeginFetch(c, TRUE)
       \/ token[c].kid \notin got[c] /\ again[c] /\ End(c, "unknown")
    /\ UNCHANGED <<config, now, provider, steady>>

(* A fetch that fails or times out clears the cache.                       *)
FetchFails(c) ==
    /\ Fetching(c)
    /\ cache' = Nothing
    /\ stamp' = 0
    /\ End(c, "unreachable")
    /\ UNCHANGED <<config, now, provider, steady>>

(* Mutant: the verifier has looked at the times already.                   *)
TrustedAsVerified(t) ==
    /\ t.issuer = transport.issuer
    /\ t.audience = transport.audience
    /\ t.scope = transport.scope

(* trusted_subject_from_access_token, without leeway.                      *)
Trusted(t) ==
    /\ t.issuer = transport.issuer
    /\ t.audience = transport.audience
    /\ t.scope = transport.scope
    /\ t.exp > now
    /\ t.nbf <= now

Pass(c) ==
    /\ pc' = [pc EXCEPT ![c] = "passed"]
    /\ since' = [since EXCEPT ![c] = now]
    /\ UNCHANGED <<token, got, again>>

(* The bearer middleware of the SDK: what has expired goes no further.     *)
Authenticate(c) ==
    /\ pc[c] = "verified"
    /\ IF token[c].exp < now THEN End(c, "refused") ELSE Pass(c)
    /\ UNCHANGED <<config, now, provider, jwks, steady>>

(* dispatch_tool_call, when the body is read and the handler runs.         *)
Dispatch(c) ==
    /\ pc[c] = "passed"
    /\ End(c, IF Trusted(token[c]) THEN "served" ELSE "denied")
    /\ UNCHANGED <<config, now, provider, jwks, steady>>

Step(c) ==
    Lookup(c) \/ Fetch(c) \/ Put(c) \/ FetchFails(c) \/ Authenticate(c) \/ Dispatch(c)

Next ==
    \/ Start \/ Publish \/ Tick
    \/ \E k \in Keys : Withdraw(k)
    \/ \E c \in Calls : Arrive(c) \/ Step(c)

Spec == Init /\ [][Next]_vars

-----------------------------------------------------------------------------
Becomes(c, state) == pc[c] # state /\ pc'[c] = state

(* A key that the provider has withdrawn stops to verify tokens once the   *)
(* cached set has run out, also when a slow fetch of another thread puts   *)
(* an older set over a newer one.                                          *)
WithdrawnKeyDies ==
    [][\A c \in Calls : Becomes(c, "verified") =>
          \/ token[c].kid \in published
          \/ now <= gone[token[c].kid] + FetchTime + Lifespan]_vars

(* Rotation does not lock anybody out: a token whose key has been          *)
(* published since before the call is not refused for its key, unless a    *)
(* fetch of the call itself failed.                                        *)
RotationRecovers == \A c \in Calls : pc[c] = "unknown" => ~steady[c]

(* Three looks at one token, at three moments and two of them with the     *)
(* leeway or without the last second, tell apart nothing but the time.     *)
(* However long a call waits in between, it is served only within the      *)
(* token's own times, without any leeway; and a call that was verified is  *)
(* turned away by the transport only because its token is not yet valid    *)
(* (by no more than the leeway), or ran out at or after the moment the     *)
(* middleware let it pass: one that had run out before gets the 401 that   *)
(* makes a client renew it (verify_token, trusted_subject_from_access_     *)
(* token).                                                                 *)
OnlyTimeIsTighter ==
    [][\A c \in Calls :
          /\ Becomes(c, "served") =>
                token[c].nbf <= now /\ now < token[c].exp
          /\ Becomes(c, "denied") =>
                \/ now < token[c].nbf /\ token[c].nbf <= now + Leeway
                \/ since[c] <= token[c].exp /\ token[c].exp <= now]_vars
=============================================================================
