---------------------------- MODULE TokenGate_proofs ----------------------------
(***************************************************************************)
(* Theorems about TokenGate, for any number of calls, tokens and keys.     *)
(***************************************************************************)
EXTENDS TokenGate, TLAPS

(* A call that runs carries a token; once verified it is what both gates    *)
(* ask for, but perhaps for the time, and the middleware let nothing pass  *)
(* that had expired.                                                       *)
Bearers ==
    \A c \in Calls :
        /\ pc[c] \in Running => token[c] \in Token
        /\ pc[c] \in {"verified", "passed"} =>
              /\ token[c].issuer = verifier.issuer
              /\ token[c].audience = verifier.audience
              /\ token[c].scope = verifier.scope
              /\ token[c].nbf <= now + Leeway
        /\ pc[c] = "passed" => since[c] <= now /\ since[c] <= token[c].exp

Configured ==
    /\ transport = verifier
    /\ verifier = Off => \A c \in Calls : pc[c] = "idle"

(* A key set in the cache, or on its way there, may hold a withdrawn key   *)
(* only as long as one fetch takes.                                        *)
Ages ==
    /\ stamp <= now
    /\ \A k \in Keys : gone[k] <= now
    /\ \A k \in cache \intersect Keys : k \in published \/ stamp <= gone[k] + FetchTime
    /\ \A c \in Calls : Fetching(c) => since[c] <= now /\ now <= since[c] + FetchTime
    /\ \A c \in Calls : pc[c] = "put" =>
          \A k \in got[c] : k \in published \/ since[c] <= gone[k]

(* What steady says of a call while it runs.                               *)
Rotating ==
    /\ \A c \in Calls : pc[c] \in Running /\ steady[c] => token[c].kid \in published
    /\ \A c \in Calls : pc[c] = "put" /\ steady[c] => token[c].kid \in got[c]

GateInv == TypeOK /\ Bearers /\ Configured

-----------------------------------------------------------------------------
(* Nothing ends a call in any state but an answer.                         *)
LEMMA Ends ==
    ASSUME TypeOK, NEW c \in Calls, NEW result \in Answered, End(c, result)
    PROVE  /\ pc' \in [Calls -> Running \union Answered \union {"idle"}]
           /\ token' \in [Calls -> Token \union {NoToken}]
           /\ since' \in [Calls -> Clock]
           /\ got' \in [Calls -> SUBSET Keys]
           /\ again' \in [Calls -> BOOLEAN]
           /\ pc'[c] = result
           /\ \A d \in Calls : d # c => pc'[d] = pc[d] /\ token'[d] = token[d]
                                        /\ since'[d] = since[d] /\ got'[d] = got[d]
  BY GateAssumption DEF TypeOK, End, Clock

LEMMA Uses ==
    ASSUME TypeOK, NEW c \in Calls, UseKey(c)
    PROVE  /\ pc' \in [Calls -> Running \union Answered \union {"idle"}]
           /\ token' \in [Calls -> Token \union {NoToken}]
           /\ since' \in [Calls -> Clock]
           /\ got' \in [Calls -> SUBSET Keys]
           /\ again' \in [Calls -> BOOLEAN]
           /\ \/ pc'[c] = "refused"
              \/ pc'[c] = "verified" /\ token'[c] = token[c] /\ Verified(token[c])
           /\ \A d \in Calls : d # c => pc'[d] = pc[d] /\ token'[d] = token[d]
                                        /\ since'[d] = since[d] /\ got'[d] = got[d]
<1>1. CASE End(c, "refused")
  BY <1>1, Ends DEF Answered
<1>2. CASE /\ Verified(token[c])
           /\ pc' = [pc EXCEPT ![c] = "verified"]
           /\ since' = [since EXCEPT ![c] = 0]
           /\ again' = [again EXCEPT ![c] = FALSE]
           /\ got' = [got EXCEPT ![c] = {}]
           /\ UNCHANGED token
  <2>1. 0 \in Clock
    BY GateAssumption DEF Clock
  <2> QED
    BY <1>2, <2>1 DEF TypeOK, Running
<1> QED
  BY <1>1, <1>2 DEF UseKey

LEMMA Begins ==
    ASSUME TypeOK, NEW c \in Calls, NEW refresh \in BOOLEAN, BeginFetch(c, refresh)
    PROVE  /\ pc' \in [Calls -> Running \union Answered \union {"idle"}]
           /\ token' \in [Calls -> Token \union {NoToken}]
           /\ since' \in [Calls -> Clock]
           /\ got' \in [Calls -> SUBSET Keys]
           /\ again' \in [Calls -> BOOLEAN]
           /\ pc'[c] = "fetch" /\ since'[c] = now /\ token'[c] = token[c]
           /\ \A d \in Calls : d # c => pc'[d] = pc[d] /\ token'[d] = token[d]
                                        /\ since'[d] = since[d] /\ got'[d] = got[d]
  BY DEF TypeOK, BeginFetch, Running

(* What a call can do that is not a fetch or its answer, in one place.     *)
Moves(c) ==
    \/ \E result \in Answered : End(c, result)
    \/ UseKey(c)
    \/ \E refresh \in BOOLEAN : BeginFetch(c, refresh)
    \/ pc[c] = "verified" /\ ~(token[c].exp < now) /\ Pass(c)

LEMMA Moved ==
    ASSUME TypeOK, NEW c \in Calls, Moves(c)
    PROVE  /\ pc' \in [Calls -> Running \union Answered \union {"idle"}]
           /\ token' \in [Calls -> Token \union {NoToken}]
           /\ since' \in [Calls -> Clock]
           /\ got' \in [Calls -> SUBSET Keys]
           /\ again' \in [Calls -> BOOLEAN]
           /\ \/ pc'[c] \in Answered
              \/ pc'[c] = "verified" /\ token'[c] = token[c] /\ Verified(token[c])
              \/ pc'[c] = "fetch" /\ since'[c] = now /\ token'[c] = token[c]
              \/ /\ pc[c] = "verified" /\ pc'[c] = "passed" /\ token'[c] = token[c]
                 /\ since'[c] = now /\ ~(token[c].exp < now)
           /\ \A d \in Calls : d # c => pc'[d] = pc[d] /\ token'[d] = token[d]
                                        /\ since'[d] = since[d] /\ got'[d] = got[d]
<1>1. CASE \E result \in Answered : End(c, result)
  BY <1>1, Ends
<1>2. CASE UseKey(c)
  BY <1>2, Uses DEF Answered
<1>3. CASE \E refresh \in BOOLEAN : BeginFetch(c, refresh)
  BY <1>3, Begins
<1>4. CASE pc[c] = "verified" /\ ~(token[c].exp < now) /\ Pass(c)
  BY <1>4 DEF TypeOK, Pass, Running
<1> QED
  BY <1>1, <1>2, <1>3, <1>4 DEF Moves

(* Every step of a call but the answer to a fetch.                         *)
Steps(c) == Lookup(c) \/ Put(c) \/ FetchFails(c) \/ Authenticate(c) \/ Dispatch(c)

LEMMA StepMoves ==
    ASSUME TypeOK, NEW c \in Calls, Steps(c)
    PROVE  /\ Moves(c)
           /\ UNCHANGED <<config, now, provider, steady>>
           /\ \/ UNCHANGED jwks
              \/ pc[c] = "put" /\ cache' = got[c] /\ stamp' = now
              \/ cache' = Nothing /\ stamp' = 0
           /\ pc[c] \in Running
<1>1. CASE Lookup(c)
  BY <1>1 DEF Lookup, Moves, Answered, Running
<1>2. CASE Put(c)
  BY <1>2 DEF Put, Moves, Answered, Running
<1>3. CASE FetchFails(c)
  BY <1>3 DEF FetchFails, Moves, Answered, Running, Fetching
<1>4. CASE Dispatch(c)
  BY <1>4 DEF Dispatch, Moves, Answered, Running
<1>5. CASE Authenticate(c)
  BY <1>5 DEF Authenticate, Moves, Answered, Running
<1> QED
  BY <1>1, <1>2, <1>3, <1>4, <1>5 DEF Steps

-----------------------------------------------------------------------------
LEMMA GateInit == Init => GateInv /\ Ages /\ Rotating
<1> SUFFICES ASSUME Init PROVE GateInv /\ Ages /\ Rotating
  OBVIOUS
<1> USE GateAssumption DEF Init
<1>1. TypeOK
  <2>1. Off \in Config
    BY DEF Off, Config
  <2>2. 0 \in Clock /\ 1 \in Keys /\ {1} \subseteq 1..1
    BY DEF Clock, Keys
  <2>3. "idle" \in Running \union Answered \union {"idle"} /\ {} \in SUBSET Keys
    OBVIOUS
  <2>4. cache \in (SUBSET Keys) \union {Nothing} /\ newest = 1 /\ published \subseteq 1..newest
    BY <2>2
  <2> QED
    BY <2>1, <2>2, <2>3, <2>4, Zenon DEF TypeOK
<1>2. Bearers /\ Configured
  BY DEF Bearers, Configured, Running
<1>3. Ages /\ Rotating
  BY DEF Ages, Rotating, Running, Fetching, Keys, Clock, Nothing
<1> QED
  BY <1>1, <1>2, <1>3 DEF GateInv

LEMMA TypeStep == GateInv /\ [Next]_vars => TypeOK'
<1> SUFFICES ASSUME GateInv, [Next]_vars PROVE TypeOK'
  OBVIOUS
<1> USE GateAssumption DEF GateInv
<1>1. CASE Start
  BY <1>1 DEF Start, TypeOK, VerifierConfig, TransportConfig, Config, provider, jwks, call
<1>2. CASE Publish
  <2>1. newest' \in Keys /\ published' \subseteq 1..newest'
    BY <1>2 DEF Publish, TypeOK, Keys
  <2> QED
    BY <1>2, <2>1 DEF Publish, TypeOK, config, jwks, call
<1>3. CASE Tick
  BY <1>3 DEF Tick, TypeOK, Clock, config, provider, jwks, call
<1>4. ASSUME NEW k \in Keys, Withdraw(k) PROVE TypeOK'
  <2>1. steady' \in [Calls -> BOOLEAN]
    BY <1>4 DEF Withdraw, TypeOK
  <2> QED
    BY <1>4, <2>1 DEF Withdraw, TypeOK, config, jwks
<1>5. ASSUME NEW c \in Calls, Arrive(c) PROVE TypeOK'
  <2>1. PICK t \in Tokens : token' = [token EXCEPT ![c] = t] /\ steady' = [steady EXCEPT ![c] = t.kid \in published]
                            /\ pc' = [pc EXCEPT ![c] = "lookup"]
    BY <1>5 DEF Arrive
  <2>2. token' \in [Calls -> Token \union {NoToken}]
    BY <2>1 DEF TypeOK
  <2>3. (t.kid \in published) \in BOOLEAN
    OBVIOUS
  <2>4. steady' \in [Calls -> BOOLEAN]
    BY <2>1, <2>3, Zenon DEF TypeOK
  <2>5. pc' \in [Calls -> Running \union Answered \union {"idle"}]
    BY <2>1 DEF TypeOK, Running
  <2> QED
    BY <1>5, <2>2, <2>4, <2>5 DEF Arrive, TypeOK, config, provider, jwks
<1>6. ASSUME NEW c \in Calls, Steps(c) PROVE TypeOK'
  <2>1. cache' \in (SUBSET Keys) \union {Nothing} /\ stamp' \in Clock
    <3>1. 0 \in Clock
      BY DEF Clock
    <3>2. got[c] \in SUBSET Keys
      BY DEF TypeOK
    <3>3. \/ UNCHANGED <<cache, stamp>>
          \/ cache' = got[c] /\ stamp' = now
          \/ cache' = Nothing /\ stamp' = 0
      BY <1>6, StepMoves DEF jwks
    <3>4. cache \in (SUBSET Keys) \union {Nothing} /\ stamp \in Clock /\ now \in Clock
      BY DEF TypeOK
    <3> QED
      BY <3>1, <3>2, <3>3, <3>4, Zenon
  <2> QED
    BY <1>6, <2>1, StepMoves, Moved DEF TypeOK, config, provider
<1>7. ASSUME NEW c \in Calls, Fetch(c) PROVE TypeOK'
  <2>1. published \in SUBSET Keys
    BY DEF TypeOK, Keys
  <2> QED
    BY <1>7, <2>1 DEF Fetch, TypeOK, Running, config, provider, jwks
<1>8. CASE UNCHANGED vars
  BY <1>8 DEF vars, TypeOK
<1> QED
  BY <1>1, <1>2, <1>3, <1>4, <1>5, <1>6, <1>7, <1>8 DEF Next, Step, Steps

LEMMA BearerStep == GateInv /\ [Next]_vars => (Bearers /\ Configured)'
<1> SUFFICES ASSUME GateInv, [Next]_vars PROVE (Bearers /\ Configured)'
  OBVIOUS
<1> USE GateAssumption DEF GateInv, Bearers, Configured
<1>1. CASE Start
  BY <1>1 DEF Start, VerifierConfig, TransportConfig, Off, Running, call
<1>2. CASE Publish
  BY <1>2 DEF Publish, config, call
<1>3. CASE Tick
  <2>1. \A c \in Calls :
            /\ pc[c] \in {"verified", "passed"} => token[c].nbf <= now + 1 + Leeway
            /\ pc[c] = "passed" => since[c] <= now + 1
    BY DEF TypeOK, Clock, Token, Running
  <2> QED
    BY <1>3, <2>1 DEF Tick, config, call
<1>4. ASSUME NEW k \in Keys, Withdraw(k) PROVE (Bearers /\ Configured)'
  BY <1>4 DEF Withdraw, config
<1>5. ASSUME NEW c \in Calls, Arrive(c) PROVE (Bearers /\ Configured)'
  BY <1>5 DEF Arrive, config, TypeOK, Running
<1>6. ASSUME NEW c \in Calls, Steps(c)
      PROVE (Bearers /\ Configured)'
  <2>1. \/ pc'[c] \in Answered
        \/ pc'[c] = "verified" /\ token'[c] = token[c] /\ Verified(token[c])
        \/ pc'[c] = "fetch" /\ token'[c] = token[c]
        \/ /\ pc[c] = "verified" /\ pc'[c] = "passed" /\ token'[c] = token[c]
           /\ since'[c] = now /\ ~(token[c].exp < now)
    BY <1>6, StepMoves, Moved
  <2>2. \A d \in Calls : d # c => pc'[d] = pc[d] /\ token'[d] = token[d] /\ since'[d] = since[d]
    BY <1>6, StepMoves, Moved
  <2>3. pc[c] \in Running /\ UNCHANGED <<verifier, transport, now>>
    BY <1>6, StepMoves DEF config
  <2>4. verifier # Off
    BY <2>3 DEF Running
  <2>5. token[c] \in Token /\ now \in Nat
    BY <2>3 DEF TypeOK, Clock
  <2>6. pc'[c] = "passed" => since'[c] <= now /\ since'[c] <= token'[c].exp
    BY <2>1, <2>5 DEF Token, Answered
  <2> QED
    BY <2>1, <2>2, <2>3, <2>4, <2>6 DEF Verified, Running, Answered
<1>7. ASSUME NEW c \in Calls, Fetch(c) PROVE (Bearers /\ Configured)'
  BY <1>7 DEF Fetch, TypeOK, Running, config
<1>8. CASE UNCHANGED vars
  BY <1>8 DEF vars
<1> QED
  BY <1>1, <1>2, <1>3, <1>4, <1>5, <1>6, <1>7, <1>8 DEF Next, Step, Steps

LEMMA AgeStep == GateInv /\ Ages /\ [Next]_vars => Ages'
<1> SUFFICES ASSUME GateInv, Ages, [Next]_vars PROVE Ages'
  OBVIOUS
<1> USE GateAssumption DEF GateInv, Ages, Fetching, Clock, Keys
<1>1. CASE Start
  BY <1>1 DEF Start, provider, jwks, call
<1>2. CASE Publish
  BY <1>2 DEF Publish, config, jwks, call
<1>3. CASE Tick
  BY <1>3 DEF Tick, TypeOK, provider, jwks, call
<1>4. ASSUME NEW k \in Keys, Withdraw(k) PROVE Ages'
  BY <1>4 DEF Withdraw, TypeOK, jwks
<1>5. ASSUME NEW c \in Calls, Arrive(c) PROVE Ages'
  BY <1>5 DEF Arrive, TypeOK, provider, jwks
<1>6. ASSUME NEW c \in Calls, Steps(c) PROVE Ages'
  <2>1. UNCHANGED <<now, published, newest, gone>>
    BY <1>6, StepMoves DEF provider
  <2>2. \/ UNCHANGED <<cache, stamp>>
        \/ pc[c] = "put" /\ cache' = got[c] /\ stamp' = now
        \/ cache' = Nothing /\ stamp' = 0
    BY <1>6, StepMoves DEF jwks
  <2>3. stamp' <= now /\ \A k \in cache' \intersect Keys :
                            k \in published \/ stamp' <= gone[k] + FetchTime
    BY <2>2 DEF TypeOK, Nothing
  <2>4. \/ pc'[c] \in Answered \union {"verified", "passed"}
        \/ pc'[c] = "fetch" /\ since'[c] = now
    BY <1>6, StepMoves, Moved
  <2>5. \A d \in Calls : d # c => pc'[d] = pc[d] /\ since'[d] = since[d] /\ got'[d] = got[d]
    BY <1>6, StepMoves, Moved
  <2>6. \A d \in Calls : Fetching(d)' => since'[d] <= now /\ now <= since'[d] + FetchTime
    <3> SUFFICES ASSUME NEW d \in Calls, Fetching(d)'
                 PROVE  since'[d] <= now /\ now <= since'[d] + FetchTime
      OBVIOUS
    <3>1. CASE d = c
      BY <2>4, <3>1 DEF TypeOK, Answered
    <3>2. CASE d # c
      BY <2>5, <3>2 DEF TypeOK
    <3> QED
      BY <3>1, <3>2
  <2>7. \A d \in Calls : pc'[d] = "put" => pc[d] = "put" /\ since'[d] = since[d] /\ got'[d] = got[d]
    BY <2>4, <2>5 DEF Answered
  <2> QED
    BY <2>1, <2>3, <2>6, <2>7
<1>7. ASSUME NEW c \in Calls, Fetch(c) PROVE Ages'
  BY <1>7 DEF Fetch, TypeOK, provider, jwks
<1>8. CASE UNCHANGED vars
  BY <1>8 DEF vars
<1> QED
  BY <1>1, <1>2, <1>3, <1>4, <1>5, <1>6, <1>7, <1>8 DEF Next, Step, Steps

LEMMA RotatingStep ==
    GateInv /\ Rotating /\ RotationRecovers /\ [Next]_vars => (Rotating /\ RotationRecovers)'
<1> SUFFICES ASSUME GateInv, Rotating, RotationRecovers, [Next]_vars
             PROVE  (Rotating /\ RotationRecovers)'
  OBVIOUS
<1> USE DEF GateInv, Rotating, RotationRecovers
<1>1. CASE Start
  BY <1>1 DEF Start, provider, call
<1>2. CASE Publish
  BY <1>2 DEF Publish, call
<1>3. CASE Tick
  BY <1>3 DEF Tick, provider, call
<1>4. ASSUME NEW k \in Keys, Withdraw(k) PROVE (Rotating /\ RotationRecovers)'
  BY <1>4 DEF Withdraw, TypeOK
<1>5. ASSUME NEW c \in Calls, Arrive(c) PROVE (Rotating /\ RotationRecovers)'
  <2>1. PICK t \in Tokens : /\ token' = [token EXCEPT ![c] = t]
                            /\ steady' = [steady EXCEPT ![c] = t.kid \in published]
                            /\ pc' = [pc EXCEPT ![c] = "lookup"]
    BY <1>5 DEF Arrive
  <2>2. token'[c] = t /\ steady'[c] = (t.kid \in published) /\ pc'[c] = "lookup"
    BY <2>1, Zenon DEF TypeOK
  <2>3. \A d \in Calls : d # c => token'[d] = token[d] /\ steady'[d] = steady[d] /\ pc'[d] = pc[d]
    BY <2>1, Zenon DEF TypeOK
  <2> QED
    BY <1>5, <2>2, <2>3, Zenon DEF Arrive, provider, Running
<1>6. ASSUME NEW c \in Calls, Steps(c)
      PROVE (Rotating /\ RotationRecovers)'
  <2>1. UNCHANGED <<published, steady>> /\ pc[c] \in Running
    BY <1>6, StepMoves DEF provider
  <2>2. \/ pc'[c] \in Answered
        \/ pc'[c] = "verified" /\ token'[c] = token[c]
        \/ pc'[c] \in {"fetch", "passed"} /\ token'[c] = token[c]
    BY <1>6, StepMoves, Moved
  <2>3. \A d \in Calls : d # c => pc'[d] = pc[d] /\ token'[d] = token[d] /\ got'[d] = got[d]
    BY <1>6, StepMoves, Moved
  <2>4. ASSUME pc'[c] = "unknown" PROVE ~steady[c]
    <3>1. CASE Put(c)
      BY <1>6, <2>4, <3>1 DEF Put, UseKey, BeginFetch, End, TypeOK
    <3>2. CASE Lookup(c)
      BY <2>4, <3>2 DEF Lookup, UseKey, BeginFetch, End, TypeOK
    <3>3. CASE FetchFails(c)
      BY <2>4, <3>3 DEF FetchFails, End, TypeOK
    <3>4. CASE Dispatch(c)
      BY <2>4, <3>4 DEF Dispatch, End, TypeOK
    <3>5. CASE Authenticate(c)
      BY <2>4, <3>5 DEF Authenticate, Pass, End, TypeOK
    <3> QED
      BY <1>6, <3>1, <3>2, <3>3, <3>4, <3>5 DEF Steps
  <2> QED
    BY <2>1, <2>2, <2>3, <2>4 DEF Running, Answered
<1>7. ASSUME NEW c \in Calls, Fetch(c) PROVE (Rotating /\ RotationRecovers)'
  BY <1>7 DEF Fetch, TypeOK, Running, provider
<1>8. CASE UNCHANGED vars
  BY <1>8 DEF vars
<1> QED
  BY <1>1, <1>2, <1>3, <1>4, <1>5, <1>6, <1>7, <1>8 DEF Next, Step, Steps

-----------------------------------------------------------------------------
LEMMA GateInvariant == Spec => []GateInv
<1>1. GateInv /\ [Next]_vars => GateInv'
  BY TypeStep, BearerStep DEF GateInv
<1> QED
  BY <1>1, GateInit, PTL DEF Spec

(* The state of the gates stays well typed.                                *)
THEOREM TypeCorrect == Spec => []TypeOK
<1>1. GateInv => TypeOK
  BY DEF GateInv
<1> QED
  BY <1>1, GateInvariant, PTL

(* A rotation of keys makes no call fail whose key stays published         *)
(* (oidc_token_verifier.py, the key provider): the second look at the      *)
(* provider is begun after the call and so shows the key.                  *)
THEOREM RotationHolds == Spec => []RotationRecovers
<1>1. Init => Rotating /\ RotationRecovers
  BY GateInit DEF Init, RotationRecovers
<1> QED
  BY <1>1, GateInvariant, RotatingStep, PTL DEF Spec

LEMMA Dies ==
    ASSUME GateInv, Ages, Next, NEW c \in Calls, Becomes(c, "verified")
    PROVE  token[c].kid \in published \/ now <= gone[token[c].kid] + FetchTime + Lifespan
<1> USE GateAssumption DEF GateInv, Becomes
<1>1. CASE Lookup(c)
  <2>1. Cached /\ token[c].kid \in cache /\ token[c].kid \in Keys
    BY <1>1 DEF Lookup, UseKey, BeginFetch, End, TypeOK, Bearers, Running, Token
  <2> QED
    BY <2>1 DEF Cached, Ages, TypeOK, Keys, Clock
<1>2. CASE Put(c)
  <2>1. token[c].kid \in got[c] /\ token[c].kid \in Keys /\ Fetching(c) /\ pc[c] = "put"
    BY <1>2 DEF Put, UseKey, BeginFetch, End, TypeOK, Bearers, Running, Token, Fetching
  <2> QED
    BY <2>1 DEF Ages, TypeOK, Keys, Clock
<1>3. ASSUME ~Lookup(c), ~Put(c) PROVE FALSE
  <2>1. CASE Start \/ Publish \/ Tick
    BY <2>1 DEF Start, Publish, Tick, call
  <2>2. ASSUME NEW k \in Keys, Withdraw(k) PROVE FALSE
    BY <2>2 DEF Withdraw
  <2>3. ASSUME NEW d \in Calls, Arrive(d) PROVE FALSE
    BY <2>3 DEF Arrive, TypeOK
  <2>4. ASSUME NEW d \in Calls, Step(d) PROVE FALSE
    <3>1. CASE d = c
      BY <1>3, <2>4, <3>1 DEF Step, Fetch, FetchFails, Authenticate, Pass, Dispatch, End, TypeOK
    <3>2. CASE d # c
      BY <2>4, <3>2, StepMoves, Moved DEF Step, Steps, Fetch, TypeOK
    <3> QED
      BY <3>1, <3>2
  <2> QED
    BY <2>1, <2>2, <2>3, <2>4 DEF Next
<1> QED
  BY <1>1, <1>2, <1>3

(* A withdrawn key verifies nothing once a fetch and the life of a cached  *)
(* set are over, whatever the order in which fetches end (PyJWKClient as   *)
(* oidc_token_verifier.py sets it up).                                     *)
THEOREM KeyDies == Spec => WithdrawnKeyDies
<1>1. Spec => []Ages
  BY GateInit, GateInvariant, AgeStep, PTL DEF Spec
<1>2. GateInv /\ Ages /\ [Next]_vars =>
          [\A c \in Calls : Becomes(c, "verified") =>
              \/ token[c].kid \in published
              \/ now <= gone[token[c].kid] + FetchTime + Lifespan]_vars
  BY Dies
<1> QED
  BY <1>1, <1>2, GateInvariant, PTL DEF Spec, WithdrawnKeyDies

LEMMA Decides ==
    ASSUME GateInv, Next, NEW c \in Calls, Becomes(c, "served") \/ Becomes(c, "denied")
    PROVE  Dispatch(c)
<1> USE DEF GateInv, Becomes
<1>1. CASE Start \/ Publish \/ Tick
  BY <1>1 DEF Start, Publish, Tick, call
<1>2. ASSUME NEW k \in Keys, Withdraw(k) PROVE Dispatch(c)
  BY <1>2 DEF Withdraw
<1>3. ASSUME NEW d \in Calls, Arrive(d) PROVE Dispatch(c)
  BY <1>3 DEF Arrive, TypeOK
<1>4. ASSUME NEW d \in Calls, Step(d) PROVE Dispatch(c)
  <2>1. CASE d = c
    BY <1>4, <2>1
       DEF Step, Lookup, Put, UseKey, BeginFetch, Fetch, FetchFails, Authenticate, Pass, End,
           TypeOK
  <2>2. CASE d # c
    BY <1>4, <2>2, StepMoves, Moved DEF Step, Steps, Fetch, TypeOK
  <2> QED
    BY <2>1, <2>2
<1> QED
  BY <1>1, <1>2, <1>3, <1>4 DEF Next

(* However a call waits between its verification, the middleware and the   *)
(* dispatch of mcp_transport.py, only the time tells the three apart: the  *)
(* two configurations are made of the same settings.                       *)
THEOREM OnlyTimeDiffers == Spec => OnlyTimeIsTighter
<1> DEFINE Tighter(c) ==
               /\ Becomes(c, "served") => token[c].nbf <= now /\ now < token[c].exp
               /\ Becomes(c, "denied") =>
                     \/ now < token[c].nbf /\ token[c].nbf <= now + Leeway
                     \/ since[c] <= token[c].exp /\ token[c].exp <= now
<1>1. ASSUME GateInv, Next, NEW c \in Calls PROVE Tighter(c)
  <2> SUFFICES ASSUME Becomes(c, "served") \/ Becomes(c, "denied") PROVE Tighter(c)
    OBVIOUS
  <2>1. Dispatch(c)
    BY <1>1, Decides
  <2>2. /\ token[c].nbf \in Nat /\ token[c].exp \in Nat /\ now \in Nat
        /\ token[c].issuer = transport.issuer
        /\ token[c].audience = transport.audience
        /\ token[c].scope = transport.scope
        /\ token[c].nbf <= now + Leeway
        /\ since[c] <= token[c].exp
    BY <1>1, <2>1 DEF GateInv, Dispatch, Bearers, Configured, Running, Token, TypeOK, Clock
  <2>3. pc'[c] = IF Trusted(token[c]) THEN "served" ELSE "denied"
    BY <1>1, <2>1 DEF GateInv, Dispatch, End, TypeOK
  <2>4. Trusted(token[c]) <=> now < token[c].exp /\ token[c].nbf <= now
    BY <2>2 DEF Trusted
  <2> QED
    BY <2>2, <2>3, <2>4 DEF Becomes
<1>2. GateInv /\ [Next]_vars => [\A c \in Calls : Tighter(c)]_vars
  BY <1>1
<1> QED
  BY <1>2, GateInvariant, PTL DEF Spec, OnlyTimeIsTighter
=============================================================================
