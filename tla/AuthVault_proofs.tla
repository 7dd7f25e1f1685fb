--------------------------- MODULE AuthVault_proofs ---------------------------
(***************************************************************************)
(* Theorems about AuthVault, for any number of subjects, workers,          *)
(* processes and tokens and for any set of faults.                         *)
(***************************************************************************)
EXTENDS AuthVault, TLAPS

(* Every reachable state of the vault is well typed.                       *)
THEOREM TypeCorrect == Spec => []TypeOK
<1> USE VaultAssumption DEF TypeOK, InLease, Ops, Stored
<1>1. Init => TypeOK
  BY DEF Init
<1>2. TypeOK /\ [Next]_vars => TypeOK'
  <2> SUFFICES ASSUME TypeOK, [Next]_vars PROVE TypeOK'
    OBVIOUS
  <2> USE DEF Goto, Raise, Rewrite, Abandon, EndCall, Freed, Put, Unlink, call, stores, upstream
  <2>1. ASSUME NEW w \in Workers, NEW s \in Subjects, NEW o \in Ops, Call(w, s, o)
        PROVE TypeOK'
    BY <2>1 DEF Call
  <2>2. ASSUME NEW w \in Workers, Acquire(w) PROVE TypeOK'
    BY <2>2 DEF Acquire, FirstStep
  <2>3. ASSUME NEW w \in Workers, LeaseTimeout(w) PROVE TypeOK'
    BY <2>3 DEF LeaseTimeout, Leaks
  <2>4. ASSUME NEW w \in Workers, Load(w) PROVE TypeOK'
    BY <2>4 DEF Load
  <2>5. ASSUME NEW w \in Workers, MakeHome(w) PROVE TypeOK'
    BY <2>5 DEF MakeHome
  <2>6. ASSUME NEW w \in Workers, WriteAuth(w) PROVE TypeOK'
    <3>1. orphans' \subseteq Leaks /\ home' \in [Workers -> BOOLEAN]
      BY <2>6 DEF WriteAuth, Leaks
    <3>2. CASE Goto(w, "write", "body")
      BY <2>6, <3>1, <3>2 DEF WriteAuth
    <3>3. CASE Raise(w, "write", "release")
      BY <2>6, <3>1, <3>3 DEF WriteAuth
    <3> QED
      BY <2>6, <3>2, <3>3 DEF WriteAuth
  <2>7. ASSUME NEW w \in Workers, BodyLogin(w) PROVE TypeOK'
    BY <2>7 DEF BodyLogin, Mint
  <2>8. ASSUME NEW w \in Workers, BodyRefresh(w) PROVE TypeOK'
    BY <2>8 DEF BodyRefresh, Mint
  <2>9. ASSUME NEW w \in Workers, BodySpoil(w) PROVE TypeOK'
    BY <2>9 DEF BodySpoil
  <2>10. ASSUME NEW w \in Workers, BodyEnd(w) PROVE TypeOK'
    BY <2>10 DEF BodyEnd
  <2>11. ASSUME NEW w \in Workers, Seal(w) PROVE TypeOK'
    BY <2>11 DEF Seal
  <2>12. ASSUME NEW w \in Workers, Save(w) PROVE TypeOK'
    BY <2>12 DEF Save
  <2>13. ASSUME NEW w \in Workers, Delete(w) PROVE TypeOK'
    BY <2>13 DEF Delete
  <2>14. ASSUME NEW w \in Workers, Cleanup(w) PROVE TypeOK'
    BY <2>14 DEF Cleanup, Leaks
  <2>15. ASSUME NEW w \in Workers, Release(w) PROVE TypeOK'
    BY <2>15 DEF Release, Leaks
  <2>16. ASSUME NEW p \in Processes, Crash(p) PROVE TypeOK'
    BY <2>16 DEF Crash, Leaks
  <2>17. CASE UNCHANGED vars
    BY <2>17 DEF vars
  <2> QED
    BY <2>1, <2>2, <2>3, <2>4, <2>5, <2>6, <2>7, <2>8, <2>9, <2>10, <2>11,
       <2>12, <2>13, <2>14, <2>15, <2>16, <2>17 DEF Next, Advance
<1>3. QED
  BY <1>1, <1>2, PTL DEF Spec

-----------------------------------------------------------------------------
(* The lease is held exactly while an operation works on its subject.      *)
LeaseInv ==
    /\ \A w \in Workers : Busy(w) => lease[subj[w]] = w
    /\ NoAbandonedLease

(* Grants of different subjects are different tokens, and a stored token   *)
(* is one granted to its subject since its last deletion.                  *)
GrantInv ==
    /\ \A s, r \in Subjects : s # r => granted[s] \intersect granted[r] = {}
    /\ \A s \in Subjects : blob[s] \in Tokens => blob[s] \in granted[s]

(* What an operation may still save: the stored token itself, unless and   *)
(* until it refreshes it, or a token that is neither spent nor revoked.    *)
Savable(w, t) ==
    /\ t \in granted[subj[w]]
    /\ t \in unspent \/ t = blob[subj[w]]

AuthInv ==
    \A w \in Workers :
        /\ pc[w] \in {"idle", "lease"} => auth[w] = NoAuth
        /\ pc[w] \in InLease \ {"cleanup", "release"} /\ auth[w] \in Tokens
             => Savable(w, auth[w])

(* How an operation that got to its last steps left the vault.             *)
OutcomeInv ==
    \A w \in Workers :
        /\ pc[w] \notin {"cleanup", "release"} => ~failed[w]
        /\ pc[w] \in {"load", "write"} => op[w] = "read"
        /\ pc[w] = "delete" => op[w] = "revoke"
        /\ pc[w] \in {"mkhome", "body", "seal", "save", "cleanup"} => op[w] # "revoke"
        /\ pc[w] \in {"cleanup", "release"} /\ ~failed[w] =>
             blob[subj[w]] = IF op[w] = "revoke" THEN NoBlob ELSE auth[w]

(* Until it saves or deletes, and for good once it has failed, an          *)
(* operation has changed nothing.                                          *)
EntryInv ==
    \A w \in Workers :
        Busy(w) /\ (pc[w] \notin {"cleanup", "release"} \/ failed[w])
            => blob[subj[w]] = entry[w]

(* An operation has a home to remove only on its way from mkdtemp to       *)
(* rmtree, and no call has been over with one.                             *)
HomeInv ==
    /\ "over" \notin orphans
    /\ \A w \in Workers :
         home[w] => pc[w] \in {"write", "body", "seal", "save", "cleanup"}

-----------------------------------------------------------------------------
(* The steps an operation takes inside its lease before it gives it back.  *)
Inner(w) ==
    \/ Load(w) \/ MakeHome(w) \/ WriteAuth(w) \/ BodyLogin(w) \/ BodyRefresh(w)
    \/ BodySpoil(w) \/ BodyEnd(w) \/ Seal(w) \/ Save(w) \/ Delete(w) \/ Cleanup(w)

(* Next, sorted by what a step does to the leases.                         *)
LEMMA NextCases ==
    ASSUME Next
    PROVE  \/ \E w \in Workers, s \in Subjects, o \in Ops : Call(w, s, o)
           \/ \E w \in Workers : Acquire(w)
           \/ \E w \in Workers : LeaseTimeout(w)
           \/ \E w \in Workers : Release(w)
           \/ \E p \in Processes : Crash(p)
           \/ \E w \in Workers : Inner(w)
BY DEF Next, Advance, Inner

(* An inner step moves one worker from a step in the lease to another.     *)
LEMMA InnerKeepsLease ==
    ASSUME TypeOK, NEW w \in Workers, Inner(w)
    PROVE  /\ UNCHANGED <<op, subj, entry, lease>>
           /\ Busy(w) /\ Busy(w)'
           /\ \A v \in Workers \ {w} : /\ pc'[v] = pc[v]
                                       /\ failed'[v] = failed[v]
                                       /\ auth'[v] = auth[v]
                                       /\ home'[v] = home[v]
<1> USE DEF TypeOK, Busy, InLease, Goto, Raise, Rewrite, Abandon, call, stores
<1>1. CASE Load(w)         BY <1>1 DEF Load
<1>2. CASE MakeHome(w)     BY <1>2 DEF MakeHome
<1>3. CASE WriteAuth(w)    BY <1>3 DEF WriteAuth
<1>4. CASE BodyLogin(w)    BY <1>4 DEF BodyLogin
<1>5. CASE BodyRefresh(w)  BY <1>5 DEF BodyRefresh
<1>6. CASE BodySpoil(w)    BY <1>6 DEF BodySpoil
<1>7. CASE BodyEnd(w)      BY <1>7 DEF BodyEnd
<1>8. CASE Seal(w)         BY <1>8 DEF Seal
<1>9. CASE Save(w)         BY <1>9 DEF Save
<1>10. CASE Delete(w)      BY <1>10 DEF Delete
<1>11. CASE Cleanup(w)     BY <1>11 DEF Cleanup
<1> QED
  BY <1>1, <1>2, <1>3, <1>4, <1>5, <1>6, <1>7, <1>8, <1>9, <1>10, <1>11 DEF Inner

(* A worker inside its operation holds its subject's lease, and nobody else *)
(* holds one.                                                              *)
LEMMA LeaseInvariant == Spec => []LeaseInv
<1> USE VaultAssumption DEF LeaseInv, NoAbandonedLease
<1>1. Init => LeaseInv
  BY DEF Init, Busy, InLease
<1>2. TypeOK /\ LeaseInv /\ [Next]_vars => LeaseInv'
  <2> SUFFICES ASSUME TypeOK, LeaseInv, [Next]_vars PROVE LeaseInv'
    OBVIOUS
  <2>1. ASSUME NEW w \in Workers, NEW s \in Subjects, NEW o \in Ops, Call(w, s, o)
        PROVE LeaseInv'
    BY <2>1 DEF Call, Goto, stores, TypeOK, Busy, InLease
  <2>2. ASSUME NEW w \in Workers, Acquire(w) PROVE LeaseInv'
    BY <2>2 DEF Acquire, Goto, FirstStep, TypeOK, Busy, InLease, Ops
  <2>3. ASSUME NEW ws \in SUBSET Workers, NEW how \in Leaks, EndCall(ws, how) PROVE LeaseInv'
    BY <2>3 DEF EndCall, Freed, TypeOK, Busy, InLease
  <2>4. ASSUME NEW w \in Workers, LeaseTimeout(w) PROVE LeaseInv'
    BY <2>3, <2>4 DEF LeaseTimeout, Leaks
  <2>5. ASSUME NEW w \in Workers, Release(w) PROVE LeaseInv'
    BY <2>3, <2>5 DEF Release, Leaks
  <2>6. ASSUME NEW p \in Processes, Crash(p) PROVE LeaseInv'
    <3> {w \in Workers : ProcessOf[w] = p} \in SUBSET Workers
      OBVIOUS
    <3> QED
      BY <2>3, <2>6 DEF Crash, Leaks
  <2>7. ASSUME NEW w \in Workers, Inner(w) PROVE LeaseInv'
    <3>1. /\ UNCHANGED <<subj, lease>>
          /\ \A v \in Workers : Busy(v)' <=> Busy(v)
      BY <2>7, InnerKeepsLease DEF Busy
    <3> QED
      BY <3>1 DEF TypeOK
  <2>8. CASE UNCHANGED vars
    BY <2>8 DEF vars, Busy
  <2> QED
    BY <2>1, <2>2, <2>4, <2>5, <2>6, <2>7, <2>8, NextCases
<1>3. QED
  BY <1>1, <1>2, TypeCorrect, PTL DEF Spec

(* Two operations never overlap on one subject.                            *)
THEOREM MutualExclusion == Spec => []Exclusive
<1>1. LeaseInv => Exclusive
  BY DEF LeaseInv, Exclusive
<1>2. QED
  BY <1>1, LeaseInvariant, PTL

(* A lease is only ever held by a running operation of its own subject.    *)
THEOREM LeaseIsLive == Spec => []NoAbandonedLease
<1>1. LeaseInv => NoAbandonedLease
  BY DEF LeaseInv
<1>2. QED
  BY <1>1, LeaseInvariant, PTL

-----------------------------------------------------------------------------
(* Minting for the holder of a lease adds a token nobody has.              *)
LEMMA MintKeepsGrants ==
    ASSUME TypeOK, GrantInv, NEW s \in Subjects, NEW t, NEW old, Mint(s, t, old),
           UNCHANGED blob
    PROVE  GrantInv'
<1>1. \A r \in Subjects : granted'[r] = IF r = s THEN granted[r] \union {t} ELSE granted[r]
  BY DEF Mint, TypeOK
<1>2. \A r \in Subjects : t \notin granted[r]
  BY DEF Mint, TypeOK
<1>3. ASSUME NEW q \in Subjects, NEW r \in Subjects, q # r
      PROVE  granted'[q] \intersect granted'[r] = {}
  <2>1. granted[q] \intersect granted[r] = {}
    BY <1>3 DEF GrantInv
  <2> QED
    BY <2>1, <1>1, <1>2, <1>3
<1>4. ASSUME NEW r \in Subjects, blob'[r] \in Tokens PROVE blob'[r] \in granted'[r]
  BY <1>1, <1>4 DEF GrantInv
<1> QED
  BY <1>3, <1>4 DEF GrantInv

(* What is stored, or can still be saved, was granted to its subject since *)
(* the last deletion, and no token is granted to two subjects.             *)
LEMMA GrantInvariant == Spec => [](GrantInv /\ AuthInv)
<1> USE VaultAssumption
<1>1. Init => GrantInv /\ AuthInv
  BY DEF Init, GrantInv, AuthInv, InLease
<1>2. TypeOK /\ LeaseInv /\ GrantInv /\ AuthInv /\ [Next]_vars => (GrantInv /\ AuthInv)'
  <2> SUFFICES ASSUME TypeOK, LeaseInv, GrantInv, AuthInv, [Next]_vars
               PROVE  GrantInv' /\ AuthInv'
    OBVIOUS
  <2>1. ASSUME NEW w \in Workers, NEW s \in Subjects, NEW o \in Ops, Call(w, s, o)
        PROVE  GrantInv' /\ AuthInv'
    BY <2>1 DEF Call, Goto, stores, upstream, TypeOK, GrantInv, AuthInv, Savable, InLease
  <2>2. ASSUME NEW w \in Workers, Acquire(w) PROVE GrantInv' /\ AuthInv'
    BY <2>2 DEF Acquire, Goto, FirstStep, upstream, TypeOK, GrantInv, AuthInv, Savable, InLease
  <2>3. ASSUME NEW ws \in SUBSET Workers, NEW how \in Leaks, EndCall(ws, how), UNCHANGED <<blob, upstream>>
        PROVE  GrantInv' /\ AuthInv'
    BY <2>3 DEF EndCall, Freed, upstream, TypeOK, GrantInv, AuthInv, Savable, InLease
  <2>4. ASSUME NEW w \in Workers, LeaseTimeout(w) \/ Release(w)
        PROVE  GrantInv' /\ AuthInv'
    BY <2>3, <2>4 DEF LeaseTimeout, Release, Leaks
  <2>5. ASSUME NEW p \in Processes, Crash(p) PROVE GrantInv' /\ AuthInv'
    <3> {w \in Workers : ProcessOf[w] = p} \in SUBSET Workers
      OBVIOUS
    <3> QED
      BY <2>3, <2>5 DEF Crash, Leaks
  <2>6. ASSUME NEW w \in Workers, Inner(w) PROVE GrantInv' /\ AuthInv'
    <3> DEFINE s == subj[w]
    <3>1. /\ UNCHANGED subj
          /\ \A v \in Workers \ {w} : pc'[v] = pc[v] /\ auth'[v] = auth[v]
          /\ s \in Subjects
          /\ \A v \in Workers \ {w} : pc[v] \in InLease => subj[v] \in Subjects \ {s}
      BY <2>6, InnerKeepsLease DEF TypeOK, LeaseInv, Busy, InLease
    <3>2. CASE BodyLogin(w)
      <4>1. PICK t \in Tokens : Rewrite(w, t) /\ Mint(s, t, {})
        BY <3>2 DEF BodyLogin
      <4>2. GrantInv'
        BY <3>1, <4>1, MintKeepsGrants DEF Rewrite, stores
      <4>3. AuthInv'
        BY <3>1, <4>1 DEF Mint, Rewrite, Goto, stores, AuthInv, Savable, TypeOK, InLease
      <4> QED
        BY <4>2, <4>3
    <3>3. CASE BodyRefresh(w)
      <4>1. PICK t \in Tokens : Rewrite(w, t) /\ Mint(s, t, {auth[w]})
        BY <3>3 DEF BodyRefresh
      <4>2. GrantInv'
        BY <3>1, <4>1, MintKeepsGrants DEF Rewrite, stores
      <4>3. AuthInv'
        BY <3>1, <4>1 DEF Mint, Rewrite, Goto, stores, AuthInv, Savable, TypeOK, InLease, GrantInv
      <4> QED
        BY <4>2, <4>3
    <3>4. CASE Load(w)
      BY <3>1, <3>4 DEF Load, Goto, Raise, stores, upstream, TypeOK, GrantInv, AuthInv, Savable, InLease
    <3>5. CASE Save(w)
      BY <3>1, <3>5 DEF Save, Goto, Raise, Put, upstream, TypeOK, GrantInv, AuthInv, Savable, InLease
    <3>6. CASE Delete(w)
      <4>1. /\ pc'[w] = "release" /\ UNCHANGED <<auth, unspent>>
            /\ \A r \in Subjects \ {s} : blob'[r] = blob[r] /\ granted'[r] = granted[r]
            /\ \/ blob'[s] = blob[s] /\ granted'[s] = granted[s]
               \/ blob'[s] = NoBlob /\ granted'[s] = {}
        BY <3>1, <3>6 DEF Delete, Goto, Raise, Unlink, call, TypeOK
      <4>2. GrantInv'
        BY <3>1, <4>1 DEF GrantInv
      <4>3. AuthInv'
        BY <3>1, <4>1 DEF AuthInv, Savable, InLease
      <4> QED
        BY <4>2, <4>3
    <3>7. CASE \/ MakeHome(w) \/ WriteAuth(w) \/ BodySpoil(w) \/ BodyEnd(w)
               \/ Seal(w) \/ Cleanup(w)
      <4>1. /\ UNCHANGED <<blob, minted, unspent, granted>>
            /\ auth'[w] \in {auth[w], NoAuth}
            /\ pc[w] \in InLease \ {"cleanup", "release"} \/ pc'[w] = "release"
        BY <3>7 DEF MakeHome, WriteAuth, BodySpoil, BodyEnd, Seal, Cleanup, Rewrite,
           Goto, Raise, stores, upstream, TypeOK, InLease
      <4>2. Busy(w)'
        BY <2>6, InnerKeepsLease
      <4> QED
        BY <3>1, <4>1, <4>2 DEF TypeOK, GrantInv, AuthInv, Savable, InLease, Busy
    <3> QED
      BY <2>6, <3>2, <3>3, <3>4, <3>5, <3>6, <3>7 DEF Inner
  <2>7. CASE UNCHANGED vars
    BY <2>7 DEF vars, upstream, GrantInv, AuthInv, Savable
  <2> QED
    BY <2>1, <2>2, <2>4, <2>5, <2>6, <2>7, NextCases
<1>3. QED
  BY <1>1, <1>2, TypeCorrect, LeaseInvariant, PTL DEF Spec

-----------------------------------------------------------------------------
(* The only steps that touch what is stored, minted, spent or granted.     *)
LEMMA RegisterCases ==
    ASSUME TypeOK, [Next]_vars
    PROVE  \/ UNCHANGED <<blob, minted, unspent, granted>>
           \/ \E w \in Workers : BodyLogin(w) \/ BodyRefresh(w) \/ Save(w) \/ Delete(w)
<1>1. ASSUME NEW w \in Workers,
             \/ \E s \in Subjects, o \in Ops : Call(w, s, o)
             \/ Acquire(w) \/ LeaseTimeout(w) \/ Release(w)
      PROVE  UNCHANGED <<blob, minted, unspent, granted>>
  BY <1>1 DEF Call, Acquire, LeaseTimeout, Release, stores, upstream
<1>2. ASSUME NEW p \in Processes, Crash(p)
      PROVE  UNCHANGED <<blob, minted, unspent, granted>>
  BY <1>2 DEF Crash, upstream
<1>3. ASSUME NEW w \in Workers,
             \/ Load(w) \/ MakeHome(w) \/ WriteAuth(w) \/ BodySpoil(w)
             \/ BodyEnd(w) \/ Seal(w) \/ Cleanup(w)
      PROVE  UNCHANGED <<blob, minted, unspent, granted>>
  BY <1>3 DEF Load, MakeHome, WriteAuth, BodySpoil, BodyEnd, Seal, Cleanup, Rewrite,
     stores, upstream
<1>4. CASE UNCHANGED vars
  BY <1>4 DEF vars
<1>5. CASE Next
  <2>1. ASSUME NEW w \in Workers, Inner(w)
        PROVE  \/ UNCHANGED <<blob, minted, unspent, granted>>
               \/ BodyLogin(w) \/ BodyRefresh(w) \/ Save(w) \/ Delete(w)
    BY <1>3, <2>1 DEF Inner
  <2> QED
    BY <1>1, <1>2, <1>5, <2>1, NextCases
<1> QED
  BY <1>4, <1>5

(* A save either stores what was stored already, or an unspent token       *)
(* granted to the subject since its last revocation.                       *)
LEMMA SaveIsCurrent ==
    ASSUME TypeOK, AuthInv, NEW w \in Workers, Save(w)
    PROVE  /\ UNCHANGED upstream
           /\ \/ UNCHANGED blob
              \/ /\ subj[w] \in Subjects
                 /\ auth[w] \in unspent \intersect granted[subj[w]]
                 /\ blob' = [blob EXCEPT ![subj[w]] = auth[w]]
<1>1. /\ subj[w] \in Subjects
      /\ auth[w] \in Tokens
      /\ Savable(w, auth[w])
  BY DEF Save, Goto, Raise, TypeOK, AuthInv, InLease
<1>2. CASE blob' = blob
  BY <1>2 DEF Save
<1>3. CASE blob' # blob
  <2>1. blob' = [blob EXCEPT ![subj[w]] = auth[w]]
    BY <1>3 DEF Save, Put
  <2>2. auth[w] # blob[subj[w]]
    BY <1>3, <2>1, <1>1 DEF TypeOK
  <2> QED
    BY <1>1, <2>1, <2>2 DEF Save, Savable
<1> QED
  BY <1>2, <1>3

(* The vault implements the credential register: each of its steps is a    *)
(* login, a refresh, a store of a live grant, a revocation or no change.   *)
THEOREM Refinement == Spec => ImplementsRegister
<1> USE VaultAssumption
<1>1. Init => Register!Init
  BY DEF Init, Register!Init
<1>2. TypeOK /\ GrantInv /\ AuthInv /\ [Next]_vars => [Register!Next]_(Register!registerVars)
  <2> SUFFICES ASSUME TypeOK, GrantInv, AuthInv, [Next]_vars
               PROVE  Register!Next \/ UNCHANGED Register!registerVars
    OBVIOUS
  <2>1. ASSUME NEW w \in Workers, BodyLogin(w) PROVE Register!Next
    <3>1. PICK t \in Tokens : Rewrite(w, t) /\ Mint(subj[w], t, {})
      BY <2>1 DEF BodyLogin
    <3>2. subj[w] \in Subjects
      BY <3>1 DEF Rewrite, Goto, TypeOK
    <3>3. Register!Login(subj[w])
      BY <3>1 DEF Register!Login, Register!Mint, Mint, Rewrite, stores
    <3> QED
      BY <3>2, <3>3 DEF Register!Next
  <2>2. ASSUME NEW w \in Workers, BodyRefresh(w) PROVE Register!Next
    <3>1. PICK t \in Tokens : Rewrite(w, t) /\ Mint(subj[w], t, {auth[w]})
      BY <2>2 DEF BodyRefresh
    <3>2. subj[w] \in Subjects /\ pc[w] = "body" /\ auth[w] \in unspent
      BY <2>2, <3>1 DEF BodyRefresh, Rewrite, Goto, TypeOK
    <3>3. auth[w] \in unspent \intersect granted[subj[w]]
      BY <3>2 DEF AuthInv, Savable, TypeOK, InLease
    <3>4. Register!Refresh(subj[w])
      BY <3>1, <3>3 DEF Register!Refresh, Register!Mint, Mint, Rewrite, stores
    <3> QED
      BY <3>2, <3>4 DEF Register!Next
  <2>3. ASSUME NEW w \in Workers, Save(w)
        PROVE  Register!Next \/ UNCHANGED Register!registerVars
    <3>1. CASE UNCHANGED blob
      BY <2>3, <3>1, SaveIsCurrent DEF Register!registerVars, upstream
    <3>2. CASE blob' # blob
      <4>1. subj[w] \in Subjects /\ Register!Store(subj[w])
        BY <2>3, <3>2, SaveIsCurrent DEF Register!Store, upstream
      <4> QED
        BY <4>1 DEF Register!Next
    <3> QED
      BY <3>1, <3>2
  <2>4. ASSUME NEW w \in Workers, Delete(w)
        PROVE  Register!Next \/ UNCHANGED Register!registerVars
    <3>1. subj[w] \in Subjects /\ UNCHANGED <<minted, unspent>>
      BY <2>4 DEF Delete, Goto, Raise, TypeOK
    <3>2. CASE Unlink(w)
      BY <3>1, <3>2 DEF Register!Next, Register!Revoke, Unlink
    <3>3. CASE UNCHANGED <<blob, granted>>
      BY <3>1, <3>3 DEF Register!registerVars
    <3> QED
      BY <2>4, <3>2, <3>3 DEF Delete
  <2> QED
    BY <2>1, <2>2, <2>3, <2>4, RegisterCases DEF Register!registerVars
<1>3. QED
  BY <1>1, <1>2, TypeCorrect, GrantInvariant, PTL
     DEF Spec, ImplementsRegister, Register!Spec

(* A replaced credential is replaced by an unspent one.                    *)
THEOREM LostRefreshImpossible == Spec => NoLostRefresh
<1> DEFINE Good == \A s \in Subjects :
             blob'[s] # blob[s] /\ blob'[s] \in Tokens => blob'[s] \in unspent
<1>1. TypeOK /\ AuthInv /\ [Next]_vars => [Good]_vars
  <2> SUFFICES ASSUME TypeOK, AuthInv, [Next]_vars PROVE Good
    OBVIOUS
  <2>1. ASSUME NEW w \in Workers, Save(w) PROVE Good
    BY <2>1, SaveIsCurrent DEF TypeOK
  <2>2. ASSUME NEW w \in Workers, Delete(w) PROVE Good
    BY <2>2, VaultAssumption DEF Delete, Unlink, TypeOK
  <2>3. ASSUME NEW w \in Workers, BodyLogin(w) \/ BodyRefresh(w) PROVE Good
    BY <2>3 DEF BodyLogin, BodyRefresh, Rewrite, stores
  <2> QED
    BY <2>1, <2>2, <2>3, RegisterCases
<1>2. QED
  BY <1>1, TypeCorrect, GrantInvariant, PTL DEF Spec, NoLostRefresh

(* A stored credential was granted to its subject since the last deletion. *)
THEOREM ResurrectionImpossible == Spec => NoResurrection
<1> DEFINE Good == \A s \in Subjects :
             blob'[s] # blob[s] /\ blob'[s] \in Tokens => blob'[s] \in granted[s]
<1>1. TypeOK /\ AuthInv /\ [Next]_vars => [Good]_vars
  <2> SUFFICES ASSUME TypeOK, AuthInv, [Next]_vars PROVE Good
    OBVIOUS
  <2>1. ASSUME NEW w \in Workers, Save(w) PROVE Good
    BY <2>1, SaveIsCurrent DEF TypeOK
  <2>2. ASSUME NEW w \in Workers, Delete(w) PROVE Good
    BY <2>2, VaultAssumption DEF Delete, Unlink, TypeOK
  <2>3. ASSUME NEW w \in Workers, BodyLogin(w) \/ BodyRefresh(w) PROVE Good
    BY <2>3 DEF BodyLogin, BodyRefresh, Rewrite, stores
  <2> QED
    BY <2>1, <2>2, <2>3, RegisterCases
<1>2. QED
  BY <1>1, TypeCorrect, GrantInvariant, PTL DEF Spec, NoResurrection

-----------------------------------------------------------------------------
(* An inner step of one worker leaves the stored credential of every other *)
(* operation alone.                                                        *)
LEMMA InnerKeepsOthers ==
    ASSUME TypeOK, LeaseInv, NEW w \in Workers, Inner(w), NEW v \in Workers \ {w}, Busy(v)
    PROVE  blob'[subj[v]] = blob[subj[v]]
<1>1. /\ subj[v] \in Subjects
      /\ subj[v] # subj[w]
  BY InnerKeepsLease DEF LeaseInv, TypeOK, Busy, InLease
<1>2. CASE UNCHANGED blob
  BY <1>2
<1>3. CASE \E x : blob' = [blob EXCEPT ![subj[w]] = x]
  BY <1>1, <1>3 DEF TypeOK
<1> QED
  BY <1>2, <1>3 DEF Inner, Load, MakeHome, WriteAuth, BodyLogin, BodyRefresh, BodySpoil,
     BodyEnd, Seal, Save, Delete, Cleanup, Rewrite, Put, Unlink, stores

(* Before the last steps nothing has failed, and an operation that failed  *)
(* nothing has its outcome in the vault when it comes to them.             *)
LEMMA OutcomeInvariant == Spec => []OutcomeInv
<1> USE VaultAssumption
<1>1. Init => OutcomeInv
  BY DEF Init, OutcomeInv
<1>2. TypeOK /\ LeaseInv /\ OutcomeInv /\ [Next]_vars => OutcomeInv'
  <2> SUFFICES ASSUME TypeOK, LeaseInv, OutcomeInv, [Next]_vars PROVE OutcomeInv'
    OBVIOUS
  <2>1. ASSUME NEW w \in Workers, NEW s \in Subjects, NEW o \in Ops, Call(w, s, o)
        PROVE OutcomeInv'
    BY <2>1 DEF Call, Goto, stores, OutcomeInv, TypeOK
  <2>2. ASSUME NEW w \in Workers, Acquire(w) PROVE OutcomeInv'
    BY <2>2 DEF Acquire, Goto, FirstStep, OutcomeInv, TypeOK, Ops
  <2>3. ASSUME NEW ws \in SUBSET Workers, NEW how \in Leaks, EndCall(ws, how), UNCHANGED blob PROVE OutcomeInv'
    BY <2>3 DEF EndCall, Freed, OutcomeInv, TypeOK
  <2>4. ASSUME NEW w \in Workers, LeaseTimeout(w) \/ Release(w) PROVE OutcomeInv'
    BY <2>3, <2>4 DEF LeaseTimeout, Release, Leaks
  <2>5. ASSUME NEW p \in Processes, Crash(p) PROVE OutcomeInv'
    <3> {w \in Workers : ProcessOf[w] = p} \in SUBSET Workers
      OBVIOUS
    <3> QED
      BY <2>3, <2>5 DEF Crash, Leaks
  <2>6. ASSUME NEW w \in Workers, Inner(w) PROVE OutcomeInv'
    <3>1. \A v \in Workers \ {w} :
            /\ pc'[v] = pc[v] /\ op'[v] = op[v] /\ subj'[v] = subj[v]
            /\ failed'[v] = failed[v] /\ auth'[v] = auth[v]
            /\ pc[v] \in {"cleanup", "release"} => blob'[subj[v]] = blob[subj[v]]
      BY <2>6, InnerKeepsLease, InnerKeepsOthers DEF Busy, InLease
    <3>2. /\ pc'[w] \notin {"cleanup", "release"} => ~failed'[w]
          /\ pc'[w] \in {"load", "write"} => op'[w] = "read"
          /\ pc'[w] = "delete" => op'[w] = "revoke"
          /\ pc'[w] \in {"mkhome", "body", "seal", "save", "cleanup"} => op'[w] # "revoke"
          /\ pc'[w] \in {"cleanup", "release"} /\ ~failed'[w] =>
               blob'[subj[w]] = IF op'[w] = "revoke" THEN NoBlob ELSE auth'[w]
      <4> USE DEF Goto, Raise, Rewrite, call, stores, TypeOK, OutcomeInv
      <4>1. CASE Load(w) \/ WriteAuth(w)   BY <4>1 DEF Load, WriteAuth
      <4>2. CASE MakeHome(w)               BY <4>2 DEF MakeHome, Ops
      <4>3. CASE BodyLogin(w)              BY <4>3 DEF BodyLogin
      <4>4. CASE BodyRefresh(w)            BY <4>4 DEF BodyRefresh
      <4>5. CASE BodySpoil(w)              BY <4>5 DEF BodySpoil
      <4>6. CASE BodyEnd(w) \/ Seal(w)     BY <4>6 DEF BodyEnd, Seal
      <4>7. CASE Save(w)                   BY <4>7 DEF Save, Put
      <4>8. CASE Delete(w)                 BY <4>8 DEF Delete, Unlink
      <4>9. CASE Cleanup(w)                BY <4>9 DEF Cleanup
      <4> QED
        BY <2>6, <4>1, <4>2, <4>3, <4>4, <4>5, <4>6, <4>7, <4>8, <4>9 DEF Inner
    <3>3. subj'[w] = subj[w]
      BY <2>6, InnerKeepsLease
    <3> QED
      BY <3>1, <3>2, <3>3 DEF OutcomeInv
  <2>7. CASE UNCHANGED vars
    BY <2>7 DEF vars, OutcomeInv
  <2> QED
    BY <2>1, <2>2, <2>4, <2>5, <2>6, <2>7, NextCases
<1>3. QED
  BY <1>1, <1>2, TypeCorrect, LeaseInvariant, PTL DEF Spec

(* A call that returned normally has its outcome in the vault.             *)
THEOREM Acknowledged == Spec => []AcknowledgedIsStored
<1>1. OutcomeInv => AcknowledgedIsStored
  BY DEF OutcomeInv, AcknowledgedIsStored
<1>2. QED
  BY <1>1, OutcomeInvariant, PTL

-----------------------------------------------------------------------------
(* If the blob provider never raises after os.replace or unlink, a failed  *)
(* operation leaves the vault as it found it.                              *)
THEOREM CleanFailure ==
    ASSUME ~Fault("sync")
    PROVE  Spec => []FailureChangesNothing
<1> USE VaultAssumption
<1>1. Init => EntryInv
  BY DEF Init, EntryInv, Busy, InLease
<1>2. TypeOK /\ LeaseInv /\ OutcomeInv /\ EntryInv /\ [Next]_vars => EntryInv'
  <2> SUFFICES ASSUME TypeOK, LeaseInv, OutcomeInv, EntryInv, [Next]_vars PROVE EntryInv'
    OBVIOUS
  <2>1. ASSUME NEW w \in Workers, NEW s \in Subjects, NEW o \in Ops, Call(w, s, o)
        PROVE EntryInv'
    BY <2>1 DEF Call, Goto, stores, EntryInv, TypeOK, Busy, InLease
  <2>2. ASSUME NEW w \in Workers, Acquire(w) PROVE EntryInv'
    BY <2>2 DEF Acquire, Goto, EntryInv, TypeOK, Busy, InLease
  <2>3. ASSUME NEW ws \in SUBSET Workers, NEW how \in Leaks, EndCall(ws, how), UNCHANGED blob PROVE EntryInv'
    BY <2>3 DEF EndCall, Freed, EntryInv, TypeOK, Busy, InLease
  <2>4. ASSUME NEW w \in Workers, LeaseTimeout(w) \/ Release(w) PROVE EntryInv'
    BY <2>3, <2>4 DEF LeaseTimeout, Release, Leaks
  <2>5. ASSUME NEW p \in Processes, Crash(p) PROVE EntryInv'
    <3> {w \in Workers : ProcessOf[w] = p} \in SUBSET Workers
      OBVIOUS
    <3> QED
      BY <2>3, <2>5 DEF Crash, Leaks
  <2>6. ASSUME NEW w \in Workers, Inner(w) PROVE EntryInv'
    <3>1. \A v \in Workers \ {w} :
            /\ pc'[v] = pc[v] /\ subj'[v] = subj[v]
            /\ failed'[v] = failed[v] /\ entry'[v] = entry[v]
            /\ Busy(v) => blob'[subj[v]] = blob[subj[v]]
      BY <2>6, InnerKeepsLease, InnerKeepsOthers
    <3>2. subj'[w] = subj[w] /\ entry'[w] = entry[w] /\ Busy(w)
      BY <2>6, InnerKeepsLease
    <3>3. pc'[w] \notin {"cleanup", "release"} \/ failed'[w] =>
            /\ pc[w] \notin {"cleanup", "release"} \/ failed[w]
            /\ blob' = blob
      <4> USE DEF Goto, Raise, Rewrite, stores, TypeOK
      <4>1. CASE Load(w) \/ WriteAuth(w) \/ MakeHome(w)
        BY <4>1 DEF Load, WriteAuth, MakeHome
      <4>2. CASE BodyLogin(w) \/ BodyRefresh(w) \/ BodySpoil(w)
        BY <4>2 DEF BodyLogin, BodyRefresh, BodySpoil
      <4>3. CASE BodyEnd(w) \/ Seal(w)
        BY <4>3 DEF BodyEnd, Seal
      <4>4. CASE Save(w)
        BY <4>4 DEF Save, OutcomeInv
      <4>5. CASE Delete(w)
        BY <4>5 DEF Delete, OutcomeInv
      <4>6. CASE Cleanup(w)
        BY <4>6 DEF Cleanup
      <4> QED
        BY <2>6, <4>1, <4>2, <4>3, <4>4, <4>5, <4>6 DEF Inner
    <3> QED
      BY <3>1, <3>2, <3>3 DEF EntryInv, Busy
  <2>7. CASE UNCHANGED vars
    BY <2>7 DEF vars, EntryInv, Busy
  <2> QED
    BY <2>1, <2>2, <2>4, <2>5, <2>6, <2>7, NextCases
<1>3. EntryInv => FailureChangesNothing
  BY DEF EntryInv, FailureChangesNothing
<1>4. QED
  BY <1>1, <1>2, <1>3, TypeCorrect, LeaseInvariant, OutcomeInvariant, PTL DEF Spec

(* No call that comes to its end has a home left to remove, whatever fails  *)
(* and whoever dies.                                                       *)
THEOREM NoOrphans == Spec => []NoOrphanedHome
<1>1. Init => HomeInv
  BY DEF Init, HomeInv
<1>2. TypeOK /\ HomeInv /\ [Next]_vars => HomeInv'
  <2> SUFFICES ASSUME TypeOK, HomeInv, [Next]_vars PROVE HomeInv'
    OBVIOUS
  <2> USE DEF HomeInv, TypeOK, Goto, Raise, Rewrite, Abandon, Leaks, call, stores
  <2>1. ASSUME NEW w \in Workers, NEW s \in Subjects, NEW o \in Ops, Call(w, s, o)
        PROVE HomeInv'
    BY <2>1 DEF Call
  <2>2. ASSUME NEW w \in Workers, Acquire(w) PROVE HomeInv'
    BY <2>2 DEF Acquire
  <2>3. ASSUME NEW ws \in SUBSET Workers, NEW how \in Leaks, EndCall(ws, how),
               how = "over" => \A w \in ws : ~home[w]
        PROVE HomeInv'
    <3>1. "over" \notin orphans'
      BY <2>3 DEF EndCall
    <3>2. \A v \in Workers : home'[v] => home[v] /\ pc'[v] = pc[v]
      BY <2>3 DEF EndCall
    <3> QED
      BY <3>1, <3>2
  <2>4. ASSUME NEW w \in Workers, LeaseTimeout(w) \/ Release(w) PROVE HomeInv'
    <3>1. EndCall({w}, "over") /\ ~home[w]
      BY <2>4 DEF LeaseTimeout, Release, Leaks
    <3> QED
      BY <2>3, <3>1
  <2>5. ASSUME NEW p \in Processes, Crash(p) PROVE HomeInv'
    <3> {w \in Workers : ProcessOf[w] = p} \in SUBSET Workers
      OBVIOUS
    <3> QED
      BY <2>3, <2>5 DEF Crash, Leaks
  <2>6. ASSUME NEW w \in Workers, Inner(w) PROVE HomeInv'
    <3>1. CASE Load(w) \/ MakeHome(w) \/ WriteAuth(w)
      BY <3>1 DEF Load, MakeHome, WriteAuth
    <3>2. CASE BodyLogin(w) \/ BodyRefresh(w) \/ BodySpoil(w) \/ BodyEnd(w)
      BY <3>2 DEF BodyLogin, BodyRefresh, BodySpoil, BodyEnd
    <3>3. CASE Seal(w) \/ Save(w) \/ Delete(w) \/ Cleanup(w)
      BY <3>3 DEF Seal, Save, Delete, Cleanup
    <3> QED
      BY <2>6, <3>1, <3>2, <3>3 DEF Inner
  <2>7. CASE UNCHANGED vars
    BY <2>7 DEF vars
  <2> QED
    BY <2>1, <2>2, <2>4, <2>5, <2>6, <2>7, NextCases
<1>3. TypeOK /\ HomeInv => NoOrphanedHome
  BY DEF TypeOK, Leaks, HomeInv, NoOrphanedHome
<1>4. QED
  BY <1>1, <1>2, <1>3, TypeCorrect, PTL DEF Spec

=============================================================================
