--------------------------- MODULE QuotaRelay_proofs ---------------------------
(***************************************************************************)
(* Theorems about QuotaRelay, for any number of workers, companions,       *)
(* subjects and pairings.                                                  *)
(***************************************************************************)
EXTENDS QuotaRelay, TLAPS

(* Claims that can be committed together: each subject and each pairing is *)
(* in one of them at most, and is free so far.                             *)
Consistent(claims) ==
    /\ claims \subseteq Subjects \X Pairings
    /\ \A c \in claims : bound[c[1]] = 0 /\ status[c[2]] = "pending"
    /\ \A c, d \in claims : c[1] = d[1] \/ c[2] = d[2] => c = d

(* What keeps the tables in agreement while transactions are open: one     *)
(* worker at a time has written something, and it can still be committed.  *)
Transactions ==
    /\ \A v, w \in Workers : lock[v] = "reserved" /\ lock[w] = "reserved" => v = w
    /\ \A w \in Workers : pending[w] # {} => lock[w] = "reserved"
    /\ \A w \in Workers : Consistent(pending[w])

Jobs == \A w \in Workers : job[w] # Idle => status[job[w][2]] # "none"

TypedTables ==
    /\ status \in [Pairings -> {"none", "pending", "claimed"}]
    /\ claimed \in [Pairings -> Subjects \union {None}]
    /\ bound \in [Subjects -> Ids]
    /\ lock \in [Workers -> {"none", "open", "shared", "reserved"}]
    /\ pending \in [Workers -> SUBSET (Subjects \X Pairings)]

TableInv == TypeOK /\ BindingsAgree /\ Transactions /\ Jobs

(* While SQLite was never busy no worker keeps an uncommitted claim, and    *)
(* the ids on their way to the keychain or the relay are read already.     *)
IsRead(p) == \E s \in Subjects : bound[s] = p

Quiet ==
    /\ ToldIsBound /\ FedIsRead
    /\ \A w \in Workers : pending[w] = {}
    /\ \A m \in Companions : ui[m] = "saving" => IsRead(session[m])
    /\ \A m \in Companions : \A p \in loaded[m] : IsRead(p)

Sessions == \A m \in Companions : ui[m] \in {"polling", "saving"} => session[m] \in Pairings

AnswerInv == Sessions /\ (busy \/ Quiet)

-----------------------------------------------------------------------------
(* Committing a consistent set of claims and some new pairings keeps the   *)
(* tables well typed and in agreement, and takes nothing back.             *)
LEMMA Applied ==
    ASSUME TypeOK, BindingsAgree, NEW claims, NEW starts,
           Consistent(claims), starts \subseteq Unstarted, Apply(claims, starts)
    PROVE  /\ status' \in [Pairings -> {"none", "pending", "claimed"}]
           /\ claimed' \in [Pairings -> Subjects \union {None}]
           /\ bound' \in [Subjects -> Ids]
           /\ BindingsAgree'
           /\ \A s \in Subjects : bound[s] # 0 => bound'[s] = bound[s]
           /\ \A c \in claims : bound'[c[1]] = c[2]
           /\ \A p \in Pairings : status[p] # "none" => status'[p] # "none"
           /\ \A p \in starts : status'[p] = "pending"
<1> USE RelayAssumption DEF Pairings, Ids
<1>1. \A s \in Subjects, p \in Pairings : <<s, p>> \in claims =>
          /\ bound[s] = 0 /\ status[p] = "pending" /\ claimed[p] = None /\ p \notin starts
          /\ \A q \in Pairings : <<s, q>> \in claims => q = p
          /\ \A t \in Subjects : <<t, p>> \in claims => t = s
  <2>1. /\ status \in [Pairings -> {"none", "pending", "claimed"}]
        /\ claimed \in [Pairings -> Subjects \union {None}]
    BY DEF TypeOK
  <2> QED
    BY <2>1 DEF Consistent, BindingsAgree, Unstarted
<1>2. \A p \in starts : p \in Pairings /\ status[p] = "none" /\ claimed[p] = None
  BY DEF Unstarted, BindingsAgree, TypeOK
<1>3. \A p \in Pairings : \A s \in Subjects : <<s, p>> \in claims =>
          claimed'[p] = s /\ bound'[s] = p /\ status'[p] = "claimed"
  <2> SUFFICES ASSUME NEW p \in Pairings, NEW s \in Subjects, <<s, p>> \in claims
               PROVE  claimed'[p] = s /\ bound'[s] = p /\ status'[p] = "claimed"
    OBVIOUS
  <2>1. (CHOOSE t \in Subjects : <<t, p>> \in claims) = s
    BY <1>1
  <2>2. (CHOOSE q \in Pairings : <<s, q>> \in claims) = p
    BY <1>1
  <2> QED
    BY <2>1, <2>2, <1>1 DEF Apply
<1>4. \A p \in Pairings : (\A s \in Subjects : <<s, p>> \notin claims) =>
          /\ claimed'[p] = claimed[p]
          /\ status'[p] = IF p \in starts THEN "pending" ELSE status[p]
  BY DEF Apply
<1>5. \A s \in Subjects : (\A p \in Pairings : <<s, p>> \notin claims) => bound'[s] = bound[s]
  BY DEF Apply
<1>6. /\ status' \in [Pairings -> {"none", "pending", "claimed"}]
      /\ claimed' \in [Pairings -> Subjects \union {None}]
      /\ bound' \in [Subjects -> Ids]
  <2>1. \A p \in Pairings : /\ status'[p] \in {"none", "pending", "claimed"}
                            /\ claimed'[p] \in Subjects \union {None}
    <3> SUFFICES ASSUME NEW p \in Pairings
                 PROVE  /\ status'[p] \in {"none", "pending", "claimed"}
                        /\ claimed'[p] \in Subjects \union {None}
      OBVIOUS
    <3>1. status[p] \in {"none", "pending", "claimed"} /\ claimed[p] \in Subjects \union {None}
      BY DEF TypeOK
    <3>2. CASE \E s \in Subjects : <<s, p>> \in claims
      BY <1>3, <3>2
    <3>3. CASE \A s \in Subjects : <<s, p>> \notin claims
      BY <1>4, <3>1, <3>3
    <3> QED
      BY <3>2, <3>3
  <2>2. \A s \in Subjects : bound'[s] \in Ids
    BY <1>3, <1>5 DEF TypeOK
  <2> QED
    BY <2>1, <2>2 DEF Apply
<1>7. BindingsAgree'
  <2>1. ASSUME NEW p \in Pairings
        PROVE  status'[p] = "claimed" <=> claimed'[p] # None
    <3>1. CASE \E s \in Subjects : <<s, p>> \in claims
      BY <3>1, <1>3
    <3>2. CASE \A s \in Subjects : <<s, p>> \notin claims
      BY <3>2, <1>4, <1>2 DEF BindingsAgree
    <3> QED
      BY <3>1, <3>2
  <2>2. ASSUME NEW p \in Pairings, NEW s \in Subjects
        PROVE  claimed'[p] = s <=> bound'[s] = p
    <3>1. CASE \E t \in Subjects : <<t, p>> \in claims
      BY <3>1, <1>1, <1>3, <1>5 DEF BindingsAgree
    <3>2. CASE \A t \in Subjects : <<t, p>> \notin claims
      BY <3>2, <1>1, <1>3, <1>4, <1>5 DEF BindingsAgree
    <3> QED
      BY <3>1, <3>2
  <2> QED
    BY <2>1, <2>2 DEF BindingsAgree
<1>8. \A c \in claims : c[1] \in Subjects /\ c[2] \in Pairings /\ c = <<c[1], c[2]>>
  BY DEF Consistent
<1> QED
  BY <1>1, <1>2, <1>3, <1>4, <1>5, <1>6, <1>7, <1>8

(* What every access to the database leaves behind.                        *)
Accessed ==
    /\ TypedTables' /\ BindingsAgree' /\ Transactions'
    /\ \A s \in Subjects : bound[s] # 0 => bound'[s] = bound[s]
    /\ \A p \in Pairings : status[p] # "none" => status'[p] # "none"

LEMMA Commits ==
    ASSUME TableInv, NEW w \in Workers, NEW claims, NEW starts,
           Consistent(pending[w] \union claims), starts \subseteq Unstarted,
           Committed(w, claims, starts)
    PROVE  /\ Accessed
           /\ \A c \in claims : bound'[c[1]] = c[2]
           /\ \A p \in starts : status'[p] = "pending"
           /\ \A v \in Workers : pending'[v] = {}
<1> USE DEF TableInv
<1>1. /\ Apply(pending[w] \union claims, starts)
      /\ \A v \in Workers \ {w} : lock[v] # "reserved"
      /\ lock' = [lock EXCEPT ![w] = "none"]
      /\ pending' = [pending EXCEPT ![w] = {}]
  BY DEF Committed, CanWrite, Others, Holds
<1>2. \A v \in Workers : pending'[v] = {} /\ lock'[v] # "reserved"
  BY <1>1 DEF Transactions, TypeOK
<1>3. /\ lock' \in [Workers -> {"none", "open", "shared", "reserved"}]
      /\ pending' \in [Workers -> SUBSET (Subjects \X Pairings)]
  BY <1>1 DEF TypeOK
<1>4. Transactions'
  BY <1>2 DEF Transactions, Consistent
<1> QED
  BY <1>1, <1>2, <1>3, <1>4, Applied DEF Accessed, TypedTables

LEMMA Fails ==
    ASSUME TableInv, NEW w \in Workers, NEW claims, NEW lockAfter,
           CanWrite(w) => Consistent(pending[w] \union claims),
           lockAfter \in {"open", "shared", lock[w]},
           Locked(w, claims, lockAfter)
    PROVE  Accessed
<1> USE DEF TableInv
<1>1. UNCHANGED <<status, claimed, bound>>
  BY DEF Locked
<1>2. BindingsAgree'
  BY <1>1 DEF BindingsAgree
<1>3. CASE CanWrite(w)
  <2>1. /\ lock' = [lock EXCEPT ![w] = "reserved"]
        /\ pending' = [pending EXCEPT ![w] = @ \union claims]
        /\ \A v \in Workers \ {w} : lock[v] # "reserved"
    BY <1>3 DEF Locked, Holds, CanWrite, Others
  <2>2. Transactions'
    BY <1>1, <1>3, <2>1 DEF Transactions, Consistent, TypeOK
  <2>3. TypedTables'
    BY <1>1, <1>3, <2>1 DEF TypedTables, TypeOK, Consistent
  <2> QED
    BY <1>1, <1>2, <2>2, <2>3 DEF Accessed
<1>4. CASE ~CanWrite(w)
  <2>1. /\ lock' = [lock EXCEPT ![w] = lockAfter]
        /\ pending' = [pending EXCEPT ![w] = @ \union {}]
    BY <1>4 DEF Locked, Holds
  <2>2. pending' = pending
    BY <2>1 DEF TypeOK
  <2>3. lock[w] # "reserved"
    BY <1>4 DEF CanWrite, Others, Transactions
  <2>4. Transactions'
    BY <1>1, <2>1, <2>2, <2>3 DEF Transactions, Consistent, TypeOK
  <2>5. TypedTables'
    BY <1>1, <2>1, <2>2 DEF TypedTables, TypeOK
  <2> QED
    BY <1>1, <1>2, <2>4, <2>5 DEF Accessed
<1> QED
  BY <1>3, <1>4

LEMMA Halves ==
    ASSUME TableInv, NEW w \in Workers, CommittedHalf(w)
    PROVE  Accessed
<1> USE DEF TableInv
<1>1. PICK lockAfter \in {"open", "reserved"} : lock' = [lock EXCEPT ![w] = lockAfter]
  BY DEF CommittedHalf, Holds
<1>2. /\ Apply(pending[w], {})
      /\ \A v \in Workers \ {w} : lock[v] # "reserved"
      /\ pending' = [pending EXCEPT ![w] = {}]
  BY DEF CommittedHalf, CanWrite, Others
<1>3. \A v \in Workers : pending'[v] = {} /\ (v # w => lock'[v] # "reserved")
  BY <1>1, <1>2 DEF Transactions, TypeOK
<1>4. /\ lock' \in [Workers -> {"none", "open", "shared", "reserved"}]
      /\ pending' \in [Workers -> SUBSET (Subjects \X Pairings)]
  BY <1>1, <1>2 DEF TypeOK
<1>5. Transactions'
  BY <1>3 DEF Transactions, Consistent
<1>6. Consistent(pending[w]) /\ {} \subseteq Unstarted
  BY DEF Transactions
<1> QED
  BY <1>2, <1>4, <1>5, <1>6, Applied DEF Accessed, TypedTables

(* A step that leaves the tables and what is pending alone, and gives no   *)
(* worker the reserved lock.                                               *)
LEMMA Unwritten ==
    ASSUME TableInv, NEW w \in Workers, UNCHANGED <<status, claimed, bound, pending>>,
           NEW lockAfter \in {"none", "open", "shared", lock[w]},
           lock[w] = "reserved" => lockAfter = "reserved",
           lock' = [lock EXCEPT ![w] = lockAfter]
    PROVE  Accessed
BY DEF TableInv, Accessed, TypedTables, BindingsAgree, Transactions, Consistent, TypeOK

LEMMA Reads ==
    ASSUME TableInv, NEW w \in Workers, UNCHANGED <<status, claimed, bound, pending>>, Read(w)
    PROVE  Accessed
BY Unwritten DEF Read, Holds

LEMMA Untouched ==
    ASSUME TableInv, UNCHANGED <<status, claimed, bound, pending, lock>>
    PROVE  Accessed
BY DEF TableInv, Accessed, TypedTables, BindingsAgree, Transactions, Consistent, TypeOK

-----------------------------------------------------------------------------
LEMMA Saved ==
    ASSUME TypeOK, NEW m \in Companions, NEW what \in {"id", "token"}, NEW p \in Ids,
           Save(m, what, p)
    PROVE  key' \in [Companions -> [id : Ids, token : Ids]]
<1>1. key[m] \in [id : Ids, token : Ids]
  BY DEF TypeOK
<1>2. [key[m] EXCEPT ![what] = p] \in [id : Ids, token : Ids]
  BY <1>1
<1>3. key' = [key EXCEPT ![m] = [key[m] EXCEPT ![what] = p]]
  BY DEF Save
<1> QED
  BY <1>2, <1>3 DEF TypeOK

(* The push that has loaded this id ends.                                  *)
PushOf(m, id) ==
    /\ loaded' \in {loaded, [loaded EXCEPT ![m] = @ \ {id}]}
    /\ \E w \in Workers :
          IF key[m].token = id
            THEN \/ Committed(w, {}, {}) /\ fed' = fed \union {id}
                 \/ /\ Locked(w, {}, IF lock[w] = "open" THEN "shared" ELSE Opened(w))
                    /\ UNCHANGED fed
            ELSE Read(w) /\ UNCHANGED <<status, claimed, bound, fed, pending, busy>>
    /\ UNCHANGED <<expired, job, told, ui, session, tries, key>>

LEMMA TableStep ==
    ASSUME TableInv, [Next]_vars
    PROVE  TableInv' /\ (\A s \in Subjects : bound[s] # 0 => bound'[s] = bound[s])
<1> DEFINE Rest ==
        /\ fed' \subseteq Pairings /\ expired' \subseteq Pairings
        /\ job' \in [Workers -> (Subjects \X Pairings) \union {Idle}]
        /\ told' \in [Subjects -> Ids] /\ busy' \in BOOLEAN
        /\ ui' \in [Companions -> {"ready", "starting", "polling", "saving"}]
        /\ session' \in [Companions -> Ids]
        /\ tries' \in [Companions -> 0..MaxPolls]
        /\ key' \in [Companions -> [id : Ids, token : Ids]]
        /\ loaded' \in [Companions -> SUBSET Pairings]
<1> SUFFICES Accessed /\ Rest /\ Jobs'
  BY DEF Accessed, TableInv, TypedTables, TypeOK
<1> USE RelayAssumption DEF Pairings, Ids, Idle
<1>1. ASSUME NEW w \in Workers, NEW s \in Subjects, NEW p \in Pairings, ClaimRead(w, s, p)
      PROVE  Accessed /\ Rest /\ Jobs'
  <2>1. Accessed
    BY <1>1, Reads DEF ClaimRead
  <2>2. job' = job \/ job' = [job EXCEPT ![w] = <<s, p>>]
    BY <1>1 DEF ClaimRead
  <2>3. status[p] # "none" /\ UNCHANGED <<status, loaded>>
    BY <1>1 DEF ClaimRead, companion
  <2>4. Jobs'
    <3>1. <<s, p>>[2] = p
      OBVIOUS
    <3> QED
      BY <2>2, <2>3, <3>1 DEF TableInv, TypeOK, Jobs
  <2>5. told' = told \/ told' = [told EXCEPT ![s] = p]
    BY <1>1 DEF ClaimRead
  <2>6. Rest
    <3>1. <<s, p>> \in Subjects \X Pairings /\ p \in Ids
      OBVIOUS
    <3>2. job' \in [Workers -> (Subjects \X Pairings) \union {Idle}]
      BY <2>2, <3>1 DEF TableInv, TypeOK
    <3>3. told' \in [Subjects -> Ids]
      BY <2>5, <3>1 DEF TableInv, TypeOK
    <3>4. UNCHANGED <<fed, expired, busy, ui, session, tries, key, loaded>>
      BY <1>1 DEF ClaimRead, companion
    <3> QED
      BY <3>2, <3>3, <3>4 DEF TableInv, TypeOK
  <2> QED
    BY <2>1, <2>4, <2>6
<1>2. ASSUME NEW w \in Workers, ClaimWrite(w)
      PROVE  Accessed /\ Rest /\ Jobs'
  <2>1. PICK s \in Subjects, p \in Pairings :
          /\ job[w] = <<s, p>>
          /\ job' = [job EXCEPT ![w] = Idle]
          /\ \/ /\ Unique(w, s, p)
                /\ Committed(w, {<<s, p>>}, {})
                /\ told' = [told EXCEPT ![s] = p]
             \/ /\ Unique(w, s, p) \/ ~CanWrite(w)
                /\ Locked(w, {<<s, p>>}, Opened(w))
                /\ UNCHANGED told
             \/ /\ ~Unique(w, s, p) /\ CanWrite(w)
                /\ Holds(w, "reserved")
                /\ UNCHANGED <<status, claimed, bound, pending, told, busy>>
          /\ UNCHANGED <<fed, expired, companion>>
    BY <1>2 DEF ClaimWrite
  <2>2. Unique(w, s, p) => Consistent(pending[w] \union {<<s, p>>})
    <3>1. status[p] # "none"
      <4>1. job[w] = <<s, p>> /\ <<s, p>> # Idle /\ <<s, p>>[2] = p
        BY <2>1
      <4> QED
        BY <4>1 DEF TableInv, Jobs
    <3>2. Unique(w, s, p) => bound[s] = 0 /\ status[p] = "pending"
      BY <3>1 DEF Unique, TableInv, TypeOK, BindingsAgree
    <3> QED
      BY <3>2 DEF Unique, Consistent, TableInv, Transactions
  <2>3. Opened(w) \in {"open", "shared", lock[w]}
    BY DEF Opened
  <2>4. CASE Unique(w, s, p) /\ Committed(w, {<<s, p>>}, {}) /\ told' = [told EXCEPT ![s] = p]
    <3>1. Accessed
      BY <2>2, <2>4, Commits
    <3>2. Rest
      BY <2>1, <2>4 DEF Committed, companion, TableInv, TypeOK
    <3> QED
      BY <2>1, <3>1, <3>2 DEF Accessed, TableInv, Jobs, TypeOK, companion
  <2>5. CASE (Unique(w, s, p) \/ ~CanWrite(w)) /\ Locked(w, {<<s, p>>}, Opened(w)) /\ UNCHANGED told
    <3>1. Accessed
      BY <2>2, <2>3, <2>5, Fails
    <3>2. Rest
      BY <2>1, <2>5 DEF Locked, companion, TableInv, TypeOK
    <3> QED
      BY <2>1, <3>1, <3>2 DEF Accessed, TableInv, Jobs, TypeOK, companion
  <2>6. CASE /\ ~Unique(w, s, p) /\ CanWrite(w)
             /\ Holds(w, "reserved")
             /\ UNCHANGED <<status, claimed, bound, pending, told, busy>>
    <3>1. \A v \in Workers \ {w} : lock[v] # "reserved"
      BY <2>6 DEF CanWrite, Others
    <3>2. Accessed
      BY <2>6, <3>1 DEF Holds, TableInv, Accessed, TypedTables, BindingsAgree, Transactions,
                        Consistent, TypeOK
    <3> QED
      BY <2>1, <2>6, <3>2 DEF companion, TableInv, TypeOK, Jobs
  <2> QED
    BY <2>1, <2>4, <2>5, <2>6
<1>3. ASSUME NEW w \in Workers, Restart(w)
      PROVE  Accessed /\ Rest /\ Jobs'
  <2>1. Accessed
    BY <1>3 DEF Restart, Holds, TableInv, Accessed, TypedTables, BindingsAgree,
                Transactions, Consistent, TypeOK
  <2> QED
    BY <1>3, <2>1 DEF Restart, companion, TableInv, TypeOK, Jobs
<1>4. ASSUME NEW p \in Pairings, Expire(p)
      PROVE  Accessed /\ Rest /\ Jobs'
  BY <1>4, Untouched DEF Expire, companion, TableInv, TypeOK, Jobs
<1>5. ASSUME NEW m \in Companions, ConnectPressed(m)
      PROVE  Accessed /\ Rest /\ Jobs'
  BY <1>5, Untouched DEF ConnectPressed, Ui, relay, TableInv, TypeOK, Jobs
<1>6. ASSUME NEW m \in Companions, StartPairing(m)
      PROVE  Accessed /\ Rest /\ Jobs'
  <2>1. CASE \E w \in Workers, p \in Unstarted :
               /\ Committed(w, {}, {p})
               /\ \/ Ui(m, "polling") /\ Session(m, p) /\ tries' = [tries EXCEPT ![m] = 0]
                  \/ NoPairing(m)
    <3>1. PICK w \in Workers, p \in Unstarted :
               /\ Committed(w, {}, {p})
               /\ \/ Ui(m, "polling") /\ Session(m, p) /\ tries' = [tries EXCEPT ![m] = 0]
                  \/ NoPairing(m)
      BY <2>1
    <3>2. Consistent(pending[w] \union {})
      BY DEF TableInv, Transactions
    <3>3. Accessed
      BY <3>1, <3>2, Commits
    <3>4. p \in Ids /\ 0 \in 0..MaxPolls
      BY DEF Unstarted
    <3>5. ui' = [ui EXCEPT ![m] = "polling"] \/ ui' = [ui EXCEPT ![m] = "ready"]
      BY <3>1 DEF Ui, NoPairing
    <3>6. session' = session \/ session' = [session EXCEPT ![m] = p]
      BY <3>1 DEF Session, NoPairing
    <3>7. tries' = tries \/ tries' = [tries EXCEPT ![m] = 0]
      BY <3>1 DEF NoPairing
    <3>8. UNCHANGED <<fed, expired, job, told, key, loaded, busy>>
      BY <1>6, <3>1 DEF StartPairing, Committed
    <3>9. Rest
      <4>1. ui' \in [Companions -> {"ready", "starting", "polling", "saving"}]
        BY <3>5 DEF TableInv, TypeOK
      <4>2. tries' \in [Companions -> 0..MaxPolls]
        BY <3>4, <3>7 DEF TableInv, TypeOK
      <4>3. session' \in [Companions -> Ids]
        <5>1. session \in [Companions -> Ids]
          BY DEF TableInv, TypeOK
        <5> HIDE DEF Ids
        <5> QED
          BY <3>4, <3>6, <5>1
      <4> QED
        BY <3>8, <4>1, <4>2, <4>3 DEF TableInv, TypeOK
    <3> QED
      BY <1>6, <3>3, <3>9 DEF StartPairing, Accessed, TableInv, Jobs, TypeOK
  <2>2. CASE \E w \in Workers : (CommittedHalf(w) \/ Locked(w, {}, Opened(w))) /\ NoPairing(m)
    <3>1. PICK w \in Workers : (CommittedHalf(w) \/ Locked(w, {}, Opened(w))) /\ NoPairing(m)
      BY <2>2
    <3>2. Consistent(pending[w] \union {})
      BY DEF TableInv, Transactions
    <3>3. Accessed
      BY <3>1, <3>2, Fails, Halves DEF Opened
    <3>4. Rest
      BY <1>6, <3>1 DEF StartPairing, CommittedHalf, Locked, Ui, NoPairing, TableInv, TypeOK
    <3> QED
      BY <1>6, <3>3, <3>4 DEF StartPairing, Accessed, TableInv, Jobs, TypeOK
  <2>3. CASE NoPairing(m) /\ UNCHANGED <<status, claimed, bound, lock, pending, busy>>
    BY <1>6, <2>3, Untouched DEF StartPairing, NoPairing, Ui, TableInv, TypeOK, Jobs
  <2> QED
    BY <1>6, <2>1, <2>2, <2>3 DEF StartPairing
<1>7. ASSUME NEW m \in Companions, Poll(m)
      PROVE  Accessed /\ Rest /\ Jobs'
  <2>1. Accessed
    BY <1>7, Reads, Untouched DEF Poll
  <2>2. key' \in [Companions -> [id : Ids, token : Ids]]
    <3>1. session[m] \in Ids /\ 0 \in Ids
      BY DEF TableInv, TypeOK
    <3>2. UNCHANGED key \/ Save(m, "id", session[m]) \/ Save(m, "id", 0)
      BY <1>7 DEF Poll, SavedId
    <3> QED
      BY <3>1, <3>2, Saved DEF TableInv, TypeOK
  <2>3. ui' \in [Companions -> {"ready", "starting", "polling", "saving"}]
    <3>1. ui' = ui \/ (\E state \in {"ready", "saving"} : ui' = [ui EXCEPT ![m] = state])
      BY <1>7 DEF Poll, SavedId, Ui
    <3> QED
      BY <3>1 DEF TableInv, TypeOK
  <2>4. tries' \in [Companions -> 0..MaxPolls]
    BY <1>7 DEF Poll, TableInv, TypeOK
  <2>5. Rest
    BY <1>7, <2>2, <2>3, <2>4 DEF Poll, TableInv, TypeOK
  <2> QED
    BY <1>7, <2>1, <2>5 DEF Poll, Accessed, TableInv, Jobs, TypeOK
<1>8. ASSUME NEW m \in Companions, GiveUp(m) \/ SaveToken(m) \/ Quit(m) \/ LoadId(m)
      PROVE  Accessed /\ Rest /\ Jobs'
  <2>1. UNCHANGED relay
    BY <1>8 DEF GiveUp, SaveToken, Quit, LoadId
  <2>2. key' \in [Companions -> [id : Ids, token : Ids]]
    <3>1. session[m] \in Ids /\ 0 \in Ids
      BY DEF TableInv, TypeOK
    <3>2. UNCHANGED key \/ Save(m, "token", session[m]) \/ Save(m, "token", 0)
      BY <1>8 DEF GiveUp, SaveToken, Quit, LoadId
    <3> QED
      BY <3>1, <3>2, Saved DEF TableInv, TypeOK
  <2>3. ui' = ui \/ ui' = [ui EXCEPT ![m] = "ready"]
    BY <1>8 DEF GiveUp, SaveToken, Quit, LoadId, Ui
  <2>4. session' = session \/ session' = [session EXCEPT ![m] = 0]
    BY <1>8 DEF GiveUp, SaveToken, Quit, LoadId, Session
  <2>5. loaded' \in [Companions -> SUBSET Pairings]
    <3>1. CASE UNCHANGED loaded \/ loaded' = [loaded EXCEPT ![m] = {}]
      BY <3>1 DEF TableInv, TypeOK
    <3>2. CASE LoadId(m)
      <4>1. key[m].id \in Pairings
        BY <3>2 DEF LoadId, TableInv, TypeOK
      <4> QED
        BY <3>2, <4>1 DEF LoadId, TableInv, TypeOK
    <3> QED
      BY <1>8, <3>1, <3>2 DEF GiveUp, SaveToken, Quit
  <2>6. UNCHANGED tries
    BY <1>8 DEF GiveUp, SaveToken, Quit, LoadId
  <2>7. Rest
    <3>1. UNCHANGED <<fed, expired, job, told, busy, tries>>
      BY <2>1, <2>6 DEF relay
    <3>2. ui' \in [Companions -> {"ready", "starting", "polling", "saving"}]
      BY <2>3 DEF TableInv, TypeOK
    <3>3. session' \in [Companions -> Ids]
      <4>1. 0 \in Ids /\ session \in [Companions -> Ids]
        BY DEF TableInv, TypeOK
      <4> HIDE DEF Ids
      <4> QED
        BY <2>4, <4>1
    <3> QED
      BY <2>2, <2>5, <3>1, <3>2, <3>3 DEF TableInv, TypeOK
  <2> QED
    BY <2>1, <2>5, <2>7, Untouched DEF relay, TableInv, TypeOK, Jobs
<1>9. ASSUME NEW m \in Companions, Push(m)
      PROVE  Accessed /\ Rest /\ Jobs'
  <2> PICK id \in loaded[m] : PushOf(m, id)
    BY <1>9 DEF Push, PushOf
  <2>1. PICK w \in Workers :
          IF key[m].token = id
            THEN \/ Committed(w, {}, {}) /\ fed' = fed \union {id}
                 \/ /\ Locked(w, {}, IF lock[w] = "open" THEN "shared" ELSE Opened(w))
                    /\ UNCHANGED fed
            ELSE Read(w) /\ UNCHANGED <<status, claimed, bound, fed, pending, busy>>
    BY DEF PushOf
  <2>2. Consistent(pending[w] \union {})
    BY DEF TableInv, Transactions
  <2>3. Accessed
    BY <2>1, <2>2, Commits, Fails, Reads DEF Opened
  <2>4. busy' \in BOOLEAN
    BY <2>1 DEF Committed, Locked, TableInv, TypeOK
  <2>5. fed' \subseteq Pairings
    <3>1. id \in Pairings
      BY DEF TableInv, TypeOK
    <3> QED
      BY <2>1, <3>1 DEF TableInv, TypeOK
  <2>6. Rest
    BY <2>4, <2>5 DEF PushOf, TableInv, TypeOK
  <2> QED
    BY <2>3, <2>6 DEF PushOf, Accessed, TableInv, Jobs, TypeOK
<1>10. ASSUME NEW w \in Workers, ReadOnly(w)
       PROVE  Accessed /\ Rest /\ Jobs'
  BY <1>10, Reads DEF ReadOnly, companion, Accessed, TableInv, TypeOK, Jobs
<1>11. CASE UNCHANGED vars
  BY <1>11, Untouched DEF vars, TableInv, TypeOK, Jobs
<1> QED
  BY <1>1, <1>2, <1>3, <1>4, <1>5, <1>6, <1>7, <1>8, <1>9, <1>10, <1>11 DEF Next, Step

LEMMA TableInit == Init => TableInv
<1> SUFFICES ASSUME Init PROVE TableInv
  OBVIOUS
<1> USE RelayAssumption DEF Init, Pairings, Ids
<1>1. TypeOK
  <2>1. 0 \in Ids /\ 0 \in 0..MaxPolls
    OBVIOUS
  <2>2. /\ status \in [Pairings -> {"none", "pending", "claimed"}]
        /\ claimed \in [Pairings -> Subjects \union {None}]
        /\ lock \in [Workers -> {"none", "open", "shared", "reserved"}]
        /\ ui \in [Companions -> {"ready", "starting", "polling", "saving"}]
        /\ pending \in [Workers -> SUBSET (Subjects \X Pairings)]
        /\ job \in [Workers -> (Subjects \X Pairings) \union {Idle}]
    OBVIOUS
  <2> HIDE DEF Ids
  <2>3. /\ bound \in [Subjects -> Ids] /\ told \in [Subjects -> Ids]
        /\ session \in [Companions -> Ids]
        /\ tries \in [Companions -> 0..MaxPolls]
    BY <2>1
  <2>4. /\ key \in [Companions -> [id : Ids, token : Ids]]
        /\ loaded \in [Companions -> SUBSET Pairings]
    BY <2>1
  <2> QED
    BY <2>2, <2>3, <2>4 DEF TypeOK
<1>2. BindingsAgree
  BY DEF BindingsAgree
<1>3. Transactions
  BY DEF Transactions, Consistent
<1>4. Jobs
  BY DEF Jobs
<1> QED
  BY <1>1, <1>2, <1>3, <1>4 DEF TableInv

LEMMA TableInvariant == Spec => []TableInv
BY TableInit, TableStep, PTL DEF Spec

(* Every reachable state is well typed.                                    *)
THEOREM TypeCorrect == Spec => []TypeOK
BY TableInvariant, PTL DEF TableInv

(* The two tables agree, whatever transactions are open or rolled back.    *)
THEOREM TablesAgree == Spec => []BindingsAgree
BY TableInvariant, PTL DEF TableInv

(* No step takes an installation from its subject.                         *)
THEOREM BindingKept == Spec => BindingIsForGood
<1>1. TableInv /\ [Next]_vars => [\A s \in Subjects : bound[s] # 0 => bound'[s] = bound[s]]_vars
  BY TableStep
<1> QED
  BY <1>1, TableInvariant, PTL DEF Spec, BindingIsForGood

-----------------------------------------------------------------------------
LEMMA SessionStep ==
    ASSUME TableInv, Sessions, [Next]_vars
    PROVE  Sessions'
<1> USE DEF TableInv, TypeOK, Sessions
<1>1. ASSUME NEW m \in Companions, StartPairing(m) PROVE Sessions'
  BY <1>1 DEF StartPairing, Ui, Session, NoPairing, Unstarted
<1>2. ASSUME NEW m \in Companions, Poll(m) PROVE Sessions'
  BY <1>2 DEF Poll, SavedId, Ui
<1>3. ASSUME NEW m \in Companions,
             ConnectPressed(m) \/ GiveUp(m) \/ SaveToken(m) \/ Quit(m) \/ LoadId(m) \/ Push(m)
      PROVE  Sessions'
  BY <1>3 DEF ConnectPressed, GiveUp, SaveToken, Quit, LoadId, Push, Ui, Session
<1>4. ASSUME NEW w \in Workers,
             \/ ClaimWrite(w) \/ ReadOnly(w) \/ Restart(w)
             \/ \E s \in Subjects, p \in Pairings : ClaimRead(w, s, p)
      PROVE  Sessions'
  BY <1>4 DEF ClaimWrite, ReadOnly, Restart, ClaimRead, companion
<1>5. CASE UNCHANGED vars \/ \E p \in Pairings : Expire(p)
  BY <1>5 DEF vars, Expire, companion
<1> QED
  BY <1>1, <1>2, <1>3, <1>4, <1>5 DEF Next, Step

LEMMA AnswerStep ==
    ASSUME TableInv, AnswerInv, [Next]_vars
    PROVE  AnswerInv'
<1>1. Sessions'
  BY SessionStep DEF AnswerInv
<1> SUFFICES ASSUME ~busy' PROVE Quiet'
  BY <1>1 DEF AnswerInv
<1> USE RelayAssumption DEF Pairings, Ids
<1>2. \A w \in Workers : /\ ~CommittedHalf(w)
                         /\ \A claims, lockAfter : ~Locked(w, claims, lockAfter)
  BY DEF Locked, CommittedHalf
<1>3. ~busy
  <2>1. ASSUME NEW w \in Workers, ClaimWrite(w) PROVE busy' = busy
    BY <1>2, <2>1 DEF ClaimWrite, Committed
  <2>2. ASSUME NEW m \in Companions, StartPairing(m) PROVE busy' = busy
    BY <1>2, <2>2 DEF StartPairing, Committed
  <2>3. ASSUME NEW m \in Companions, Push(m) PROVE busy' = busy
    BY <1>2, <2>3 DEF Push, Committed
  <2> QED
    BY <2>1, <2>2, <2>3
       DEF Next, Step, vars, relay, companion, ReadOnly, Restart, ClaimRead, Expire, ConnectPressed,
           Poll, GiveUp, SaveToken, Quit, LoadId
<1>4. /\ Quiet
      /\ \A m \in Companions : ui[m] \in {"polling", "saving"} => session[m] \in Pairings
  BY <1>3 DEF AnswerInv, Sessions
<1>5. /\ \A s \in Subjects : bound[s] # 0 => bound'[s] = bound[s]
      /\ \A p \in Pairings : IsRead(p) => IsRead(p)'
  BY TableStep DEF IsRead
<1>6. \A w \in Workers, p \in Pairings, s \in Subjects : s \in Seen(w, p) => bound[s] = p
  BY <1>4 DEF Seen, Quiet, TableInv, BindingsAgree
<1>6a. ASSUME ToldIsBound', \A w \in Workers : pending'[w] = {},
              \A p \in fed' : p \in fed \/ IsRead(p),
              \A m \in Companions : key'[m].id = key[m].id,
              \A m \in Companions : ui'[m] = "saving" => ui[m] = "saving" /\ session'[m] = session[m],
              \A m \in Companions : loaded'[m] \subseteq loaded[m]
       PROVE  Quiet'
  <2>1. \A p \in Pairings : p \in fed => IsRead(p)
    BY <1>4 DEF Quiet, FedIsRead, IsRead
  <2>2. \A p \in Pairings : (\E m \in Companions : key[m].id = p) => IsRead(p)
    BY <1>4 DEF Quiet, FedIsRead, IsRead
  <2>3. \A p \in Pairings :
          p \in fed' \/ (\E m \in Companions : key'[m].id = p) => IsRead(p)'
    BY <1>5, <1>6a, <2>1, <2>2
  <2>4. FedIsRead'
    BY <2>3 DEF FedIsRead, IsRead
  <2>5. \A m \in Companions : ui'[m] = "saving" => IsRead(session[m])' /\ session'[m] = session[m]
    BY <1>4, <1>5, <1>6a DEF Quiet
  <2>6. \A m \in Companions : \A p \in loaded'[m] : IsRead(p)'
    <3>1. \A m \in Companions : loaded[m] \subseteq Pairings
      BY DEF TableInv, TypeOK
    <3> QED
      BY <1>4, <1>5, <1>6a, <3>1 DEF Quiet
  <2>7. \A m \in Companions : ui'[m] = "saving" => IsRead(session[m])'
    BY <2>5
  <2> QED
    BY <1>6a, <2>4, <2>6, <2>7 DEF Quiet
<1> DEFINE Same == UNCHANGED <<told, fed, ui, session, key, loaded>>
<1>7. ASSUME Same, \A w \in Workers : pending'[w] = {} PROVE Quiet'
  <2>1. ToldIsBound'
    BY <1>4, <1>5, <1>7 DEF Quiet, ToldIsBound, TableInv, TypeOK
  <2> QED
    BY <1>7, <2>1, <1>6a
<1>8. ASSUME NEW w \in Workers, NEW s \in Subjects, NEW p \in Pairings, ClaimRead(w, s, p)
      PROVE  Quiet'
  <2>1. UNCHANGED <<bound, fed, pending, ui, session, key, loaded>>
    BY <1>8 DEF ClaimRead, companion
  <2>2. told' = told \/ (told' = [told EXCEPT ![s] = p] /\ bound[s] = p)
    BY <1>8, <1>6 DEF ClaimRead
  <2> QED
    BY <1>4, <2>1, <2>2 DEF Quiet, ToldIsBound, FedIsRead, IsRead, TableInv, TypeOK
<1>9. ASSUME NEW w \in Workers, ClaimWrite(w)
      PROVE  Quiet'
  <2>1. UNCHANGED <<fed, ui, session, key, loaded>>
    BY <1>9 DEF ClaimWrite, companion
  <2>2. CASE UNCHANGED <<pending, told>>
    BY <1>4, <1>7, <2>1, <2>2 DEF Quiet
  <2>3. CASE ~UNCHANGED <<pending, told>>
    <3>1. PICK s \in Subjects, p \in Pairings :
            /\ job[w] = <<s, p>>
            /\ Unique(w, s, p)
            /\ Committed(w, {<<s, p>>}, {})
            /\ told' = [told EXCEPT ![s] = p]
      BY <1>2, <1>9, <2>3 DEF ClaimWrite
    <3>2. Consistent(pending[w] \union {<<s, p>>})
      <4>1. <<s, p>> # Idle /\ <<s, p>>[2] = p
        BY DEF Idle
      <4>2. status[p] # "none"
        BY <3>1, <4>1 DEF TableInv, Jobs
      <4>3. bound[s] = 0 /\ status[p] = "pending"
        <5>1. /\ status \in [Pairings -> {"none", "pending", "claimed"}]
              /\ claimed \in [Pairings -> Subjects \union {None}]
          BY DEF TableInv, TypeOK
        <5> QED
          BY <3>1, <4>2, <5>1 DEF Unique, TableInv, BindingsAgree
      <4> QED
        BY <3>1, <4>3 DEF Unique, Consistent, TableInv, Transactions
    <3>3. bound'[s] = p /\ \A v \in Workers : pending'[v] = {}
      <4>1. Committed(w, {<<s, p>>}, {})
        BY <3>1
      <4>2. \A v \in Workers : pending'[v] = {}
        BY <1>4, <4>1 DEF Committed, Quiet, TableInv, TypeOK
      <4>3. \A c \in {<<s, p>>} : bound'[c[1]] = c[2]
        BY <3>2, <4>1, Commits
      <4> QED
        BY <4>2, <4>3
    <3>4. ToldIsBound'
      BY <1>4, <1>5, <3>1, <3>3 DEF Quiet, ToldIsBound, TableInv, TypeOK
    <3> QED
      BY <1>6a, <2>1, <3>3, <3>4
  <2> QED
    BY <2>2, <2>3
<1>10. ASSUME NEW w \in Workers, Restart(w) PROVE Quiet'
  BY <1>4, <1>7, <1>10 DEF Restart, companion, Quiet, TableInv, TypeOK
<1>11. ASSUME NEW p \in Pairings, Expire(p) PROVE Quiet'
  BY <1>4, <1>7, <1>11 DEF Expire, companion, Quiet
<1>12. ASSUME NEW m \in Companions, StartPairing(m) PROVE Quiet'
  <2>1. \A w \in Workers : pending'[w] = {}
    BY <1>2, <1>4, <1>12 DEF StartPairing, Committed, Quiet, TableInv, TypeOK
  <2>2. \A n \in Companions : ui'[n] = "saving" => ui[n] = "saving" /\ session'[n] = session[n]
    BY <1>12 DEF StartPairing, Ui, Session, NoPairing, TableInv, TypeOK
  <2>3. UNCHANGED <<told, fed, key, loaded>>
    BY <1>12 DEF StartPairing
  <2>4. ToldIsBound'
    BY <1>4, <1>5, <2>3 DEF Quiet, ToldIsBound, TableInv, TypeOK
  <2> QED
    BY <1>6a, <2>1, <2>2, <2>3, <2>4
<1>13. ASSUME NEW m \in Companions, Poll(m) PROVE Quiet'
  <2>1. UNCHANGED <<bound, pending, told, fed, session, loaded>>
    BY <1>13 DEF Poll
  <2>2. session[m] \in Pairings
    BY <1>4, <1>13 DEF Poll
  <2>3. \/ UNCHANGED <<ui, key>>
        \/ /\ IsRead(session[m])
           /\ \/ Save(m, "id", session[m]) /\ Ui(m, "saving")
              \/ Save(m, "id", 0) /\ Ui(m, "ready")
    <3>1. \A w \in Workers : IsClaimed(w, m) => IsRead(session[m])
      BY <1>6, <2>2 DEF IsClaimed, IsRead, Seen
    <3> QED
      BY <1>13, <3>1 DEF Poll, SavedId
  <2>4. \A n \in Companions : ui'[n] = "saving" => IsRead(session[n])
    BY <1>4, <2>3 DEF Quiet, Ui, TableInv, TypeOK
  <2>5. \A n \in Companions : key'[n].id = key[n].id \/ key'[n].id = 0 \/ IsRead(key'[n].id)
    <3>1. CASE Save(m, "id", session[m]) /\ IsRead(session[m])
      BY <3>1 DEF Save, TableInv, TypeOK
    <3>2. CASE Save(m, "id", 0)
      BY <3>2 DEF Save, TableInv, TypeOK
    <3> QED
      BY <2>3, <3>1, <3>2
  <2> QED
    BY <1>4, <2>1, <2>4, <2>5 DEF Quiet, ToldIsBound, FedIsRead, IsRead
<1>14. ASSUME NEW m \in Companions, GiveUp(m) \/ SaveToken(m) \/ Quit(m) \/ ConnectPressed(m)
       PROVE  Quiet'
  <2>1. UNCHANGED <<bound, pending, told, fed>>
    BY <1>14 DEF GiveUp, SaveToken, Quit, ConnectPressed, relay
  <2>2. \A n \in Companions : ui'[n] = "saving" => ui[n] = "saving" /\ session'[n] = session[n]
    BY <1>14 DEF GiveUp, SaveToken, Quit, ConnectPressed, Ui, Session, TableInv, TypeOK
  <2>3. \A n \in Companions : key'[n].id = key[n].id
    <3>1. UNCHANGED key \/ Save(m, "token", session[m]) \/ Save(m, "token", 0)
      BY <1>14 DEF GiveUp, SaveToken, Quit, ConnectPressed
    <3>2. ASSUME NEW p, Save(m, "token", p)
          PROVE  \A n \in Companions : key'[n].id = key[n].id
      <4>1. key[m] \in [id : Ids, token : Ids]
        BY DEF TableInv, TypeOK
      <4>2. [key[m] EXCEPT !["token"] = p].id = key[m].id
        BY <4>1
      <4> QED
        BY <3>2, <4>2 DEF Save, TableInv, TypeOK
    <3> QED
      BY <3>1, <3>2
  <2>4. \A n \in Companions : loaded'[n] \subseteq loaded[n]
    BY <1>14 DEF GiveUp, SaveToken, Quit, ConnectPressed, TableInv, TypeOK
  <2> QED
    BY <1>4, <2>1, <2>2, <2>3, <2>4 DEF Quiet, ToldIsBound, FedIsRead, IsRead
<1>15. ASSUME NEW m \in Companions, LoadId(m) PROVE Quiet'
  <2>1. UNCHANGED <<bound, pending, told, fed, ui, session, key>>
    BY <1>15 DEF LoadId, relay
  <2>2. key[m].id \in Pairings
    BY <1>15 DEF LoadId, TableInv, TypeOK
  <2>3. IsRead(key[m].id)
    BY <1>4, <2>2 DEF Quiet, FedIsRead, IsRead
  <2>4. \A n \in Companions : loaded'[n] \subseteq loaded[n] \union {key[m].id}
    BY <1>15 DEF LoadId, TableInv, TypeOK
  <2> QED
    BY <1>4, <2>1, <2>3, <2>4 DEF Quiet, ToldIsBound, FedIsRead, IsRead
<1>16. ASSUME NEW m \in Companions, Push(m) PROVE Quiet'
  <2> PICK id \in loaded[m] : PushOf(m, id)
    BY <1>16 DEF Push, PushOf
  <2>1. UNCHANGED <<told, ui, session, key>>
    BY DEF PushOf
  <2>2. \A w \in Workers : pending'[w] = {}
    BY <1>2, <1>4 DEF PushOf, Committed, Quiet, TableInv, TypeOK
  <2>3. fed' \subseteq fed \union {id} /\ IsRead(id)
    BY <1>2, <1>4 DEF PushOf, Quiet
  <2>4. \A n \in Companions : loaded'[n] \subseteq loaded[n]
    BY DEF PushOf, TableInv, TypeOK
  <2>5. ToldIsBound'
    BY <1>4, <1>5, <2>1 DEF Quiet, ToldIsBound, TableInv, TypeOK
  <2> QED
    BY <1>6a, <2>1, <2>2, <2>3, <2>4, <2>5
<1>17. ASSUME NEW w \in Workers, ReadOnly(w) PROVE Quiet'
  BY <1>4, <1>7, <1>17 DEF ReadOnly, companion, Quiet
<1>18. CASE UNCHANGED vars
  BY <1>4, <1>7, <1>18 DEF vars, Quiet
<1> QED
  BY <1>8, <1>9, <1>10, <1>11, <1>12, <1>13, <1>14, <1>15, <1>16, <1>17, <1>18 DEF Next, Step

(* No worker takes back what it answered, unless SQLite was busy before.   *)
THEOREM AnswersKept == Spec => []AnswersAreKept
<1>1. Init => AnswerInv
  <2> SUFFICES ASSUME Init PROVE Sessions /\ Quiet
    BY DEF AnswerInv
  <2>1. ToldIsBound /\ Sessions
    BY DEF Init, ToldIsBound, Sessions
  <2>2. \A m \in Companions : key[m].id = 0
    BY DEF Init
  <2>3. FedIsRead
    BY RelayAssumption, <2>2 DEF Init, FedIsRead, Pairings
  <2> QED
    BY <2>1, <2>3 DEF Init, Quiet
<1>2. TableInv /\ AnswerInv /\ [Next]_vars => AnswerInv'
  BY AnswerStep
<1>3. AnswerInv => AnswersAreKept
  BY DEF AnswerInv, Quiet, AnswersAreKept
<1> QED
  BY <1>1, <1>2, <1>3, TableInvariant, PTL DEF Spec

=============================================================================
