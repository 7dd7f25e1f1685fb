------------------- MODULE AuthorizationCoordinator_proofs -------------------
(***************************************************************************)
(* Theorems about AuthorizationCoordinator, for any number of subjects,    *)
(* callers and authorization ids and for any set of faults.                *)
(***************************************************************************)
EXTENDS AuthorizationCoordinator, TLAPS

(* Every reachable state of the coordinator is well typed.                 *)
THEOREM TypeCorrect == Spec => []TypeOK
<1> USE CoordinatorAssumption
    DEF TypeOK, Terminal, Unwound, InSession, CallerSteps, NeedsFlow, NeedsSubject, Aim
<1>1. Init => TypeOK
  BY DEF Init
<1>2. TypeOK /\ [Next]_vars => TypeOK'
  <2> SUFFICES ASSUME TypeOK, [Next]_vars PROVE TypeOK'
    OBVIOUS
  <2> USE DEF Step, Leave, Unwind, Proceed, Goes, Returns, Cancels, Live,
              records, workers, callers, store, history
  <2>1. ASSUME NEW f \in Flows, EnterSession(f) PROVE TypeOK'
    BY <2>1 DEF EnterSession
  <2>2. ASSUME NEW f \in Flows, SessionRefused(f) PROVE TypeOK'
    BY <2>2 DEF SessionRefused
  <2>3. ASSUME NEW f \in Flows, StartClient(f) PROVE TypeOK'
    BY <2>3 DEF StartClient
  <2>4. ASSUME NEW f \in Flows, Register(f) PROVE TypeOK'
    BY <2>4 DEF Register
  <2>5. ASSUME NEW f \in Flows, Check(f) PROVE TypeOK'
    BY <2>5 DEF Check
  <2>6. ASSUME NEW f \in Flows, StartLogin(f) PROVE TypeOK'
    BY <2>6 DEF StartLogin
  <2>7. ASSUME NEW f \in Flows, Publish(f) PROVE TypeOK'
    BY <2>7 DEF Publish
  <2>8. ASSUME NEW f \in Flows, Interrupted(f) PROVE TypeOK'
    BY <2>8 DEF Interrupted
  <2>9. ASSUME NEW f \in Flows, Recheck(f) PROVE TypeOK'
    BY <2>9 DEF Recheck
  <2>10. ASSUME NEW f \in Flows, ExitSession(f) PROVE TypeOK'
    BY <2>10 DEF ExitSession, Persist
  <2>11. ASSUME NEW f \in Flows, Finish(f) PROVE TypeOK'
    BY <2>11 DEF Finish, Outcome
  <2>12. ASSUME NEW f \in Flows, Approve(f) PROVE TypeOK'
    BY <2>12 DEF Approve
  <2>13. ASSUME NEW f \in Flows, GiveUp(f) PROVE TypeOK'
    BY <2>13 DEF GiveUp
  <2>14. ASSUME NEW t \in Callers, Join(t) PROVE TypeOK'
    BY <2>14 DEF Join, Joinable
  <2>15. ASSUME NEW t \in Callers, NewFlow(t) PROVE TypeOK'
    BY <2>15 DEF NewFlow, Joinable
  <2>16. ASSUME NEW t \in Callers, StartThread(t) PROVE TypeOK'
    BY <2>16 DEF StartThread
  <2>17. ASSUME NEW t \in Callers, BeginReturns(t) PROVE TypeOK'
    BY <2>17 DEF BeginReturns
  <2>18. ASSUME NEW t \in Callers, StartupTimeout(t) PROVE TypeOK'
    BY <2>18 DEF StartupTimeout
  <2>19. ASSUME NEW t \in Callers, SetCancel(t) PROVE TypeOK'
    BY <2>19 DEF SetCancel
  <2>20. ASSUME NEW t \in Callers, CloseClient(t) PROVE TypeOK'
    BY <2>20 DEF CloseClient
  <2>21. ASSUME NEW t \in Callers, WaitReturns(t) PROVE TypeOK'
    BY <2>21 DEF WaitReturns
  <2>22. ASSUME NEW t \in Callers, RevokeChecks(t) PROVE TypeOK'
    BY <2>22 DEF RevokeChecks, Settled
  <2>23. ASSUME NEW t \in Callers, RevokeWaits(t) PROVE TypeOK'
    BY <2>23 DEF RevokeWaits, Settled
  <2>24. ASSUME NEW t \in Callers, RevokeStore(t) PROVE TypeOK'
    BY <2>24 DEF RevokeStore
  <2>25. ASSUME NEW t \in Callers, RevokeRaises(t) PROVE TypeOK'
    BY <2>25 DEF RevokeRaises
  <2>26. ASSUME NEW t \in Callers, CloseNext(t) PROVE TypeOK'
    BY <2>26 DEF CloseNext
  <2>27. ASSUME NEW t \in Callers, CloseCall(t) PROVE TypeOK'
    BY <2>27 DEF CloseCall
  <2>28. ASSUME NEW t \in Callers, NEW s \in Subjects, Begin(t, s) PROVE TypeOK'
    BY <2>28 DEF Begin
  <2>29. ASSUME NEW t \in Callers, NEW s \in Subjects, RevokeCall(t, s) PROVE TypeOK'
    BY <2>29 DEF RevokeCall, LiveFlowsOf, Live
  <2>30. ASSUME NEW t \in Callers, NEW f \in Flows, CancelCall(t, f) PROVE TypeOK'
    BY <2>30 DEF CancelCall
  <2>31. CASE Reap
    BY <2>31 DEF Reap
  <2>32. CASE Restart
    BY <2>32 DEF Restart
  <2>33. CASE UNCHANGED vars
    BY <2>33 DEF vars
  <2> QED
    BY <2>1, <2>2, <2>3, <2>4, <2>5, <2>6, <2>7, <2>8, <2>9, <2>10, <2>11,
       <2>12, <2>13, <2>14, <2>15, <2>16, <2>17, <2>18, <2>19, <2>20,
       <2>21, <2>22, <2>23, <2>24, <2>25, <2>26, <2>27, <2>28, <2>29,
       <2>30, <2>31, <2>32, <2>33 DEF Next, Work, Answer
<1>3. QED
  BY <1>1, <1>2, PTL DEF Spec

-----------------------------------------------------------------------------
(* The index of active flows is right: it names the one flow of a subject  *)
(* whose worker is not done, and that flow has no terminal state.          *)
IndexInv ==
    \A f \in Flows :
        /\ Live(f) => f \in known /\ active[subj[f]] = f /\ state[f] \notin Terminal
        /\ wpc[f] = "unborn" => f \notin known /\ state[f] \notin Terminal

(* A revoke that has not yet deleted has cancelled, or will wait for, the  *)
(* only older flow that may still be live; once it deletes there is none.  *)
RevokeInv ==
    /\ \A f \in revoked : wpc[f] = "done"
    /\ \A t \in Callers : \A f \in older[t] :
        /\ wpc[f] # "unborn"
        /\ Aim(t) \in {"revoke", "revoke.wait"} /\ Live(f) => cflow[t] = f
        /\ Aim(t) = "revoke.store" => ~Live(f)

(* A worker's exception, or the lack of one, tells whether it has saved.   *)
PersistInv ==
    \A f \in Flows :
        /\ wpc[f] \notin {"finish", "done"} => f \notin persisted /\ state[f] \notin Terminal
        /\ wpc[f] = "finish" => (exc[f] = "none" <=> f \in persisted)
        /\ f \in known /\ wpc[f] = "done" => (state[f] = "AUTHORIZED" <=> f \in persisted)

-----------------------------------------------------------------------------
(* The steps of a worker before it publishes its result ...                *)
Moves(f) ==
    \/ EnterSession(f) \/ SessionRefused(f) \/ StartClient(f) \/ Register(f) \/ Check(f)
    \/ StartLogin(f) \/ Publish(f) \/ Approve(f) \/ GiveUp(f) \/ Interrupted(f)
    \/ Recheck(f) \/ ExitSession(f)

(* ... and the calls that neither create a flow nor revoke.                *)
Plain(t) ==
    \/ Join(t) \/ BeginReturns(t) \/ StartupTimeout(t) \/ SetCancel(t) \/ CloseClient(t)
    \/ WaitReturns(t) \/ CloseNext(t) \/ CloseCall(t)
    \/ \E s \in Subjects : Begin(t, s)
    \/ \E f \in Flows : CancelCall(t, f)

Revokes(t) ==
    \/ RevokeChecks(t) \/ RevokeWaits(t) \/ RevokeStore(t) \/ RevokeRaises(t)
    \/ \E s \in Subjects : RevokeCall(t, s)

(* Next, sorted by what a step does to the records.                        *)
LEMMA NextCases ==
    ASSUME Next
    PROVE  \/ \E f \in Flows : Moves(f)
           \/ \E f \in Flows : Finish(f)
           \/ \E t \in Callers : Plain(t)
           \/ \E t \in Callers : Revokes(t)
           \/ \E t \in Callers : NewFlow(t)
           \/ \E t \in Callers : StartThread(t)
           \/ Reap
           \/ Restart
BY DEF Next, Work, Answer, Moves, Plain, Revokes

(* A worker that is not done stays live, in a state that is not terminal.  *)
LEMMA MovesFrame ==
    ASSUME TypeOK, NEW f \in Flows, Moves(f)
    PROVE  /\ UNCHANGED <<known, active, subj, callers, older, revoked>>
           /\ Live(f) /\ Live(f)' /\ wpc[f] \notin {"created", "finish"}
           /\ state'[f] \in {state[f], "WAITING_USER"}
           /\ \A g \in Flows \ {f} : /\ wpc'[g] = wpc[g]
                                     /\ state'[g] = state[g]
                                     /\ exc'[g] = exc[g]
<1> USE DEF TypeOK, Live, Step, Leave, Unwind, Proceed, records, history
<1>1. CASE EnterSession(f)    BY <1>1 DEF EnterSession
<1>2. CASE SessionRefused(f)  BY <1>2 DEF SessionRefused
<1>3. CASE StartClient(f)     BY <1>3 DEF StartClient
<1>4. CASE Register(f)        BY <1>4 DEF Register
<1>5. CASE Check(f)           BY <1>5 DEF Check
<1>6. CASE StartLogin(f)      BY <1>6 DEF StartLogin
<1>7. CASE Publish(f)         BY <1>7 DEF Publish
<1>8. CASE Approve(f)         BY <1>8 DEF Approve
<1>9. CASE GiveUp(f)          BY <1>9 DEF GiveUp
<1>10. CASE Interrupted(f)    BY <1>10 DEF Interrupted
<1>11. CASE Recheck(f)        BY <1>11 DEF Recheck
<1>12. CASE ExitSession(f)    BY <1>12 DEF ExitSession
<1> QED
  BY <1>1, <1>2, <1>3, <1>4, <1>5, <1>6, <1>7, <1>8, <1>9, <1>10, <1>11, <1>12 DEF Moves

(* A plain call touches neither the index nor a worker, and no revoke of   *)
(* its own thread is under way.                                            *)
LEMMA PlainFrame ==
    ASSUME TypeOK, NEW t \in Callers, Plain(t)
    PROVE  /\ UNCHANGED <<known, active, subj, state, wpc, exc, persisted, revoked>>
           /\ \A u \in Callers \ {t} : /\ cpc'[u] = cpc[u] /\ goal'[u] = goal[u]
                                       /\ cflow'[u] = cflow[u] /\ older'[u] = older[u]
           /\ older'[t] \subseteq older[t]
           /\ \/ Aim(t)' \notin {"revoke", "revoke.wait", "revoke.store"}
              \/ Aim(t)' = Aim(t) /\ cflow'[t] = cflow[t]
<1> USE DEF TypeOK, Aim, Goes, Returns, Cancels, records, workers, history
<1>1. CASE Join(t)            BY <1>1 DEF Join
<1>2. CASE BeginReturns(t)    BY <1>2 DEF BeginReturns
<1>3. CASE StartupTimeout(t)  BY <1>3 DEF StartupTimeout
<1>4. CASE SetCancel(t)       BY <1>4 DEF SetCancel
<1>5. CASE CloseClient(t)     BY <1>5 DEF CloseClient
<1>6. CASE WaitReturns(t)     BY <1>6 DEF WaitReturns
<1>7. CASE CloseNext(t)       BY <1>7 DEF CloseNext
<1>8. CASE CloseCall(t)       BY <1>8 DEF CloseCall
<1>9. ASSUME NEW s \in Subjects, Begin(t, s)
      PROVE  /\ UNCHANGED <<known, active, subj, state, wpc, exc, persisted, revoked>>
             /\ UNCHANGED <<goal, cflow, older>>
             /\ \A u \in Callers \ {t} : cpc'[u] = cpc[u]
             /\ cpc'[t] = "begin"
  BY <1>9 DEF Begin
<1>10. ASSUME NEW f \in Flows, CancelCall(t, f)
       PROVE  /\ UNCHANGED <<known, active, subj, state, wpc, exc, persisted, revoked>>
              /\ UNCHANGED older
              /\ \A u \in Callers \ {t} : /\ cpc'[u] = cpc[u] /\ goal'[u] = goal[u]
                                          /\ cflow'[u] = cflow[u]
              /\ cpc'[t] = "cancel" /\ goal'[t] = "wait"
  BY <1>10 DEF CancelCall
<1> QED
  BY <1>1, <1>2, <1>3, <1>4, <1>5, <1>6, <1>7, <1>8, <1>9, <1>10 DEF Plain

(* A revoke changes no record and no worker; it may set the cancel event.  *)
LEMMA RevokesFrame ==
    ASSUME TypeOK, NEW t \in Callers, Revokes(t)
    PROVE  UNCHANGED <<known, active, subj, state, wpc, exc, persisted>>
BY DEF Revokes, RevokeChecks, RevokeWaits, RevokeStore, RevokeRaises, RevokeCall,
       records, workers, history

-----------------------------------------------------------------------------
(* The index of active flows is right in every reachable state.            *)
LEMMA IndexInvariant == Spec => []IndexInv
<1> USE CoordinatorAssumption DEF Terminal
<1>1. Init => IndexInv
  BY DEF Init, IndexInv, Live
<1>2. TypeOK /\ IndexInv /\ [Next]_vars => IndexInv'
  <2> SUFFICES ASSUME TypeOK, IndexInv, [Next]_vars PROVE IndexInv'
    OBVIOUS
  <2>1. ASSUME NEW f \in Flows, Moves(f) PROVE IndexInv'
    BY <2>1, MovesFrame DEF IndexInv, Live
  <2>2. ASSUME NEW f \in Flows, Finish(f) PROVE IndexInv'
    BY <2>2 DEF Finish, Step, IndexInv, Live, TypeOK
  <2>3. ASSUME NEW t \in Callers, Plain(t) PROVE IndexInv'
    BY <2>3, PlainFrame DEF IndexInv, Live
  <2>4. ASSUME NEW t \in Callers, Revokes(t) PROVE IndexInv'
    BY <2>4, RevokesFrame DEF IndexInv, Live
  <2>5. ASSUME NEW t \in Callers, NewFlow(t) PROVE IndexInv'
    <3>1. csubj[t] \in Subjects
      BY <2>5 DEF NewFlow, Goes, TypeOK, Aim, NeedsSubject
    <3>2. \A f \in Flows : Live(f) => subj[f] # csubj[t]
      BY <2>5 DEF NewFlow, Joinable, IndexInv
    <3> QED
      BY <2>5, <3>1, <3>2 DEF NewFlow, Step, IndexInv, Live, TypeOK
  <2>6. ASSUME NEW t \in Callers, StartThread(t) PROVE IndexInv'
    BY <2>6 DEF StartThread, Step, records, IndexInv, Live, TypeOK
  <2>7. CASE Reap
    BY <2>7 DEF Reap, workers, IndexInv, Live, TypeOK
  <2>8. CASE Restart
    BY <2>8 DEF Restart, IndexInv, Live, TypeOK
  <2>9. CASE UNCHANGED vars
    BY <2>9 DEF vars, IndexInv, Live
  <2> QED
    BY <2>1, <2>2, <2>3, <2>4, <2>5, <2>6, <2>7, <2>8, <2>9, NextCases
<1>3. QED
  BY <1>1, <1>2, TypeCorrect, PTL DEF Spec

(* A subject never has two device-code flows at once.                      *)
THEOREM OneFlowAtATime == Spec => []OneLiveFlow
<1>1. IndexInv => OneLiveFlow
  BY DEF IndexInv, OneLiveFlow
<1>2. QED
  BY <1>1, IndexInvariant, PTL

-----------------------------------------------------------------------------
(* A flow is born once: no step brings a worker that is done back.         *)
LEMMA LifeCycle ==
    ASSUME TypeOK, [Next]_vars, NEW f \in Flows, wpc[f] # "unborn"
    PROVE  /\ wpc'[f] # "unborn"
           /\ Live(f)' => Live(f)
<1> USE DEF Live, TypeOK
<1>1. ASSUME NEW g \in Flows, Moves(g) PROVE wpc'[f] # "unborn" /\ (Live(f)' => Live(f))
  BY <1>1, MovesFrame
<1>2. ASSUME NEW g \in Flows, Finish(g) PROVE wpc'[f] # "unborn" /\ (Live(f)' => Live(f))
  BY <1>2 DEF Finish, Step
<1>3. ASSUME NEW t \in Callers, Plain(t) PROVE UNCHANGED wpc
  BY <1>3, PlainFrame
<1>4. ASSUME NEW t \in Callers, Revokes(t) PROVE UNCHANGED wpc
  BY <1>4, RevokesFrame
<1>5. ASSUME NEW t \in Callers, NewFlow(t) PROVE wpc'[f] = wpc[f]
  BY <1>5 DEF NewFlow, Step
<1>6. ASSUME NEW t \in Callers, StartThread(t)
      PROVE wpc'[f] # "unborn" /\ (Live(f)' => Live(f))
  BY <1>6 DEF StartThread, Step
<1>7. CASE Reap
  BY <1>7 DEF Reap, workers
<1>8. CASE Restart
  BY <1>8 DEF Restart
<1>9. CASE UNCHANGED vars
  BY <1>9 DEF vars
<1> QED
  BY <1>1, <1>2, <1>3, <1>4, <1>5, <1>6, <1>7, <1>8, <1>9, NextCases

(* A step that leaves the revokes of all threads alone keeps RevokeInv.    *)
LEMMA RevokeFrame ==
    ASSUME TypeOK, [Next]_vars, RevokeInv, UNCHANGED revoked,
           \A t \in Callers : /\ older'[t] \subseteq older[t]
                             /\ \/ Aim(t)' \notin {"revoke", "revoke.wait", "revoke.store"}
                                \/ Aim(t)' = Aim(t) /\ cflow'[t] = cflow[t]
    PROVE  RevokeInv'
<1>1. \A f \in revoked : wpc'[f] = "done"
  BY LifeCycle DEF RevokeInv, TypeOK, Live
<1>2. ASSUME NEW t \in Callers, NEW f \in older'[t]
      PROVE  /\ wpc'[f] # "unborn"
             /\ Aim(t)' \in {"revoke", "revoke.wait"} /\ Live(f)' => cflow'[t] = f
             /\ Aim(t)' = "revoke.store" => ~Live(f)'
  <2>1. f \in older[t] /\ f \in Flows
    BY <1>2 DEF TypeOK
  <2>2. wpc[f] # "unborn"
    BY <2>1 DEF RevokeInv
  <2>3. wpc'[f] # "unborn" /\ (Live(f)' => Live(f))
    BY <2>1, <2>2, LifeCycle
  <2> QED
    BY <2>1, <2>3 DEF RevokeInv
<1> QED
  BY <1>1, <1>2 DEF RevokeInv

(* Every revoke under way knows the only older flow that may be live.      *)
LEMMA RevokeInvariant == Spec => []RevokeInv
<1> USE CoordinatorAssumption
<1>1. Init => RevokeInv
  BY DEF Init, RevokeInv
<1>2. TypeOK /\ IndexInv /\ RevokeInv /\ [Next]_vars => RevokeInv'
  <2> SUFFICES ASSUME TypeOK, IndexInv, RevokeInv, [Next]_vars PROVE RevokeInv'
    OBVIOUS
  <2>1. ASSUME NEW f \in Flows, Moves(f) PROVE RevokeInv'
    BY <2>1, MovesFrame, RevokeFrame DEF callers, Aim
  <2>2. ASSUME NEW f \in Flows, Finish(f) PROVE RevokeInv'
    BY <2>2, RevokeFrame DEF Finish, callers, history, Aim
  <2>3. ASSUME NEW t \in Callers, Plain(t) PROVE RevokeInv'
    BY <2>3, PlainFrame, RevokeFrame DEF Aim
  <2>4. ASSUME NEW t \in Callers, Revokes(t) PROVE RevokeInv'
    <3> USE DEF RevokeInv, TypeOK, Aim, Goes, Returns, Cancels, Live, records, workers, history
    <3>1. ASSUME NEW s \in Subjects, RevokeCall(t, s) PROVE RevokeInv'
      BY <3>1 DEF RevokeCall, LiveFlowsOf, IndexInv
    <3>2. CASE RevokeChecks(t)
      BY <3>2 DEF RevokeChecks, Settled, IndexInv
    <3>3. CASE RevokeWaits(t)
      BY <3>3 DEF RevokeWaits, Settled, IndexInv
    <3>4. CASE RevokeStore(t)
      BY <3>4 DEF RevokeStore
    <3>5. CASE RevokeRaises(t)
      BY <3>5 DEF RevokeRaises
    <3> QED
      BY <2>4, <3>1, <3>2, <3>3, <3>4, <3>5 DEF Revokes
  <2>5. ASSUME NEW t \in Callers, NewFlow(t) PROVE RevokeInv'
    BY <2>5, RevokeFrame DEF NewFlow, Goes, TypeOK, Aim, history
  <2>6. ASSUME NEW t \in Callers, StartThread(t) PROVE RevokeInv'
    BY <2>6, RevokeFrame DEF StartThread, Goes, Returns, TypeOK, Aim, history
  <2>7. CASE Reap
    BY <2>7, RevokeFrame DEF Reap, callers, history, Aim
  <2>8. CASE Restart
    BY <2>8, RevokeFrame DEF Restart, TypeOK, Aim
  <2>9. CASE UNCHANGED vars
    BY <2>9, RevokeFrame DEF vars, Aim
  <2> QED
    BY <2>1, <2>2, <2>3, <2>4, <2>5, <2>6, <2>7, <2>8, <2>9, NextCases
<1>3. QED
  BY <1>1, <1>2, TypeCorrect, IndexInvariant, PTL DEF Spec

(* When revoke returns, every flow it found under way has ended.           *)
THEOREM RevokeWins == Spec => []RevokeStopsOlderFlows
<1>1. RevokeInv => RevokeStopsOlderFlows
  BY DEF RevokeInv, RevokeStopsOlderFlows, Live
<1>2. QED
  BY <1>1, RevokeInvariant, PTL

-----------------------------------------------------------------------------
(* If the blob provider never raises after os.replace, the state a flow    *)
(* ends in tells whether its credential was stored.                        *)
THEOREM OutcomeIsTruthful ==
    ASSUME ~Fault("sync")
    PROVE  Spec => []StateTellsPersistence
<1> USE DEF Terminal, InSession
<1>1. Init => PersistInv
  BY DEF Init, PersistInv
<1>2. TypeOK /\ IndexInv /\ PersistInv /\ [Next]_vars => PersistInv'
  <2> SUFFICES ASSUME TypeOK, IndexInv, PersistInv, [Next]_vars PROVE PersistInv'
    OBVIOUS
  <2>1. ASSUME NEW f \in Flows, Moves(f) PROVE PersistInv'
    <3>1. CASE ExitSession(f)
      BY <3>1 DEF ExitSession, Unwind, Leave, Step, Persist, records, PersistInv, TypeOK
    <3>2. CASE ~ExitSession(f)
      <4>1. persisted' = persisted
        BY <2>1, <3>2 DEF Moves, EnterSession, SessionRefused, StartClient, Register, Check,
           StartLogin, Publish, Approve, GiveUp, Interrupted, Recheck, history
      <4>2. wpc'[f] = "finish" => exc'[f] # "none"
        BY <2>1, <3>2 DEF Moves, EnterSession, SessionRefused, StartClient, Register, Check,
           StartLogin, Publish, Approve, GiveUp, Interrupted, Recheck, Proceed, Unwind,
           Leave, Step, TypeOK
      <4> QED
        BY <2>1, <4>1, <4>2, MovesFrame DEF PersistInv, Live
    <3> QED
      BY <3>1, <3>2
  <2>2. ASSUME NEW f \in Flows, Finish(f) PROVE PersistInv'
    <3>1. Outcome(f) = "AUTHORIZED" <=> exc[f] = "none"
      BY DEF Outcome, TypeOK, Unwound
    <3> QED
      BY <2>2, <3>1 DEF Finish, Step, history, PersistInv, TypeOK
  <2>3. ASSUME NEW t \in Callers, Plain(t) PROVE PersistInv'
    BY <2>3, PlainFrame DEF PersistInv
  <2>4. ASSUME NEW t \in Callers, Revokes(t) PROVE PersistInv'
    BY <2>4, RevokesFrame DEF PersistInv
  <2>5. ASSUME NEW t \in Callers, NewFlow(t) PROVE PersistInv'
    BY <2>5 DEF NewFlow, Step, history, PersistInv, TypeOK
  <2>6. ASSUME NEW t \in Callers, StartThread(t) PROVE PersistInv'
    BY <2>6 DEF StartThread, Step, records, PersistInv, TypeOK
  <2>7. CASE Reap
    BY <2>7 DEF Reap, workers, history, PersistInv
  <2>8. CASE Restart
    BY <2>8 DEF Restart, PersistInv, IndexInv, Live, TypeOK
  <2>9. CASE UNCHANGED vars
    BY <2>9 DEF vars, PersistInv
  <2> QED
    BY <2>1, <2>2, <2>3, <2>4, <2>5, <2>6, <2>7, <2>8, <2>9, NextCases
<1>3. TypeOK /\ IndexInv /\ PersistInv => StateTellsPersistence
  BY DEF PersistInv, IndexInv, StateTellsPersistence, Live, TypeOK
<1>4. QED
  BY <1>1, <1>2, <1>3, TypeCorrect, IndexInvariant, PTL DEF Spec

=============================================================================
