---------------------- MODULE AuthorizationCoordinator ----------------------
(***************************************************************************)
(* The Connect state machine of the Plugin: AuthorizationCoordinator, its  *)
(* records, the worker thread of every device-code flow and the threads    *)
(* that call begin, cancel, revoke, reap and close.                        *)
(*                                                                         *)
(* A flow's worker holds the subject's lease from its first step to the    *)
(* end of its authorization session, so the store is modelled here by what *)
(* AuthVault shows of it: a lease per subject, and a save or a delete that *)
(* happens at once while the lease is held.  A quota read of the subject   *)
(* may hold the lease for as long as it likes, so a wait for it may time   *)
(* out at any moment.  One process is modelled.                            *)
(***************************************************************************)
EXTENDS Integers, FiniteSets

CONSTANTS
    Subjects,  \* authenticated Plugin users
    Callers,   \* threads that call the coordinator
    Flows,     \* authorization ids that may be drawn (bound)
    NoFlow,    \* no authorization id
    Calls,     \* which of begin, cancel, revoke and close are called (bound)
    Faults     \* which of the failures in FaultKinds may happen

(*   thread   the worker thread cannot be started                          *)
(*   client   Codex does not start, refuses the login or answers late      *)
(*   exit     closing Codex, validating, sealing or saving raises          *)
(*   sync     saving or deleting raises after the blob was changed         *)
(*   restart  the process dies and comes back                              *)
FaultKinds == {"thread", "client", "exit", "sync", "restart"}

Free == "free"  \* no flow holds the lease
NoSubject == "no subject"

ASSUME CoordinatorAssumption ==
    /\ NoFlow \notin Flows
    /\ Free \notin Flows
    /\ NoSubject \notin Subjects
    /\ Calls \subseteq {"begin", "cancel", "revoke", "close"}
    /\ Faults \subseteq FaultKinds

VARIABLES
    \* the coordinator's records
    known,     \* flows in _records
    active,    \* active[s] : _active_by_subject
    subj,      \* subj[f] : record.subject_key
    state,     \* state[f] : record.state
    cancel,    \* flows whose cancel_event is set
    ready,     \* flows whose ready_event is set
    client,    \* flows whose record.client is set
    \* the worker threads
    wpc,       \* wpc[f] : the next step of flow f's worker
    exc,       \* exc[f] : the exception its worker unwinds with
    closed,    \* flows whose Codex client was closed under the worker
    \* the calling threads
    cpc,       \* cpc[t] : the next step of caller t
    cflow,     \* cflow[t] : the record it works on
    csubj,     \* csubj[t] : the subject it calls for
    goal,      \* goal[t] : where it continues after _cancel_record
    todo,      \* todo[t] : flows its close() has still to cancel
    \* the auth store
    lease,     \* lease[s] : the flow that holds the lease of s
    blob,      \* subjects with a sealed credential
    \* history
    persisted, \* flows whose credential was saved
    older,     \* older[t] : flows that were live when t called revoke
    revoked    \* flows that were live when a revoke that succeeded began

records == <<known, active, subj, state, cancel, ready, client>>
workers == <<wpc, exc, closed>>
callers == <<cpc, cflow, csubj, goal, todo>>
store   == <<lease, blob>>
history == <<persisted, older, revoked>>
vars == <<known, active, subj, state, cancel, ready, client, wpc, exc, closed,
          cpc, cflow, csubj, goal, todo, lease, blob, persisted, older, revoked>>

Terminal == {"AUTHORIZED", "CANCELLED", "EXPIRED", "FAILED"}

Unwound == {"none", "cancelled", "timeout", "error"}

(* A worker's steps inside the authorization session.                      *)
InSession == {"client", "register", "check", "login", "publish", "await",
              "recheck", "exit"}

CallerSteps == {"idle", "begin", "begin.start", "begin.wait", "cancel", "close", "wait",
                "revoke", "revoke.wait", "revoke.store", "close.next"}

(* The steps that work on a record, and those that work for a subject.     *)
NeedsFlow    == {"begin.start", "begin.wait", "cancel", "close", "revoke.wait"}
NeedsSubject == {"begin", "revoke", "revoke.wait", "revoke.store"}

(* What a caller is about, which _cancel_record only interrupts.           *)
Aim(t) == IF cpc[t] \in {"cancel", "close"} THEN goal[t] ELSE cpc[t]

Live(f) == wpc[f] \notin {"unborn", "done"}

Fault(kind) == kind \in Faults

Init ==
    /\ known = {}
    /\ active = [s \in Subjects |-> NoFlow]
    /\ subj = [f \in Flows |-> NoSubject]
    /\ state = [f \in Flows |-> "STARTING"]
    /\ cancel = {}
    /\ ready = {}
    /\ client = {}
    /\ wpc = [f \in Flows |-> "unborn"]
    /\ exc = [f \in Flows |-> "none"]
    /\ closed = {}
    /\ cpc = [t \in Callers |-> "idle"]
    /\ cflow = [t \in Callers |-> NoFlow]
    /\ csubj = [t \in Callers |-> NoSubject]
    /\ goal = [t \in Callers |-> "idle"]
    /\ todo = [t \in Callers |-> {}]
    /\ lease = [s \in Subjects |-> Free]
    /\ blob \in SUBSET Subjects
    /\ persisted = {}
    /\ older = [t \in Callers |-> {}]
    /\ revoked = {}

-----------------------------------------------------------------------------
(* The worker thread: _run.                                                *)

Step(f, from, to) ==
    /\ wpc[f] = from
    /\ wpc' = [wpc EXCEPT ![f] = to]

(* The session ends, by an exception unless kind is "none", and gives the  *)
(* lease back.                                                             *)
Leave(f, from, kind) ==
    /\ Step(f, from, "finish")
    /\ exc' = [exc EXCEPT ![f] = kind]
    /\ lease' = [lease EXCEPT ![subj[f]] = Free]

(* Both with blocks end: the client is closed on the way out.              *)
Unwind(f, from, kind) ==
    /\ Leave(f, from, kind)
    /\ closed' = closed \union {f}

Proceed(f, from, to) ==
    /\ Step(f, from, to)
    /\ UNCHANGED <<exc, closed, lease>>

EnterSession(f) ==
    /\ Step(f, "lease", "client")
    /\ lease[subj[f]] = Free
    /\ lease' = [lease EXCEPT ![subj[f]] = f]
    /\ UNCHANGED <<exc, closed, blob, records, callers, history>>

(* SubjectLeaseTimeout, or mkdtemp raises.                                 *)
SessionRefused(f) ==
    /\ Step(f, "lease", "finish")
    /\ exc' = [exc EXCEPT ![f] = "error"]
    /\ UNCHANGED <<closed, lease, blob, records, callers, history>>

(* Popen and initialize; cancellation cannot reach the client yet, and     *)
(* nobody closes it when __enter__ raises.                                 *)
StartClient(f) ==
    /\ \/ Proceed(f, "client", "register")
       \/ /\ Fault("client")
          /\ \E kind \in {"error", "timeout"} : Leave(f, "client", kind)
          /\ UNCHANGED closed
    /\ UNCHANGED <<blob, records, callers, history>>

Register(f) ==
    /\ Proceed(f, "register", "check")
    /\ client' = client \union {f}
    /\ UNCHANGED <<known, active, subj, state, cancel, ready, blob, callers, history>>

(* Mutant: nobody looks at cancel_event once the client is registered.     *)
CheckSkipped(f) ==
    /\ Proceed(f, "check", "login")
    /\ UNCHANGED <<blob, records, callers, history>>

Check(f) ==
    /\ IF f \in cancel THEN Unwind(f, "check", "cancelled")
                       ELSE Proceed(f, "check", "login")
    /\ UNCHANGED <<blob, records, callers, history>>

StartLogin(f) ==
    /\ \/ Proceed(f, "login", "publish") /\ f \notin closed
       \/ Unwind(f, "login", "error") /\ (f \in closed \/ Fault("client"))
       \/ Unwind(f, "login", "timeout") /\ Fault("client")
    /\ UNCHANGED <<blob, records, callers, history>>

Publish(f) ==
    /\ Proceed(f, "publish", "await")
    /\ state' = [state EXCEPT ![f] = "WAITING_USER"]
    /\ ready' = ready \union {f}
    /\ UNCHANGED <<known, active, subj, cancel, client, blob, callers, history>>

(* wait_until_authenticated: the user approves the login, and Codex says   *)
(* so before anyone closes it ...                                          *)
Approve(f) ==
    /\ Proceed(f, "await", "recheck")
    /\ f \notin closed
    /\ UNCHANGED <<blob, records, callers, history>>

(* ... or lets the 600 seconds pass, or refuses ...                        *)
GiveUp(f) ==
    /\ \E kind \in {"timeout", "error"} : Unwind(f, "await", kind)
    /\ UNCHANGED <<blob, records, callers, history>>

(* ... or the client is closed under the worker and its next read raises.  *)
Interrupted(f) ==
    /\ Unwind(f, "await", "error")
    /\ f \in closed
    /\ UNCHANGED <<blob, records, callers, history>>

Recheck(f) ==
    /\ IF f \in cancel THEN Unwind(f, "recheck", "cancelled")
                       ELSE Proceed(f, "recheck", "exit")
    /\ UNCHANGED <<blob, records, callers, history>>

Persist(f) ==
    /\ blob' = blob \union {subj[f]}
    /\ persisted' = persisted \union {f}

(* Both with blocks end: the client is closed, auth.json validated, sealed *)
(* and saved, the home removed and the lease given back.                   *)
ExitSession(f) ==
    /\ \/ Unwind(f, "exit", "none") /\ Persist(f)
       \/ Unwind(f, "exit", "error") /\ Persist(f) /\ Fault("sync")
       \/ Unwind(f, "exit", "error") /\ Fault("exit") /\ UNCHANGED <<blob, persisted>>
    /\ UNCHANGED <<records, callers, older, revoked>>

(* Mutant: a flow that was asked to cancel always reports CANCELLED.       *)
OutcomeCancelledFirst(f) ==
    CASE f \in cancel \/ exc[f] = "cancelled" -> "CANCELLED"
      [] exc[f] = "none" /\ f \notin cancel -> "AUTHORIZED"
      [] exc[f] = "timeout" /\ f \notin cancel -> "EXPIRED"
      [] exc[f] = "error" /\ f \notin cancel -> "FAILED"

(* The except clauses of _run choose the state that _finish publishes.     *)
Outcome(f) ==
    CASE exc[f] = "none" -> "AUTHORIZED"
      [] exc[f] # "none" /\ (f \in cancel \/ exc[f] = "cancelled") -> "CANCELLED"
      [] exc[f] = "timeout" /\ f \notin cancel -> "EXPIRED"
      [] exc[f] = "error" /\ f \notin cancel -> "FAILED"

Finish(f) ==
    /\ Step(f, "finish", "done")
    /\ state' = [state EXCEPT ![f] = Outcome(f)]
    /\ client' = client \ {f}
    /\ active' = [active EXCEPT ![subj[f]] = IF @ = f THEN NoFlow ELSE @]
    /\ ready' = ready \union {f}
    /\ exc' = [exc EXCEPT ![f] = "none"]
    /\ closed' = closed \ {f}
    /\ UNCHANGED <<known, subj, cancel, store, callers, history>>

-----------------------------------------------------------------------------
(* The calling threads.                                                    *)

Goes(t, from, to) ==
    /\ cpc[t] = from
    /\ cpc' = [cpc EXCEPT ![t] = to]

(* The call returns or raises; its locals are gone.                        *)
Returns(t, from) ==
    /\ Goes(t, from, "idle")
    /\ cflow' = [cflow EXCEPT ![t] = NoFlow]
    /\ csubj' = [csubj EXCEPT ![t] = NoSubject]
    /\ goal' = [goal EXCEPT ![t] = "idle"]
    /\ older' = [older EXCEPT ![t] = {}]

(* Continues at `to` through _cancel_record.                               *)
Cancels(t, from, f, to) ==
    /\ Goes(t, from, "cancel")
    /\ cflow' = [cflow EXCEPT ![t] = f]
    /\ goal' = [goal EXCEPT ![t] = to]

(* Flows bounds the model: begin is not called when no id would be left.   *)
IdLeft ==
    Cardinality({t \in Callers : cpc[t] = "begin"})
        < Cardinality({f \in Flows : wpc[f] = "unborn"})

(* begin looks at the store before it takes the coordinator's lock.        *)
Begin(t, s) ==
    /\ "begin" \in Calls
    /\ IdLeft
    /\ Goes(t, "idle", "begin")
    /\ s \notin blob
    /\ csubj' = [csubj EXCEPT ![t] = s]
    /\ UNCHANGED <<cflow, goal, todo, records, workers, store, history>>

(* Mutant: only a flow that shows its challenge is joined.                 *)
JoinableWhenShown(s) == {f \in known : active[s] = f /\ state[f] = "WAITING_USER"}

Joinable(s) == {f \in known : active[s] = f /\ state[f] \notin Terminal}

Join(t) ==
    /\ Goes(t, "begin", "begin.wait")
    /\ \E f \in Joinable(csubj[t]) : cflow' = [cflow EXCEPT ![t] = f]
    /\ UNCHANGED <<csubj, goal, todo, records, workers, store, history>>

NewFlow(t) ==
    /\ Goes(t, "begin", "begin.start")
    /\ Joinable(csubj[t]) = {}
    /\ \E f \in Flows :
        /\ Step(f, "unborn", "created")
        /\ known' = known \union {f}
        /\ subj' = [subj EXCEPT ![f] = csubj[t]]
        /\ active' = [active EXCEPT ![csubj[t]] = f]
        /\ cflow' = [cflow EXCEPT ![t] = f]
    /\ UNCHANGED <<state, cancel, ready, client, exc, closed, csubj, goal, todo, store, history>>

(* A start() that raises leaves the record without a worker.               *)
StartThread(t) ==
    /\ \/ /\ Goes(t, "begin.start", "begin.wait")
          /\ Step(cflow[t], "created", "lease")
          /\ UNCHANGED <<cflow, csubj, goal, older>>
       \/ /\ Fault("thread")
          /\ Returns(t, "begin.start")
          /\ UNCHANGED wpc
    /\ UNCHANGED <<exc, closed, todo, records, store, persisted, revoked>>

BeginReturns(t) ==
    /\ Returns(t, "begin.wait")
    /\ cflow[t] \in ready
    /\ UNCHANGED <<todo, records, workers, store, persisted, revoked>>

(* AuthorizationStartupFailed after the record is cancelled.               *)
StartupTimeout(t) ==
    /\ Cancels(t, "begin.wait", cflow[t], "wait")
    /\ cflow[t] \notin ready
    /\ UNCHANGED <<csubj, todo, records, workers, store, history>>

(* _cancel_record: first the event, then whatever client is registered.    *)
SetCancel(t) ==
    /\ Goes(t, "cancel", "close")
    /\ cancel' = cancel \union {cflow[t]}
    /\ UNCHANGED <<known, active, subj, state, ready, client, cflow, csubj, goal, todo,
                   workers, store, history>>

CloseClient(t) ==
    /\ Goes(t, "close", goal[t])
    /\ closed' = closed \union (client \intersect {cflow[t]})
    /\ UNCHANGED <<wpc, exc, cflow, csubj, goal, todo, records, store, history>>

(* cancel(): called for another subject than that of the id, it answers    *)
(* "not found" and changes nothing.                                        *)
CancelCall(t, f) ==
    /\ "cancel" \in Calls
    /\ Cancels(t, "idle", f, "wait")
    /\ f \in known
    /\ UNCHANGED <<csubj, todo, records, workers, store, history>>

(* cancel and close wait for the end of a flow, but not for longer than    *)
(* five seconds; begin does not wait at all.                               *)
WaitReturns(t) ==
    /\ Returns(t, "wait")
    /\ UNCHANGED <<todo, records, workers, store, persisted, revoked>>

LiveFlowsOf(s) == {f \in Flows : Live(f) /\ subj[f] = s}

RevokeCall(t, s) ==
    /\ "revoke" \in Calls
    /\ Goes(t, "idle", "revoke")
    /\ csubj' = [csubj EXCEPT ![t] = s]
    /\ cflow' = [cflow EXCEPT ![t] = IF active[s] \in known THEN active[s] ELSE NoFlow]
    /\ older' = [older EXCEPT ![t] = LiveFlowsOf(s)]
    /\ UNCHANGED <<goal, todo, records, workers, store, persisted, revoked>>

Settled(f) == f \in Flows => state[f] \in Terminal

(* Mutant: revoke does not wait for the worker it cancels.                 *)
RevokeChecksOnly(t) ==
    /\ \/ Goes(t, "revoke", "revoke.store") /\ Settled(cflow[t]) /\ UNCHANGED <<cflow, goal>>
       \/ Cancels(t, "revoke", cflow[t], "revoke.store") /\ ~Settled(cflow[t])
    /\ UNCHANGED <<csubj, todo, records, workers, store, history>>

(* The state is read without the lock.                                     *)
RevokeChecks(t) ==
    /\ \/ Goes(t, "revoke", "revoke.store") /\ Settled(cflow[t]) /\ UNCHANGED <<cflow, goal>>
       \/ Cancels(t, "revoke", cflow[t], "revoke.wait") /\ ~Settled(cflow[t])
    /\ UNCHANGED <<csubj, todo, records, workers, store, history>>

(* done_event within 5 seconds, or AuthorizationBusy.                      *)
RevokeWaits(t) ==
    /\ \/ /\ Goes(t, "revoke.wait", "revoke.store")
          /\ Settled(cflow[t])
          /\ UNCHANGED <<cflow, csubj, goal, older>>
       \/ Returns(t, "revoke.wait") /\ ~Settled(cflow[t])
    /\ UNCHANGED <<todo, records, workers, store, persisted, revoked>>

RevokeStore(t) ==
    /\ Returns(t, "revoke.store")
    /\ lease[csubj[t]] = Free
    /\ blob' = blob \ {csubj[t]}
    /\ revoked' = revoked \union older[t]
    /\ UNCHANGED <<todo, records, workers, lease, persisted>>

(* SubjectLeaseTimeout, or the blob provider raises.                       *)
RevokeRaises(t) ==
    /\ Returns(t, "revoke.store")
    /\ \/ UNCHANGED blob
       \/ /\ Fault("sync") /\ lease[csubj[t]] = Free
          /\ blob' = blob \ {csubj[t]}
    /\ UNCHANGED <<todo, records, workers, lease, persisted, revoked>>

CloseCall(t) ==
    /\ "close" \in Calls
    /\ Goes(t, "idle", "close.next")
    /\ todo' = [todo EXCEPT ![t] = known]
    /\ UNCHANGED <<cflow, csubj, goal, records, workers, store, history>>

CloseNext(t) ==
    /\ \/ \E f \in todo[t] :
           /\ todo' = [todo EXCEPT ![t] = @ \ {f}]
           /\ IF state[f] \in Terminal
                THEN Goes(t, "close.next", "close.next") /\ UNCHANGED <<cflow, goal>>
                ELSE Cancels(t, "close.next", f, "close.next")
       \/ Goes(t, "close.next", "wait") /\ todo[t] = {} /\ UNCHANGED <<cflow, goal, todo>>
    /\ UNCHANGED <<csubj, records, workers, store, history>>

(* reap forgets records that have been terminal for long enough.           *)
Reap ==
    /\ \E gone \in SUBSET {f \in known : state[f] \in Terminal} :
        /\ gone # {}
        /\ known' = known \ gone
        /\ active' = [s \in Subjects |-> IF active[s] \in gone THEN NoFlow ELSE active[s]]
    /\ UNCHANGED <<subj, state, cancel, ready, client, workers, callers, store, history>>

-----------------------------------------------------------------------------
(* The environment.                                                        *)

(* Records, threads and leases of the process are gone; the blobs stay.    *)
Restart ==
    /\ Fault("restart")
    /\ known # {}
    /\ known' = {}
    /\ active' = [s \in Subjects |-> NoFlow]
    /\ cancel' = {}
    /\ ready' = {}
    /\ client' = {}
    /\ wpc' = [f \in Flows |-> IF Live(f) THEN "done" ELSE wpc[f]]
    /\ exc' = [f \in Flows |-> "none"]
    /\ closed' = {}
    /\ cpc' = [t \in Callers |-> "idle"]
    /\ cflow' = [t \in Callers |-> NoFlow]
    /\ csubj' = [t \in Callers |-> NoSubject]
    /\ goal' = [t \in Callers |-> "idle"]
    /\ todo' = [t \in Callers |-> {}]
    /\ lease' = [s \in Subjects |-> Free]
    /\ older' = [t \in Callers |-> {}]
    /\ UNCHANGED <<subj, state, blob, persisted, revoked>>

-----------------------------------------------------------------------------
Work(f) ==
    \/ EnterSession(f) \/ SessionRefused(f) \/ StartClient(f) \/ Register(f) \/ Check(f)
    \/ StartLogin(f) \/ Publish(f) \/ Interrupted(f) \/ Recheck(f) \/ ExitSession(f)
    \/ Finish(f)

Answer(t) ==
    \/ Join(t) \/ NewFlow(t) \/ StartThread(t) \/ BeginReturns(t) \/ StartupTimeout(t)
    \/ SetCancel(t) \/ CloseClient(t) \/ WaitReturns(t) \/ RevokeChecks(t)
    \/ RevokeWaits(t) \/ RevokeStore(t) \/ RevokeRaises(t) \/ CloseNext(t)

Next ==
    \/ \E f \in Flows : Work(f) \/ Approve(f) \/ GiveUp(f)
    \/ \E t \in Callers :
        \/ Answer(t)
        \/ \E s \in Subjects : Begin(t, s) \/ RevokeCall(t, s)
        \/ CloseCall(t)
        \/ \E f \in Flows : CancelCall(t, f)
    \/ Reap \/ Restart

Spec == Init /\ [][Next]_vars

(* Threads run; what a worker does between two steps is bounded by a       *)
(* timeout.  Nothing is assumed of the user or of the 600-second limit.    *)
FairSpec ==
    /\ Spec
    /\ \A f \in Flows : WF_vars(Work(f))
    /\ \A t \in Callers : WF_vars(Answer(t))

-----------------------------------------------------------------------------
(* The variables range over what their comments say, and a record that has *)
(* a worker belongs to a subject.                                          *)
TypeOK ==
    /\ known \subseteq Flows
    /\ active \in [Subjects -> Flows \union {NoFlow}]
    /\ subj \in [Flows -> Subjects \union {NoSubject}]
    /\ state \in [Flows -> Terminal \union {"STARTING", "WAITING_USER"}]
    /\ cancel \subseteq Flows
    /\ ready \subseteq Flows
    /\ client \subseteq Flows
    /\ wpc \in [Flows -> InSession \union {"unborn", "created", "lease", "finish", "done"}]
    /\ \A f \in Flows : wpc[f] # "unborn" => subj[f] \in Subjects
    /\ exc \in [Flows -> Unwound]
    /\ closed \subseteq Flows
    /\ cpc \in [Callers -> CallerSteps]
    /\ cflow \in [Callers -> Flows \union {NoFlow}]
    /\ csubj \in [Callers -> Subjects \union {NoSubject}]
    /\ \A t \in Callers : cpc[t] \in NeedsFlow => cflow[t] \in Flows
    /\ \A t \in Callers : Aim(t) \in NeedsSubject => csubj[t] \in Subjects
    /\ goal \in [Callers -> {"idle", "wait", "revoke.wait", "close.next"}]
    /\ todo \in [Callers -> SUBSET Flows]
    /\ lease \in [Subjects -> Flows \union {Free}]
    /\ blob \subseteq Subjects
    /\ persisted \subseteq Flows
    /\ older \in [Callers -> SUBSET Flows]
    /\ revoked \subseteq Flows

(* A subject never has two device-code flows at once, whatever begins,     *)
(* cancellations, expiries, reaps and restarts interleave: begin joins the *)
(* pending flow instead of launching a second Codex.                       *)
OneLiveFlow ==
    \A f, g \in Flows :
        Live(f) /\ Live(g) /\ subj[f] = subj[g] => f = g

(* When revoke returns, no flow that was under way when it was called has  *)
(* a worker left that could seal a credential after the deletion; a worker *)
(* still queueing for the lease counts.                                    *)
RevokeStopsOlderFlows == \A f \in revoked : ~Live(f)

(* The state a flow ends in tells whether its credential was stored:       *)
(* AUTHORIZED flows stored one, cancelled, expired and failed ones did     *)
(* not.  It needs a blob provider that does not raise after os.replace.    *)
StateTellsPersistence ==
    \A f \in known :
        state[f] \in Terminal => (state[f] = "AUTHORIZED" <=> f \in persisted)

(* A cancelled flow ends although the user never answers and the 600       *)
(* seconds never pass: either the worker sees cancel_event, or cancel sees *)
(* the worker's client and closes it.                                      *)
CancelEnds ==
    \A f \in Flows : f \in cancel /\ Live(f) ~> ~Live(f)

=============================================================================
