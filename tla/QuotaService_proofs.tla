-------------------------- MODULE QuotaService_proofs --------------------------
(***************************************************************************)
(* Theorems about how the quota is read: the service and its readers       *)
(* (QuotaRead), its client of the app-server (AppServerClient) and what    *)
(* the limits are made into (QuotaWindows), for any number of readers, any *)
(* size of the pipe and whatever the sensor prints.                        *)
(***************************************************************************)
EXTENDS QuotaRead, AppServerClient, QuotaWindows,
        SequenceTheorems, WellFoundedInduction, TLAPS

(* Every reachable state is well typed, and a plaintext credential exists  *)
(* only under the lease.                                                   *)
THEOREM TypeCorrect == Spec => []TypeOK
<1> USE QuotaReadAssumption
<1> USE DEF TypeOK, Usable, Stored, Reconnect, Transient, Final, Errors, Outcomes
<1>1. Init => TypeOK
  BY DEF Init
<1>2. TypeOK /\ [Next]_vars => TypeOK'
  <2> SUFFICES ASSUME TypeOK, [Next]_vars PROVE TypeOK'
    OBVIOUS
  <2> USE DEF Goto, Raise, Unwind, Store, Keep, call
  <2>1. ASSUME NEW r \in Readers, Call(r) PROVE TypeOK'
    BY <2>1 DEF Call
  <2>2. ASSUME NEW r \in Readers, Refresh(r) PROVE TypeOK'
    BY <2>2 DEF Refresh
  <2>3. ASSUME NEW r \in Readers, Exists(r) PROVE TypeOK'
    BY <2>3 DEF Exists
  <2>4. ASSUME NEW r \in Readers, TakeLease(r) PROVE TypeOK'
    BY <2>4 DEF TakeLease
  <2>5. ASSUME NEW r \in Readers, Load(r) PROVE TypeOK'
    BY <2>5 DEF Load
  <2>6. ASSUME NEW r \in Readers, Body(r) PROVE TypeOK'
    BY <2>6 DEF Body, BodyErrors
  <2>7. ASSUME NEW r \in Readers, Save(r) PROVE TypeOK'
    BY <2>7 DEF Save
  <2>8. ASSUME NEW r \in Readers, Normalize(r) PROVE TypeOK'
    BY <2>8 DEF Normalize
  <2>9. ASSUME NEW r \in Readers, Retry(r) PROVE TypeOK'
    BY <2>9 DEF Retry
  <2>10. ASSUME NEW r \in Readers, GiveUp(r) PROVE TypeOK'
    BY <2>10 DEF GiveUp, Decision, Bare
  <2>11. ASSUME NEW r \in Readers, Return(r) PROVE TypeOK'
    BY <2>11 DEF Return
  <2>12. CASE Connect \/ Revoke
    BY <2>12 DEF Connect, Revoke
  <2>13. CASE Logout \/ Rotate
    BY <2>13 DEF Logout, Rotate
  <2>14. CASE UNCHANGED vars
    BY <2>14 DEF vars
  <2> QED
    BY <2>1, <2>2, <2>3, <2>4, <2>5, <2>6, <2>7, <2>8, <2>9, <2>10, <2>11,
       <2>12, <2>13, <2>14 DEF Next, Advance
<1>3. QED
  BY <1>1, <1>2, PTL DEF Spec

-----------------------------------------------------------------------------
(* Why a credential that Codex may refuse is in a home, and why an         *)
(* exception of the reconnect class propagates.                            *)
Why(r, e) ==
    CASE e \in {"unbound", "gone"} -> {"none"}
      [] e = "corrupt" -> {"unreadable", "spoiled"}
      [] e = "rejected" -> {"spent"}
      [] OTHER -> {"none", "unreadable", "spoiled", "spent"}

CauseInv ==
    \A r \in Readers :
        /\ pc[r] # "idle" => stored \in seen[r]
        /\ copy[r] = "spent" => "spent" \in seen[r]
        /\ pc[r] \notin {"failed", "answered"} => error[r] = "none"
        /\ pc[r] # "answered" => outcome[r] = "none"
        /\ error[r] \in Reconnect => seen[r] \intersect Why(r, error[r]) # {}
        /\ outcome[r] = "ReauthorizationRequired" => error[r] \in Reconnect

(* A reconnect is demanded only when the last attempt met no usable        *)
(* credential: an exception of the reconnect class keeps its cause among   *)
(* the values seen, and only such an exception leads to the demand.        *)
THEOREM ReauthJustified == Spec => []ReauthIsJustified
<1> USE QuotaReadAssumption
<1> USE DEF CauseInv, Usable, Stored, Reconnect, Transient, Final, Errors, Outcomes
<1>1. Init => CauseInv
  BY DEF Init
<1>2. TypeOK /\ CauseInv /\ [Next]_vars => CauseInv'
  <2> SUFFICES ASSUME TypeOK, CauseInv, [Next]_vars PROVE CauseInv'
    OBVIOUS
  <2> USE DEF TypeOK, Why, Goto, Raise, Unwind, Store, Keep, call
  <2>1. ASSUME NEW r \in Readers, Call(r) PROVE CauseInv'
    BY <2>1 DEF Call
  <2>2. ASSUME NEW r \in Readers, Refresh(r) PROVE CauseInv'
    BY <2>2 DEF Refresh
  <2>3. ASSUME NEW r \in Readers, Exists(r) PROVE CauseInv'
    BY <2>3 DEF Exists
  <2>4. ASSUME NEW r \in Readers, TakeLease(r) PROVE CauseInv'
    BY <2>4 DEF TakeLease
  <2>5. ASSUME NEW r \in Readers, Load(r) PROVE CauseInv'
    BY <2>5 DEF Load
  <2>6. ASSUME NEW r \in Readers, Body(r) PROVE CauseInv'
    BY <2>6 DEF Body, BodyErrors
  <2>7. ASSUME NEW r \in Readers, Save(r) PROVE CauseInv'
    BY <2>7 DEF Save
  <2>8. ASSUME NEW r \in Readers, Normalize(r) PROVE CauseInv'
    BY <2>8 DEF Normalize
  <2>9. ASSUME NEW r \in Readers, Retry(r) PROVE CauseInv'
    BY <2>9 DEF Retry
  <2>10. ASSUME NEW r \in Readers, GiveUp(r) PROVE CauseInv'
    BY <2>10 DEF GiveUp, Decision, Bare
  <2>11. ASSUME NEW r \in Readers, Return(r) PROVE CauseInv'
    BY <2>11 DEF Return
  <2>12. CASE Connect \/ Revoke
    BY <2>12 DEF Connect, Revoke
  <2>13. CASE Logout \/ Rotate
    BY <2>13 DEF Logout, Rotate
  <2>14. CASE UNCHANGED vars
    BY <2>14 DEF vars
  <2> QED
    BY <2>1, <2>2, <2>3, <2>4, <2>5, <2>6, <2>7, <2>8, <2>9, <2>10, <2>11,
       <2>12, <2>13, <2>14 DEF Next, Advance
<1>3. CauseInv => ReauthIsJustified
  BY DEF ReauthIsJustified, Why
<1>4. QED
  BY <1>1, <1>2, <1>3, TypeCorrect, PTL DEF Spec

-----------------------------------------------------------------------------
(* An attempt that met no credential at all fails in the existence check.  *)
MissInv ==
    \A r \in Readers :
        /\ pc[r] # "idle" => stored \in seen[r]
        /\ pc[r] \notin {"failed", "answered"} => outcome[r] = "none" /\ error[r] = "none"
        /\ pc[r] = "failed" => outcome[r] = "none" /\ error[r] # "none"
        /\ seen[r] = {"none"} =>
             /\ pc[r] \in {"exists", "failed", "answered"}
             /\ error[r] \in {"none", "unbound", "io"}
             /\ pc[r] = "answered" /\ error[r] # "io" =>
                  /\ error[r] = "unbound"
                  /\ outcome[r] = IF recovering THEN Decision("unbound") ELSE Bare("unbound")

(* A subject without a credential is asked to connect, by either service.  *)
THEOREM MissingReported == Spec => []MissingIsReported
<1> USE QuotaReadAssumption
<1> USE DEF MissInv, Usable, Stored, Reconnect, Transient, Final, Errors, Outcomes
<1>1. Init => MissInv
  BY DEF Init
<1>2. TypeOK /\ MissInv /\ [Next]_vars => MissInv'
  <2> SUFFICES ASSUME TypeOK, MissInv, [Next]_vars PROVE MissInv'
    OBVIOUS
  <2> USE DEF TypeOK, Goto, Raise, Unwind, Store, Keep, call
  <2>1. ASSUME NEW r \in Readers, Call(r) PROVE MissInv'
    BY <2>1 DEF Call
  <2>2. ASSUME NEW r \in Readers, Refresh(r) PROVE MissInv'
    BY <2>2 DEF Refresh
  <2>3. ASSUME NEW r \in Readers, Exists(r) PROVE MissInv'
    BY <2>3 DEF Exists
  <2>4. ASSUME NEW r \in Readers, TakeLease(r) PROVE MissInv'
    BY <2>4 DEF TakeLease
  <2>5. ASSUME NEW r \in Readers, Load(r) PROVE MissInv'
    BY <2>5 DEF Load
  <2>6. ASSUME NEW r \in Readers, Body(r) PROVE MissInv'
    BY <2>6 DEF Body, BodyErrors
  <2>7. ASSUME NEW r \in Readers, Save(r) PROVE MissInv'
    <3>1. pc[r] = "save" /\ UNCHANGED <<recovering, call>> /\ pc'[r] \in {"normalize", "failed"}
      BY <2>7 DEF Save
    <3>2. \A q \in Readers : q # r => pc'[q] = pc[q] /\ error'[q] = error[q]
      BY <2>7 DEF Save
    <3>3. \/ pc'[r] = "normalize" /\ error'[r] = error[r]
          \/ pc'[r] = "failed" /\ error'[r] # "none"
      <4>1. \/ Goto(r, "save", "normalize") /\ UNCHANGED error
            \/ \E e \in {"corrupt", "other", "io"} : Raise(r, e)
        BY <2>7 DEF Save
      <4> QED
        BY <4>1
    <3>4. \/ UNCHANGED <<stored, seen>>
          \/ Store(copy[r])
          \/ UNCHANGED stored /\ seen' = [seen EXCEPT ![r] = @ \union {"spoiled"}]
      BY <2>7 DEF Save
    <3>5. /\ \A q \in Readers : pc'[q] # "idle" => stored' \in seen'[q]
          /\ \A q \in Readers : seen'[q] = {"none"} => seen[q] = {"none"}
      <4>1. \A q \in Readers : pc[q] # "idle" => stored \in seen[q]
        OBVIOUS
      <4>2. CASE Store(copy[r])
        BY <3>1, <3>2, <4>1, <4>2
      <4>3. CASE UNCHANGED <<stored, seen>>
        BY <3>1, <3>2, <4>1, <4>3
      <4>4. CASE UNCHANGED stored /\ seen' = [seen EXCEPT ![r] = @ \union {"spoiled"}]
        BY <3>1, <3>2, <4>1, <4>4
      <4> QED
        BY <3>4, <4>2, <4>3, <4>4
    <3> QED
      BY <3>1, <3>2, <3>3, <3>5
  <2>8. ASSUME NEW r \in Readers, Normalize(r) PROVE MissInv'
    BY <2>8 DEF Normalize
  <2>9. ASSUME NEW r \in Readers, Retry(r) PROVE MissInv'
    BY <2>9 DEF Retry
  <2>10. ASSUME NEW r \in Readers, GiveUp(r) PROVE MissInv'
    BY <2>10 DEF GiveUp
  <2>11. ASSUME NEW r \in Readers, Return(r) PROVE MissInv'
    BY <2>11 DEF Return
  <2>12. CASE Connect \/ Revoke
    BY <2>12 DEF Connect, Revoke
  <2>13. CASE Logout \/ Rotate
    BY <2>13 DEF Logout, Rotate
  <2>14. CASE UNCHANGED vars
    BY <2>14 DEF vars
  <2> QED
    BY <2>1, <2>2, <2>3, <2>4, <2>5, <2>6, <2>7, <2>8, <2>9, <2>10, <2>11,
       <2>12, <2>13, <2>14 DEF Next, Advance
<1>3. MissInv => MissingIsReported
  <2> SUFFICES ASSUME MissInv, NEW r \in Readers, outcome[r] # "none",
                      seen[r] = {"none"}, error[r] # "io"
               PROVE \/ Dispatch(outcome[r]) = "QUOTA_AUTH_REQUIRED"
                     \/ recovering /\ outcome[r] = "ReauthorizationRequired"
    BY DEF MissingIsReported
  <2> QED
    BY DEF Dispatch, Decision, Bare
<1>4. QED
  BY <1>1, <1>2, <1>3, TypeCorrect, PTL DEF Spec

-----------------------------------------------------------------------------
(* The client of the app-server.                                           *)
(* A session takes at most two requests.                                   *)
ClientTyped ==
    /\ ClientTypeOK
    /\ step = "start" => requestId = 0 /\ task = "none"
    /\ task = "initialize" => requestId = 1

(* A line is taken from those that are there, and the others move up.      *)
LEMMA LinesRead ==
    ASSUME NEW S, NEW lines \in Seq(S), lines # <<>>
    PROVE  /\ Head(lines) \in S /\ Tail(lines) \in Seq(S)
           /\ Len(lines) \in Nat /\ 1 <= Len(lines)
           /\ Head(lines) = lines[1]
           /\ Len(Tail(lines)) = Len(lines) - 1
           /\ \A i \in 1..Len(Tail(lines)) :
                 Tail(lines)[i] = lines[i + 1] /\ i + 1 \in 1..Len(lines)
<1>1. Len(lines) \in Nat \ {0}
  BY EmptySeq, LenProperties
<1>2. /\ Head(lines) \in S /\ Tail(lines) \in Seq(S)
      /\ Len(Tail(lines)) = Len(lines) - 1
      /\ \A i \in 1..Len(Tail(lines)) : Tail(lines)[i] = lines[i + 1]
  BY HeadTailProperties
<1> QED
  BY <1>1, <1>2

(* A line that is written stands behind those in the pipe.                 *)
LEMMA LineWritten ==
    ASSUME NEW message \in Message, pipe \in Seq(Message), Write(message)
    PROVE  /\ pipe' \in Seq(Message)
           /\ \A i \in 1..Len(pipe') : 
                 pipe'[i] = message \/ (i \in 1..Len(pipe) /\ pipe'[i] = pipe[i])
<1>1. pipe' = Append(pipe, message)
  BY DEF Write
<1> QED
  BY <1>1, AppendProperties, LenProperties

(* What Codex writes is a message.                                         *)
LEMMA Messages ==
    /\ \A id \in 1..3, ok \in BOOLEAN :
          [type |-> "response", id |-> id, ok |-> ok] \in Message
    /\ \A of \in {"this", "none", "another"}, ok \in BOOLEAN :
          [type |-> "completed", of |-> of, ok |-> ok] \in Message
    /\ \A account \in BOOLEAN : [type |-> "updated", account |-> account] \in Message
    /\ [type |-> "other"] \in Message /\ [type |-> "garbage"] \in Message
BY DEF Message

(* Every reachable state of the client is well typed: at most two requests *)
(* have been written, and the streams hold messages only.                  *)
THEOREM ClientTypeCorrect == ClientSpec => []ClientTyped
<1>1. ClientInit => ClientTyped
  <2>1. <<>> \in Seq(Message)
    BY EmptySeq
  <2> SUFFICES ASSUME ClientInit PROVE ClientTyped
    OBVIOUS
  <2>2. completed \in BOOLEAN /\ late \in BOOLEAN /\ closed \in BOOLEAN /\ running \in BOOLEAN
    BY DEF ClientInit
  <2>3. answered \in 0..requestId /\ requestId \in 0..2
    BY DEF ClientInit
  <2> QED
    BY <2>1, <2>2, <2>3
       DEF ClientInit, ClientTyped, ClientTypeOK, Waiting, Requests
<1>2. ClientTyped /\ [ClientNext]_clientVars => ClientTyped'
  <2> SUFFICES ASSUME ClientTyped, [ClientNext]_clientVars PROVE ClientTyped'
    OBVIOUS
  <2> USE DEF ClientTyped, ClientTypeOK, Waiting, Requests
  <2> USE DEF codex, client
  <2>1. ASSUME NEW from \in {"start", "idle"}, NEW what \in Requests,
               Request(from, what),
               from = "start" <=> what = "initialize",
               from = "idle" => task = "initialize"
        PROVE  ClientTyped'
    <3>1. CASE UNCHANGED <<task, requestId, completed, late>>
      BY <2>1, <3>1 DEF Request, Await
    <3>2. CASE step' = "loop" /\ Await(what) /\ requestId' = requestId + 1
      <4>1. /\ task' = what /\ ending' = "none" /\ late' = FALSE /\ completed' = FALSE
            /\ UNCHANGED <<closed, buffer, pipe, running, answered, login, foreign>>
        BY <2>1, <3>2 DEF Request, Await
      <4>2. requestId \in 0..1 /\ (what = "initialize" => requestId = 0)
        BY <2>1 DEF Request
      <4>3. /\ requestId' \in 0..2 /\ answered' \in 0..requestId'
            /\ task' = "initialize" => requestId' = 1
        BY <3>2, <4>1, <4>2
      <4>4. late' \in BOOLEAN /\ completed' \in BOOLEAN
        BY <4>1
      <4> QED
        BY <3>2, <4>1, <4>3, <4>4
    <3> QED
      BY <2>1, <3>1, <3>2 DEF Request
  <2>11. CASE Start \/ Login \/ ReadLimits
    BY <2>1, <2>11 DEF Start, Login, ReadLimits
  <2>2. CASE WaitUntilAuthenticated
    BY <2>2 DEF WaitUntilAuthenticated, Move, Await
  <2>3. CASE Loop \/ Select
    BY <2>3 DEF Loop, Select, End
  <2>4. CASE Read
    <3> DEFINE lines == IF buffer = <<>> THEN pipe ELSE buffer
    <3>1. lines \in Seq(Message)
      OBVIOUS
    <3> HIDE DEF lines
    <3>2. pipe' \in Seq(Message)
      BY <2>4, EmptySeq DEF Read
    <3>3. /\ UNCHANGED <<task, requestId, late, closed, running, answered, login, foreign>>
          /\ step = "read"
      BY <2>4 DEF Read
    <3>4. CASE lines = <<>>
      <4>1. End("error") /\ UNCHANGED <<completed, buffer>>
        BY <2>4, <3>4 DEF Read, lines
      <4> QED
        BY <3>2, <3>3, <4>1 DEF End
    <3>5. CASE lines # <<>>
      <4>1. Take(Head(lines)) /\ buffer' = Tail(lines)
        BY <2>4, <3>5 DEF Read, lines
      <4>2. buffer' \in Seq(Message)
        BY <3>1, <3>5, <4>1, LinesRead
      <4>3. /\ step' \in {"loop", "idle", "over", "leaked"}
            /\ ending' \in {"none", "ok", "timeout", "error"}
            /\ completed' \in BOOLEAN
        BY <4>1 DEF Take, Handle, End
      <4> QED
        BY <3>2, <3>3, <4>2, <4>3
    <3> QED
      BY <3>4, <3>5
  <2>5. CASE Exit
    BY <2>5 DEF Exit
  <2>12. CASE Deadline
    BY <2>12 DEF Deadline
  <2>13. CASE Close
    BY <2>13 DEF Close
  <2>14. CASE CodexExits
    <3>1. /\ running' \in BOOLEAN
          /\ UNCHANGED <<client, buffer, pipe, answered, login, foreign>>
      BY <2>14 DEF CodexExits
    <3> QED
      BY <3>1
  <2>6. CASE Answer
    <3>1. PICK ok \in BOOLEAN : Write([type |-> "response", id |-> requestId, ok |-> ok])
      BY <2>6 DEF Answer
    <3>2. requestId \in 1..3
      BY <2>6 DEF Answer
    <3>3. pipe' \in Seq(Message)
      BY <3>1, <3>2, Messages, LineWritten
    <3>4. login' \in {"started", login} /\ answered' = requestId
          /\ UNCHANGED <<client, buffer, running, foreign>>
      BY <2>6 DEF Answer
    <3> QED
      BY <3>3, <3>4
  <2>7. CASE LoginCompleted
    <3>1. /\ \E of \in {"this", "none"}, ok \in BOOLEAN :
                Write([type |-> "completed", of |-> of, ok |-> ok])
          /\ login' \in {"completed", "refused"}
          /\ UNCHANGED <<client, buffer, running, answered, foreign>>
      BY <2>7 DEF LoginCompleted
    <3>2. pipe' \in Seq(Message)
      BY <3>1, Messages, LineWritten
    <3> QED
      BY <3>1, <3>2
  <2>8. CASE AccountUpdated
    <3>1. /\ Write([type |-> "updated", account |-> TRUE])
          /\ login' = "ready"
          /\ UNCHANGED <<client, buffer, running, answered, foreign>>
      BY <2>8 DEF AccountUpdated
    <3>2. pipe' \in Seq(Message)
      BY <3>1, Messages, LineWritten
    <3> QED
      BY <3>1, <3>2
  <2>9. CASE Notify
    <3>1. /\ \E message \in Message : Write(message)
          /\ UNCHANGED <<client, buffer, codex>>
      BY <2>9, Messages DEF Notify
    <3>2. pipe' \in Seq(Message)
      BY <3>1, LineWritten
    <3> QED
      BY <3>1, <3>2
  <2>15. CASE Another
    <3>1. /\ \E message \in Message : Write(message)
          /\ foreign' \subseteq {"unnamed", "early"}
          /\ UNCHANGED <<client, buffer, running, answered, login>>
      BY <2>15, Messages DEF Another
    <3>2. pipe' \in Seq(Message)
      BY <3>1, LineWritten
    <3> QED
      BY <3>1, <3>2
  <2>10. CASE UNCHANGED clientVars
    BY <2>10 DEF clientVars
  <2> QED
    BY <2>1, <2>2, <2>3, <2>4, <2>5, <2>6, <2>7, <2>8, <2>9, <2>10, <2>11, <2>12, <2>13, <2>14, <2>15
       DEF ClientNext, Client, Codex
<1> QED
  BY <1>1, <1>2, PTL DEF ClientSpec
-----------------------------------------------------------------------------
(* What is on its way to the client, in the order it was written.          *)
Incoming == buffer \o pipe

(* A successful completion the client takes for its own.                   *)
Completes(message) == Mine(message) /\ message.ok

(* The announcement of an account.                                         *)
Announces(message) == message.type = "updated" /\ message.account

(* Unless an account was announced too early, what is announced after the  *)
(* completion of this login is its reloaded account.                       *)
Reloaded == login = "ready" \/ "early" \in foreign

(* Codex is not asked to log in twice, so that it stays ready.  As long as *)
(* every unnamed completion is this login's, one that was written or seen  *)
(* means that this login is completed, and what is announced behind it     *)
(* means that it is reloaded.                                              *)
ReadyInv ==
    /\ task \in {"none", "initialize", "limits"} => login = "none"
    /\ task = "login" /\ login # "none" => answered = requestId
    /\ "unnamed" \notin foreign =>
         /\ completed => login \in {"completed", "ready"}
         /\ \A i \in 1..Len(Incoming) :
               Completes(Incoming[i]) => login \in {"completed", "ready"}
         /\ \A j \in 1..Len(Incoming) :
               /\ Announces(Incoming[j])
               /\ completed \/ \E i \in 1..(j - 1) : Completes(Incoming[i])
               => Reloaded
    /\ AuthenticatedIsReady

(* Reading takes the first of the lines that are on their way ...          *)
LEMMA FirstTaken ==
    ASSUME buffer \in Seq(Message), pipe \in Seq(Message), Read
    PROVE  \/ /\ Incoming = <<>> /\ End("error")
              /\ UNCHANGED <<completed, buffer>> /\ pipe' = <<>>
           \/ /\ Take(Incoming[1]) /\ 1 <= Len(Incoming) /\ Incoming[1] \in Message
              /\ Len(Incoming') = Len(Incoming) - 1
              /\ \A i \in 1..Len(Incoming') : Incoming'[i] = Incoming[i + 1]
<1> DEFINE lines == IF buffer = <<>> THEN pipe ELSE buffer
<1>1. Incoming \in Seq(Message) /\ lines \in Seq(Message)
  BY ConcatProperties DEF Incoming
<1>2. CASE lines = <<>>
  <2>1. buffer = <<>> /\ pipe = <<>>
    BY <1>2
  <2>2. Incoming = <<>>
    BY <2>1, ConcatEmptySeq, EmptySeq DEF Incoming
  <2> QED
    BY <1>2, <2>1, <2>2 DEF Read
<1>3. CASE lines # <<>>
  <2>1. Take(Head(lines)) /\ buffer' = Tail(lines)
        /\ pipe' = IF buffer = <<>> THEN <<>> ELSE pipe
    BY <1>3 DEF Read
  <2>2. /\ Head(lines) \in Message /\ Tail(lines) \in Seq(Message)
        /\ Len(lines) \in Nat /\ 1 <= Len(lines)
        /\ Head(lines) = lines[1]
        /\ Len(Tail(lines)) = Len(lines) - 1
        /\ \A i \in 1..Len(Tail(lines)) : Tail(lines)[i] = lines[i + 1]
    BY <1>1, <1>3, LinesRead
  <2>3. CASE buffer = <<>>
    <3>1. lines = pipe /\ Incoming = lines /\ Incoming' = Tail(lines)
      BY <1>1, <2>1, <2>2, <2>3, ConcatEmptySeq DEF Incoming
    <3> QED
      BY <2>1, <2>2, <3>1
  <2>4. CASE buffer # <<>>
    <3>1. lines = buffer /\ Incoming' = Tail(lines) \o pipe
      BY <2>1, <2>4 DEF Incoming
    <3> HIDE DEF lines
    <3>2. /\ Len(pipe) \in Nat
          /\ Len(Incoming) = Len(lines) + Len(pipe)
          /\ \A i \in 1..(Len(lines) + Len(pipe)) :
               Incoming[i] = IF i <= Len(lines) THEN lines[i] ELSE pipe[i - Len(lines)]
      BY <1>1, <3>1, ConcatProperties, LenProperties DEF Incoming
    <3>3. /\ Len(Incoming') = Len(Tail(lines)) + Len(pipe)
          /\ \A i \in 1..(Len(Tail(lines)) + Len(pipe)) :
               Incoming'[i] = IF i <= Len(Tail(lines)) THEN Tail(lines)[i]
                              ELSE pipe[i - Len(Tail(lines))]
      BY <2>2, <3>1, ConcatProperties
    <3>4. Incoming[1] = Head(lines) /\ 1 <= Len(Incoming)
          /\ Len(Incoming') = Len(Incoming) - 1
      BY <2>2, <3>2, <3>3
    <3>5. ASSUME NEW i \in 1..Len(Incoming') PROVE Incoming'[i] = Incoming[i + 1]
      <4>1. /\ i \in 1..(Len(Tail(lines)) + Len(pipe))
            /\ i + 1 \in 1..(Len(lines) + Len(pipe))
        BY <2>2, <3>2, <3>3, <3>5
      <4>2. CASE i <= Len(Tail(lines))
        BY <2>2, <3>2, <3>3, <4>1, <4>2
      <4>3. CASE ~(i <= Len(Tail(lines)))
        <5>1. i - Len(Tail(lines)) = (i + 1) - Len(lines) /\ ~(i + 1 <= Len(lines))
          BY <2>2, <4>1, <4>3
        <5> QED
          BY <2>2, <3>2, <3>3, <4>1, <4>3, <5>1
      <4> QED
        BY <4>2, <4>3
    <3> QED
      BY <2>1, <2>2, <3>4, <3>5
  <2> QED
    BY <2>3, <2>4
<1> QED
  BY <1>2, <1>3

(* ... and writing adds one behind them.                                   *)
LEMMA LastWritten ==
    ASSUME NEW message \in Message, buffer \in Seq(Message), pipe \in Seq(Message),
           Write(message), UNCHANGED buffer
    PROVE  /\ Len(Incoming) \in Nat /\ Len(Incoming') = Len(Incoming) + 1
           /\ Incoming'[Len(Incoming) + 1] = message
           /\ \A i \in 1..Len(Incoming) : Incoming'[i] = Incoming[i]
<1>1. Incoming' = buffer \o Append(pipe, message)
  BY DEF Write, Incoming
<1>2. /\ Append(pipe, message) \in Seq(Message)
      /\ Len(Append(pipe, message)) = Len(pipe) + 1
      /\ \A i \in 1..Len(pipe) : Append(pipe, message)[i] = pipe[i]
      /\ Append(pipe, message)[Len(pipe) + 1] = message
      /\ Len(pipe) \in Nat /\ Len(buffer) \in Nat
  BY AppendProperties, LenProperties
<1>3. /\ Len(Incoming) = Len(buffer) + Len(pipe)
      /\ \A i \in 1..(Len(buffer) + Len(pipe)) :
           Incoming[i] = IF i <= Len(buffer) THEN buffer[i] ELSE pipe[i - Len(buffer)]
  BY ConcatProperties DEF Incoming
<1> DEFINE longer == Append(pipe, message)
<1>4. /\ Len(Incoming') = Len(buffer) + Len(longer)
      /\ \A i \in 1..(Len(buffer) + Len(longer)) :
           Incoming'[i] = IF i <= Len(buffer) THEN buffer[i] ELSE longer[i - Len(buffer)]
  BY <1>1, <1>2, ConcatProperties
<1> HIDE DEF longer
<1>5. /\ Len(longer) = Len(pipe) + 1
      /\ \A i \in 1..Len(pipe) : longer[i] = pipe[i]
      /\ longer[Len(pipe) + 1] = message
  BY <1>2 DEF longer
<1>6. ASSUME NEW i \in 1..Len(Incoming) PROVE Incoming'[i] = Incoming[i]
  <2>1. CASE i <= Len(buffer)
    BY <1>2, <1>3, <1>4, <1>5, <1>6, <2>1
  <2>2. CASE ~(i <= Len(buffer))
    <3>1. i - Len(buffer) \in 1..Len(pipe)
      BY <1>2, <1>3, <1>6, <2>2
    <3>2. Incoming[i] = pipe[i - Len(buffer)]
      BY <1>3, <1>6, <2>2
    <3>3. i \in 1..(Len(buffer) + Len(longer))
      BY <1>2, <1>3, <1>5, <1>6
    <3>4. Incoming'[i] = longer[i - Len(buffer)]
      BY <1>4, <2>2, <3>3
    <3> QED
      BY <1>5, <3>1, <3>2, <3>4
  <2> QED
    BY <2>1, <2>2
<1>7. Incoming'[Len(Incoming) + 1] = message
  <2>1. (Len(Incoming) + 1) - Len(buffer) = Len(pipe) + 1 /\ ~(Len(Incoming) + 1 <= Len(buffer))
        /\ Len(Incoming) + 1 \in 1..(Len(buffer) + Len(longer))
    BY <1>2, <1>3, <1>5
  <2> QED
    BY <1>4, <1>5, <2>1
<1> QED
  BY <1>2, <1>3, <1>4, <1>5, <1>6, <1>7

(* What is written disturbs nothing when it completes only a login that is *)
(* completed, and announces only what is reloaded once that is so.         *)
LEMMA WritingKeeps ==
    ASSUME ClientTyped, ReadyInv, NEW message \in Message, Write(message),
           UNCHANGED <<buffer, completed, task, ending, requestId>>,
           foreign \subseteq foreign',
           login \in {"completed", "ready"} => login' \in {"completed", "ready"},
           login = "ready" => login' = "ready",
           task \in {"none", "initialize", "limits"} => login' = "none",
           task = "login" /\ login' # "none" => answered' = requestId,
           "unnamed" \notin foreign' =>
             /\ Completes(message) => login' \in {"completed", "ready"}
             /\ Announces(message) /\ login \in {"completed", "ready"} => Reloaded'
    PROVE  ReadyInv'
<1> DEFINE n == Len(Incoming)
<1>1. /\ n \in Nat /\ Len(Incoming') = n + 1 /\ Incoming'[n + 1] = message
      /\ \A i \in 1..n : Incoming'[i] = Incoming[i]
  BY LastWritten DEF ClientTyped, ClientTypeOK
<1>2. AuthenticatedIsReady'
  BY DEF ReadyInv, AuthenticatedIsReady
<1>3. ASSUME "unnamed" \notin foreign'
      PROVE  /\ completed' => login' \in {"completed", "ready"}
             /\ \A i \in 1..Len(Incoming') :
                   Completes(Incoming'[i]) => login' \in {"completed", "ready"}
             /\ \A j \in 1..Len(Incoming') :
                   /\ Announces(Incoming'[j])
                   /\ completed' \/ \E i \in 1..(j - 1) : Completes(Incoming'[i])
                   => Reloaded'
  <2>1. /\ completed => login \in {"completed", "ready"}
        /\ \A i \in 1..n : Completes(Incoming[i]) => login \in {"completed", "ready"}
        /\ \A j \in 1..n :
               /\ Announces(Incoming[j])
               /\ completed \/ \E i \in 1..(j - 1) : Completes(Incoming[i])
               => Reloaded
    BY <1>3 DEF ReadyInv
  <2>2. Reloaded => Reloaded'
    BY DEF Reloaded
  <2>3. ASSUME NEW i \in 1..(n + 1), Completes(Incoming'[i])
        PROVE  login' \in {"completed", "ready"}
    <3>1. CASE i = n + 1
      BY <1>1, <1>3, <2>3, <3>1
    <3>2. CASE i \in 1..n
      <4>1. Incoming'[i] = Incoming[i]
        BY <1>1, <3>2
      <4> QED
        BY <2>1, <2>3, <3>2, <4>1
    <3> QED
      BY <1>1, <3>1, <3>2
  <2>4. ASSUME NEW j \in 1..(n + 1), Announces(Incoming'[j]),
               completed' \/ \E i \in 1..(j - 1) : Completes(Incoming'[i])
        PROVE  Reloaded'
    <3>1. completed \/ \E i \in 1..(j - 1) : i \in 1..n /\ Completes(Incoming[i])
      BY <1>1, <2>4
    <3>2. CASE j = n + 1
      BY <1>1, <1>3, <2>1, <2>4, <3>1, <3>2
    <3>3. CASE j \in 1..n
      <4>1. Incoming'[j] = Incoming[j]
        BY <1>1, <3>3
      <4> QED
        BY <2>1, <2>2, <2>4, <3>1, <3>3, <4>1
    <3> QED
      BY <1>1, <3>2, <3>3
  <2> QED
    BY <1>1, <2>1, <2>3, <2>4
<1> QED
  BY <1>2, <1>3 DEF ReadyInv

(* However notifications of this and other logins, other threads and the   *)
(* clock interleave, a login that wait_until_authenticated reports is one  *)
(* that Codex has completed and reloaded, but for the two cases that the   *)
(* client cannot tell apart (wait_until_authenticated, _wait_for).         *)
THEOREM AuthenticatedReady == ClientSpec => []AuthenticatedIsReady
<1>1. ClientInit => ReadyInv
  <2>1. ClientInit => Len(Incoming) = 0
    BY ConcatEmptySeq, EmptySeq DEF ClientInit, Incoming
  <2> QED
    BY <2>1 DEF ClientInit, ReadyInv, AuthenticatedIsReady
<1>2. ClientTyped /\ ReadyInv /\ [ClientNext]_clientVars => ReadyInv'
  <2> SUFFICES ASSUME ClientTyped, ReadyInv, [ClientNext]_clientVars PROVE ReadyInv'
    OBVIOUS
  <2> USE DEF codex, client
  <2>1. /\ task \in {"none", "initialize", "login", "limits", "await"}
        /\ answered \in 0..requestId /\ requestId \in 0..2
        /\ pipe \in Seq(Message) /\ buffer \in Seq(Message)
        /\ completed \in BOOLEAN
        /\ step = "start" => task = "none"
        /\ task = "initialize" => requestId = 1
    BY DEF ClientTyped, ClientTypeOK, Requests
  <2>2. ASSUME UNCHANGED <<buffer, pipe, answered, login, foreign>>,
               completed' => completed,
               task' \in {"none", "initialize", "limits"} => login = "none",
               task' = "login" /\ login # "none" => task = "login" /\ requestId' = requestId,
               task' = "await" /\ ending' = "ok" => task = "await" /\ ending = "ok"
        PROVE  ReadyInv'
    <3>1. Incoming' = Incoming
      BY <2>2 DEF Incoming
    <3> QED
      BY <2>2, <3>1 DEF ReadyInv, AuthenticatedIsReady, Reloaded
  <2>3. ASSUME NEW from, NEW what, Request(from, what), 
               what \in {"initialize", "limits", "login"}, login = "none"
        PROVE  ReadyInv'
    <3>1. CASE UNCHANGED <<task, requestId, completed, late>> /\ ending' = "error"
      BY <2>2, <2>3, <3>1 DEF Request, ReadyInv
    <3>2. CASE step' = "loop" /\ Await(what) /\ requestId' = requestId + 1
      BY <2>2, <2>3, <3>2 DEF Request, Await
    <3> QED
      BY <2>3, <3>1, <3>2 DEF Request
  <2>4. CASE Login \/ ReadLimits
    <3>1. login = "none"
      BY <2>4 DEF Login, ReadLimits, ReadyInv
    <3> QED
      BY <2>3, <2>4, <3>1 DEF Login, ReadLimits
  <2>5. CASE Start
    <3>1. login = "none"
      BY <2>1, <2>5 DEF Start, Request, ReadyInv
    <3> QED
      BY <2>3, <2>5, <3>1 DEF Start
  <2>6. CASE WaitUntilAuthenticated
    BY <2>2, <2>6 DEF WaitUntilAuthenticated, Move, Await
  <2>7. CASE Loop \/ Select
    <3>1. /\ UNCHANGED <<task, requestId, completed, buffer, pipe, answered, login, foreign>>
          /\ ending' \in {ending, "timeout", "error"}
      BY <2>7 DEF Loop, Select, End
    <3> QED
      BY <2>2, <3>1 DEF ReadyInv
  <2>8. CASE Exit \/ Deadline \/ Close \/ CodexExits \/ UNCHANGED clientVars
    BY <2>2, <2>8 DEF Exit, Deadline, Close, CodexExits, clientVars, ReadyInv
  <2>9. CASE Read
    <3>1. UNCHANGED <<task, requestId, answered, login, foreign>>
      BY <2>9 DEF Read
    <3>2. CASE /\ Incoming = <<>> /\ End("error")
               /\ UNCHANGED <<completed, buffer>> /\ pipe' = <<>>
      <4>1. pipe = <<>>
        BY <2>1, <3>2, ConcatProperties, EmptySeq, LenProperties DEF Incoming
      <4> QED
        BY <2>2, <3>1, <3>2, <4>1 DEF End, ReadyInv
    <3>3. CASE /\ Take(Incoming[1]) /\ 1 <= Len(Incoming) /\ Incoming[1] \in Message
               /\ Len(Incoming') = Len(Incoming) - 1
               /\ \A i \in 1..Len(Incoming') : Incoming'[i] = Incoming[i + 1]
      <4> DEFINE head == Incoming[1]
      <4>0. Len(Incoming) \in Nat
        BY <2>1, ConcatProperties, LenProperties DEF Incoming
      <4>1. completed' => completed \/ Completes(head)
        BY <3>3 DEF Take, Handle, Completes
      <4>2. ending' = "ok" /\ task = "await" =>
                \/ completed /\ Announces(head)
                \/ ending = "ok"
        BY <3>3 DEF Take, Handle, End, Ready, Announces, Requests
      <4>3. ASSUME "unnamed" \notin foreign
            PROVE  /\ completed => login \in {"completed", "ready"}
                   /\ \A i \in 1..Len(Incoming) :
                         Completes(Incoming[i]) => login \in {"completed", "ready"}
                   /\ \A j \in 1..Len(Incoming) :
                         /\ Announces(Incoming[j])
                         /\ completed \/ \E i \in 1..(j - 1) : Completes(Incoming[i])
                         => Reloaded
        BY <4>3 DEF ReadyInv
      <4>4. AuthenticatedIsReady'
        <5> SUFFICES ASSUME task = "await", ending' = "ok", "unnamed" \notin foreign
                     PROVE  login = "ready" \/ (login = "completed" /\ "early" \in foreign)
          BY <3>1 DEF AuthenticatedIsReady
        <5>1. CASE ending = "ok"
          <6>1. AuthenticatedIsReady
            BY DEF ReadyInv
          <6> QED
            BY <5>1, <6>1 DEF AuthenticatedIsReady
        <5>2. CASE completed /\ Announces(head)
          <6>1. 1 \in 1..Len(Incoming)
            BY <3>3, <4>0
          <6>2. Reloaded /\ login \in {"completed", "ready"}
            BY <4>3, <5>2, <6>1
          <6> QED
            BY <6>2 DEF Reloaded
        <5> QED
          BY <4>2, <5>1, <5>2
      <4>5. ASSUME "unnamed" \notin foreign,
                   NEW i \in 1..Len(Incoming'), Completes(Incoming'[i])
            PROVE  login \in {"completed", "ready"}
        <5>1. i + 1 \in 1..Len(Incoming) /\ Incoming'[i] = Incoming[i + 1]
          BY <3>3, <4>0, <4>5
        <5> QED
          BY <4>3, <4>5, <5>1
      <4>6. ASSUME "unnamed" \notin foreign,
                   NEW j \in 1..Len(Incoming'), Announces(Incoming'[j]),
                   completed' \/ \E i \in 1..(j - 1) : Completes(Incoming'[i])
            PROVE  Reloaded
        <5>1. j + 1 \in 1..Len(Incoming) /\ Incoming'[j] = Incoming[j + 1]
          BY <3>3, <4>0, <4>6
        <5>2. completed \/ \E i \in 1..j : Completes(Incoming[i])
          <6>1. CASE completed'
            BY <3>3, <4>0, <4>1, <6>1, <5>1
          <6>2. ASSUME NEW i \in 1..(j - 1), Completes(Incoming'[i])
                PROVE  i + 1 \in 1..j /\ Completes(Incoming[i + 1])
            <7>1. i \in 1..Len(Incoming') /\ i + 1 \in 1..j
              BY <3>3, <4>0, <6>2
            <7>2. Incoming'[i] = Incoming[i + 1]
              BY <3>3, <7>1
            <7> QED
              BY <6>2, <7>1, <7>2
          <6> QED
            BY <4>6, <6>1, <6>2
        <5>3. (j + 1) - 1 = j
          BY <4>6
        <5> QED
          BY <4>3, <4>6, <5>1, <5>2, <5>3
      <4>7. "unnamed" \notin foreign /\ completed' => login \in {"completed", "ready"}
        BY <3>3, <4>0, <4>1, <4>3
      <4> QED
        BY <3>1, <4>4, <4>5, <4>6, <4>7 DEF ReadyInv, Reloaded
    <3> QED
      BY <2>1, <2>9, <3>2, <3>3, FirstTaken
  <2>10. CASE Answer
    <3>1. PICK ok \in BOOLEAN :
            /\ Write([type |-> "response", id |-> requestId, ok |-> ok])
            /\ login' = IF task = "login" /\ ok THEN "started" ELSE login
      BY <2>10 DEF Answer
    <3>2. /\ requestId \in 1..3 /\ answered < requestId /\ answered' = requestId
          /\ UNCHANGED <<task, ending, requestId, completed, buffer, foreign>>
      BY <2>1, <2>10 DEF Answer
    <3>3. task = "login" => login = "none"
      BY <2>1, <3>2 DEF ReadyInv
    <3>4. task \in {"none", "initialize", "limits"} => login' = "none"
      BY <3>1 DEF ReadyInv
    <3>5. /\ ~Completes([type |-> "response", id |-> requestId, ok |-> ok])
          /\ ~Announces([type |-> "response", id |-> requestId, ok |-> ok])
      BY DEF Completes, Mine, Announces
    <3> QED
      BY <3>1, <3>2, <3>3, <3>4, <3>5, Messages, WritingKeeps
  <2>11. CASE LoginCompleted
    <3>1. PICK of \in {"this", "none"}, ok \in BOOLEAN :
            /\ Write([type |-> "completed", of |-> of, ok |-> ok])
            /\ login' = IF ok THEN "completed" ELSE "refused"
      BY <2>11 DEF LoginCompleted
    <3>2. /\ login = "started"
          /\ UNCHANGED <<task, ending, requestId, answered, completed, buffer, foreign>>
      BY <2>11 DEF LoginCompleted
    <3>3. task \notin {"none", "initialize", "limits"} /\ (task = "login" => answered = requestId)
      BY <3>2 DEF ReadyInv
    <3>4. Completes([type |-> "completed", of |-> of, ok |-> ok]) => ok
      BY DEF Completes
    <3>5. ~Announces([type |-> "completed", of |-> of, ok |-> ok])
      BY DEF Announces
    <3>6. [type |-> "completed", of |-> of, ok |-> ok] \in Message
      BY Messages
    <3> QED
      BY <3>1, <3>2, <3>3, <3>4, <3>5, <3>6, WritingKeeps
  <2>12. CASE AccountUpdated
    <3>1. /\ login = "completed" /\ login' = "ready"
          /\ Write([type |-> "updated", account |-> TRUE])
          /\ UNCHANGED <<task, ending, requestId, answered, completed, buffer, foreign>>
      BY <2>12 DEF AccountUpdated
    <3>2. task \notin {"none", "initialize", "limits"} /\ (task = "login" => answered = requestId)
      BY <3>1 DEF ReadyInv
    <3>3. ~Completes([type |-> "updated", account |-> TRUE])
      BY DEF Completes, Mine
    <3> QED
      BY <3>1, <3>2, <3>3, Messages, WritingKeeps DEF Reloaded
  <2>13. CASE Notify
    <3>1. PICK message \in Message :
            Write(message) /\ ~Completes(message) /\ ~Announces(message)
      <4>1. CASE Write([type |-> "other"])
        BY <4>1, Messages DEF Completes, Mine, Announces
      <4>2. CASE Write([type |-> "garbage"])
        BY <4>2, Messages DEF Completes, Mine, Announces
      <4>3. ASSUME NEW ok \in BOOLEAN, Write([type |-> "completed", of |-> "another", ok |-> ok])
            PROVE  \E message \in Message :
                     Write(message) /\ ~Completes(message) /\ ~Announces(message)
        BY <4>3, Messages DEF Completes, Mine, Announces
      <4>4. CASE Write([type |-> "updated", account |-> FALSE])
        BY <4>4, Messages DEF Completes, Mine, Announces
      <4> QED
        BY <2>13, <4>1, <4>2, <4>3, <4>4 DEF Notify
    <3>2. UNCHANGED <<task, ending, requestId, answered, completed, buffer, login, foreign>>
      BY <2>13 DEF Notify
    <3> QED
      BY <3>1, <3>2, WritingKeeps DEF ReadyInv
  <2>14. CASE Another
    <3>1. UNCHANGED <<task, ending, requestId, answered, completed, buffer, login>>
      BY <2>14 DEF Another
    <3>2. ASSUME NEW ok \in BOOLEAN,
                 Write([type |-> "completed", of |-> "none", ok |-> ok]),
                 foreign' = foreign \union {x \in {"unnamed"} : ok}
          PROVE  ReadyInv'
      <4>1. /\ [type |-> "completed", of |-> "none", ok |-> ok] \in Message
            /\ ~Announces([type |-> "completed", of |-> "none", ok |-> ok])
        BY Messages DEF Announces
      <4>2. Completes([type |-> "completed", of |-> "none", ok |-> ok]) => "unnamed" \in foreign'
        BY <3>2 DEF Completes
      <4> QED
        BY <3>1, <3>2, <4>1, <4>2, WritingKeeps DEF ReadyInv
    <3>3. CASE /\ Write([type |-> "updated", account |-> TRUE])
               /\ foreign' = foreign \union {x \in {"early"} : login = "completed"}
      <4>1. /\ [type |-> "updated", account |-> TRUE] \in Message
            /\ ~Completes([type |-> "updated", account |-> TRUE])
        BY Messages DEF Completes, Mine
      <4>2. login \in {"completed", "ready"} => Reloaded'
        BY <3>1, <3>3 DEF Reloaded
      <4> QED
        BY <3>1, <3>3, <4>1, <4>2, WritingKeeps DEF ReadyInv
    <3> QED
      BY <2>14, <3>2, <3>3 DEF Another
  <2> QED
    BY <2>4, <2>5, <2>6, <2>7, <2>8, <2>9, <2>10, <2>11, <2>12, <2>13, <2>14
       DEF ClientNext, Client, Codex
<1>3. ReadyInv => AuthenticatedIsReady
  BY DEF ReadyInv
<1> QED
  BY <1>1, <1>2, <1>3, ClientTypeCorrect, PTL DEF ClientSpec

-----------------------------------------------------------------------------
(* The normalizers, the companions and the relay.                          *)
(* Induction over the natural numbers, for a set of them. *)
LEMMA SetInduction ==
    ASSUME NEW S, 0 \in S, \A n \in Nat : n \in S => n + 1 \in S
    PROVE  \A n \in Nat : n \in S
<1> DEFINE T == {n \in Nat : n \notin S}
           R == {pair \in Nat \X Nat : pair[1] < pair[2]}
<1>1. SUFFICES ASSUME T # {} PROVE FALSE
  OBVIOUS
<1>2. IsWellFoundedOn(R, Nat)
  BY NatLessThanWellFounded DEF OpToRel
<1>3. PICK x \in T : \A y \in T : <<y, x>> \notin R
  <2>1. T \subseteq Nat
    OBVIOUS
  <2> HIDE DEF R, T
  <2> QED
    BY <1>1, <1>2, <2>1, WFMin
<1>4. x \in Nat \ {0} /\ x - 1 \in Nat /\ x \notin S
  OBVIOUS
<1>5. x - 1 \in S
  <2>1. <<x - 1, x>> \in R
    BY <1>4
  <2> HIDE DEF R
  <2> QED
    BY <1>3, <1>4, <2>1
<1> QED
  BY <1>4, <1>5

(* Whose snapshot a request carries is measured when the request says.     *)
Dated(request) == request.snapshot.at \subseteq {request.measured}

DatedInv ==
    /\ \A request \in flight : Dated(request)
    /\ \A row \in table : Dated(row.request)

LEMMA OneResult ==
    ASSUME NEW payload, NEW r \in CodexResult(payload),
           NEW x \in CodexResult(payload)
    PROVE  r = x
BY DEF CodexResult

LEMMA RequestsDated ==
    ASSUME NEW run, NEW now,
           NEW request \in
             Envelopes(CollectSnapshot(run, raw, now), CodexResult(raw))
               \union Envelopes(SwiftCollect(run, raw), CodexResult(raw))
    PROVE  Dated(request)
<1>1. ASSUME NEW s \in CollectSnapshot(run, raw, now)
                          \union SwiftCollect(run, raw)
      PROVE  \E x \in CodexResult(raw) : s.at \subseteq {x.updated}
  <2>1. CASE s \in CollectSnapshot(run, raw, now)
    <3>1. s \in NormalizeCodexbar(raw, now)
      BY <2>1 DEF CollectSnapshot
    <3>2. PICK x \in CodexResult(raw) :
            s = [meters |-> Sorted(Normalized(x.windows)), at |-> ParseTimestamp(x),
                 freshness |-> Freshness(ParseTimestamp(x), now)]
      BY <3>1, Zenon DEF NormalizeCodexbar
    <3>3. s.at = ParseTimestamp(x)
      BY <3>2
    <3> QED
      BY <3>3 DEF ParseTimestamp
  <2>2. CASE s \in SwiftCollect(run, raw)
    BY <2>2 DEF SwiftCollect, SwiftNormalize, SelectCodexResult
  <2> QED
    BY <2>1, <2>2
<1>2. PICK s \in CollectSnapshot(run, raw, now) \union SwiftCollect(run, raw),
           r \in CodexResult(raw) :
        request = [snapshot |-> s, measured |-> r.updated]
  BY DEF Envelopes
<1>3. PICK x \in CodexResult(raw) : s.at \subseteq {x.updated}
  BY <1>1
<1>4. x = r
  BY OneResult
<1> QED
  BY <1>2, <1>3, <1>4 DEF Dated

(* What the relay calls fresh was measured at most the maximal age ago, if *)
(* its date can be read: whatever is under way or in the table carries the *)
(* date of its own measurement (normalize_codexbar, normalize,             *)
(* put_snapshot, _read_snapshot).                                          *)
THEOREM FreshYoung == WindowsSpec => []FreshIsYoung
<1>1. WindowsInit => DatedInv
  BY DEF WindowsInit, DatedInv
<1>2. DatedInv /\ [WindowsNext]_windowsVars => DatedInv'
  <2> SUFFICES ASSUME DatedInv, [WindowsNext]_windowsVars PROVE DatedInv'
    OBVIOUS
  <2> USE DEF DatedInv
  <2>1. CASE PushSnapshot \/ RefreshAndPush
    <3>1. PICK request : Dated(request) /\ flight' = flight \union {request} /\ table' = table
      BY <2>1, RequestsDated DEF PushSnapshot, RefreshAndPush, Send
    <3> QED
      BY <3>1 DEF Dated
  <2>2. CASE PutSnapshot
    BY <2>2 DEF PutSnapshot, Dated
  <2>3. CASE Measure \/ Tick \/ UNCHANGED windowsVars
    BY <2>3 DEF Measure, Tick, windowsVars, Dated
  <2> QED
    BY <2>1, <2>2, <2>3 DEF WindowsNext
<1>3. DatedInv => FreshIsYoung
  <2> SUFFICES ASSUME DatedInv, NEW row \in table,
                      row.request.snapshot.at # {},
                      RelayFreshness(row, clock) = "FRESH"
               PROVE  clock - row.request.measured <= MaxAge
    BY DEF FreshIsYoung
  <2>1. row.request.snapshot.at = {row.request.measured}
    BY DEF DatedInv, Dated
  <2>2. Freshness({row.request.measured}, clock) = "FRESH"
    BY <2>1 DEF RelayFreshness
  <2> QED
    BY <2>2 DEF Freshness
<1> QED
  BY <1>1, <1>2, <1>3, PTL DEF WindowsSpec
-----------------------------------------------------------------------------
(* f holds what is selected of each beginning of s.                        *)
Selects(f, T, s, chosen) ==
    /\ f \in [0..Len(s) -> Seq(T)]
    /\ f[0] = <<>>
    /\ \A n \in 1..Len(s) :
          f[n] = IF s[n] \in chosen THEN Append(f[n - 1], s[n]) ELSE f[n - 1]

LEMMA SelectionOf ==
    ASSUME NEW T, NEW s \in Seq(T), NEW chosen
    PROVE  \E f : Selects(f, T, s, chosen) /\ Selection(s, chosen) = f[Len(s)]
<1> DEFINE l == Len(s)
           Fits(f, n) ==
               f = [i \in 0..n |-> IF i = 0 THEN <<>>
                                   ELSE IF s[i] \in chosen THEN Append(f[i - 1], s[i])
                                        ELSE f[i - 1]]
           kept == CHOOSE f : Fits(f, l)
           S == {n \in Nat : n <= l => \E f \in [0..n -> Seq(T)] : Fits(f, n)}
<1>1. l \in Nat /\ \A i \in 1..l : s[i] \in T
  BY LenProperties
<1> HIDE DEF l, Fits
<1>2. 0 \in S
  <2>1. [i \in 0..0 |-> <<>>] \in [0..0 -> Seq(T)]
    BY EmptySeq
  <2>2. Fits([i \in 0..0 |-> <<>>], 0)
    BY DEF Fits
  <2> QED
    BY <2>1, <2>2
<1>3. ASSUME NEW n \in Nat, n \in S PROVE n + 1 \in S
  <2> SUFFICES ASSUME n + 1 <= l PROVE \E g \in [0..(n + 1) -> Seq(T)] : Fits(g, n + 1)
    OBVIOUS
  <2>1. PICK f \in [0..n -> Seq(T)] : Fits(f, n)
    BY <1>1, <1>3
  <2> DEFINE new == IF s[n + 1] \in chosen THEN Append(f[n], s[n + 1]) ELSE f[n]
             g == [i \in 0..(n + 1) |-> IF i <= n THEN f[i] ELSE new]
  <2>2. new \in Seq(T)
    <3>1. n \in 0..n /\ n + 1 \in 1..l
      BY <1>1
    <3>2. f[n] \in Seq(T) /\ s[n + 1] \in T
      BY <1>1, <3>1
    <3> QED
      BY <3>2, AppendProperties
  <2> HIDE DEF new
  <2>3. g \in [0..(n + 1) -> Seq(T)]
    BY <2>2
  <2>4. ASSUME NEW i \in 0..(n + 1)
        PROVE  g[i] = IF i = 0 THEN <<>>
                      ELSE IF s[i] \in chosen THEN Append(g[i - 1], s[i]) ELSE g[i - 1]
    <3>1. CASE i = n + 1
      <4>1. g[i] = new /\ g[i - 1] = f[n] /\ i # 0
        BY <3>1
      <4> QED
        BY <3>1, <4>1 DEF new
    <3>2. CASE i \in 0..n
      <4>1. g[i] = f[i] /\ (i # 0 => g[i - 1] = f[i - 1])
        BY <3>2
      <4>2. f[i] = IF i = 0 THEN <<>>
                   ELSE IF s[i] \in chosen THEN Append(f[i - 1], s[i]) ELSE f[i - 1]
        BY <2>1, <3>2 DEF Fits
      <4> HIDE DEF g
      <4> QED
        BY <4>1, <4>2
    <3> QED
      BY <3>1, <3>2
  <2>5. Fits(g, n + 1)
    <3> DEFINE h == [i \in 0..(n + 1) |-> IF i = 0 THEN <<>>
                          ELSE IF s[i] \in chosen THEN Append(g[i - 1], s[i]) ELSE g[i - 1]]
    <3>1. g = [i \in 0..(n + 1) |-> g[i]]
      OBVIOUS
    <3>2. [i \in 0..(n + 1) |-> g[i]] = h
      <4> HIDE DEF g
      <4> QED
        BY <2>4
    <3> HIDE DEF g
    <3> QED
      BY <3>1, <3>2 DEF Fits
  <2> QED
    BY <2>3, <2>5
<1> HIDE DEF S
<1>4. l \in S
  BY <1>1, <1>2, <1>3, SetInduction
<1>5. PICK f \in [0..l -> Seq(T)] : Fits(f, l)
  BY <1>1, <1>4 DEF S
<1>6. Fits(kept, l)
  BY <1>5
<1>7. Selection(s, chosen) = kept[l]
  BY DEF Selection, l, Fits
<1> HIDE DEF kept
<1>8. /\ DOMAIN kept = 0..l
      /\ kept[0] = <<>>
      /\ \A n \in 1..l :
            kept[n] = IF s[n] \in chosen THEN Append(kept[n - 1], s[n]) ELSE kept[n - 1]
  <2>1. /\ DOMAIN kept = 0..l
        /\ \A i \in 0..l : kept[i] = IF i = 0 THEN <<>>
                                   ELSE IF s[i] \in chosen THEN Append(kept[i - 1], s[i])
                                        ELSE kept[i - 1]
    BY <1>6 DEF Fits
  <2>2. 0 \in 0..l /\ \A n \in 1..l : n \in 0..l /\ n # 0
    BY <1>1
  <2> QED
    BY <2>1, <2>2
<1> DEFINE K == {n \in Nat : n <= l => kept[n] \in Seq(T)}
<1>9. 0 \in K
  BY <1>8, EmptySeq
<1>10. ASSUME NEW n \in Nat, n \in K PROVE n + 1 \in K
  <2> SUFFICES ASSUME n + 1 <= l PROVE kept[n + 1] \in Seq(T)
    OBVIOUS
  <2>1. kept[n] \in Seq(T) /\ n + 1 \in 1..l /\ (n + 1) - 1 = n
    BY <1>1, <1>10
  <2>2. s[n + 1] \in T
    BY <1>1, <2>1
  <2>3. Append(kept[n], s[n + 1]) \in Seq(T)
    BY <2>1, <2>2, AppendProperties
  <2> QED
    BY <1>8, <2>1, <2>3
<1> HIDE DEF K
<1>11. \A n \in Nat : n \in K
  BY <1>9, <1>10, SetInduction, Zenon
<1>12. \A n \in 0..l : kept[n] \in Seq(T)
  BY <1>1, <1>11 DEF K
<1>13. kept = [n \in 0..l |-> kept[n]]
  BY <1>6 DEF Fits
<1>14. Selects(kept, T, s, chosen)
  BY <1>8, <1>12, <1>13 DEF Selects, l
<1> QED
  BY <1>7, <1>14 DEF l

(* What is selected is chosen and comes from s. *)
LEMMA SelectionType ==
    ASSUME NEW T, NEW s \in Seq(T), NEW chosen
    PROVE  /\ Selection(s, chosen) \in Seq(T)
           /\ \A i \in 1..Len(Selection(s, chosen)) :
                 /\ Selection(s, chosen)[i] \in chosen
                 /\ \E j \in 1..Len(s) : Selection(s, chosen)[i] = s[j]
<1> DEFINE U == {s[j] : j \in 1..Len(s)}
<1>1. s \in Seq(U)
  BY LenProperties
<1>2. PICK f : Selects(f, U, s, chosen) /\ Selection(s, chosen) = f[Len(s)]
  BY <1>1, SelectionOf
<1>3. Len(s) \in Nat
  BY LenProperties
<1> DEFINE K == {n \in Nat : n <= Len(s) => \A i \in 1..Len(f[n]) : f[n][i] \in chosen}
<1>4. 0 \in K
  BY <1>2, EmptySeq DEF Selects
<1>5. ASSUME NEW n \in Nat, n \in K PROVE n + 1 \in K
  <2> SUFFICES ASSUME n + 1 <= Len(s)
               PROVE  \A i \in 1..Len(f[n + 1]) : f[n + 1][i] \in chosen
    OBVIOUS
  <2> HIDE DEF U
  <2>1. /\ n \in 0..Len(s) /\ n + 1 \in 1..Len(s) /\ (n + 1) - 1 = n
        /\ \A i \in 1..Len(f[n]) : f[n][i] \in chosen
    BY <1>3, <1>5
  <2>2. f[n] \in Seq(U) /\ s[n + 1] \in U
    BY <1>1, <1>2, <2>1, LenProperties DEF Selects
  <2>3. CASE s[n + 1] \in chosen
    <3>1. f[n + 1] = Append(f[n], s[n + 1])
      BY <1>2, <2>1, <2>3 DEF Selects
    <3>2. /\ Len(f[n + 1]) = Len(f[n]) + 1 /\ Len(f[n]) \in Nat
          /\ \A i \in 1..Len(f[n]) : f[n + 1][i] = f[n][i]
          /\ f[n + 1][Len(f[n]) + 1] = s[n + 1]
      BY <2>2, <3>1, AppendProperties, LenProperties
    <3> DEFINE m == Len(f[n])
    <3>3. \A i \in 1..(m + 1) : i \in 1..m \/ i = m + 1
      BY <3>2
    <3> HIDE DEF m
    <3>4. \A i \in 1..(m + 1) : f[n + 1][i] \in chosen
      BY <2>1, <2>3, <3>2, <3>3 DEF m
    <3> QED
      BY <3>2, <3>4 DEF m
  <2>4. CASE s[n + 1] \notin chosen
    BY <1>2, <2>1, <2>4 DEF Selects
  <2> QED
    BY <2>3, <2>4
<1> HIDE DEF K
<1>6. \A n \in Nat : n \in K
  BY <1>4, <1>5, SetInduction, Zenon
<1>7. \A i \in 1..Len(f[Len(s)]) : f[Len(s)][i] \in chosen
  BY <1>3, <1>6 DEF K
<1>8. f[Len(s)] \in Seq(U)
  <2> HIDE DEF U
  <2> QED
    BY <1>2, <1>3 DEF Selects
<1>9. \A i \in 1..Len(f[Len(s)]) : f[Len(s)][i] \in U
  BY <1>8, ElementOfSeq
<1>10. U \subseteq T
  BY LenProperties
<1>11. f[Len(s)] \in Seq(T)
  BY <1>8, <1>10, SeqMonotonic
<1> QED
  BY <1>2, <1>7, <1>9, <1>11

(* When everything is chosen, the selection is the whole. *)
LEMMA SelectionAll ==
    ASSUME NEW T, NEW s \in Seq(T), NEW chosen, \A i \in 1..Len(s) : s[i] \in chosen
    PROVE  Selection(s, chosen) = s
<1>1. PICK f : Selects(f, T, s, chosen) /\ Selection(s, chosen) = f[Len(s)]
  BY SelectionOf
<1>2. Len(s) \in Nat
  BY LenProperties
<1> DEFINE Same(n) == Len(f[n]) = n /\ \A i \in 1..n : f[n][i] = s[i]
           K == {n \in Nat : n <= Len(s) => Same(n)}
<1>3. 0 \in K
  BY <1>1, EmptySeq DEF Selects
<1>4. ASSUME NEW n \in Nat, n \in K PROVE n + 1 \in K
  <2> SUFFICES ASSUME n + 1 <= Len(s) PROVE Same(n + 1)
    OBVIOUS
  <2>1. /\ n \in 0..Len(s) /\ n + 1 \in 1..Len(s) /\ (n + 1) - 1 = n
        /\ Len(f[n]) = n /\ \A i \in 1..n : f[n][i] = s[i]
    BY <1>2, <1>4
  <2>2. f[n] \in Seq(T) /\ s[n + 1] \in T
    BY <1>1, <2>1, LenProperties DEF Selects
  <2>3. f[n + 1] = Append(f[n], s[n + 1])
    BY <1>1, <2>1 DEF Selects
  <2>4. /\ Len(f[n + 1]) = n + 1
        /\ \A i \in 1..n : f[n + 1][i] = s[i]
        /\ f[n + 1][n + 1] = s[n + 1]
    BY <2>1, <2>2, <2>3, AppendProperties
  <2>5. \A i \in 1..(n + 1) : i \in 1..n \/ i = n + 1
    OBVIOUS
  <2> QED
    BY <2>4, <2>5
<1> HIDE DEF K
<1>5. \A n \in Nat : n \in K
  BY <1>3, <1>4, SetInduction, Zenon
<1>6. Same(Len(s))
  BY <1>2, <1>5 DEF K
<1>7. f[Len(s)] \in Seq(T)
  BY <1>1, <1>2 DEF Selects
<1>8. f[Len(s)] = s
  BY <1>6, <1>7, SeqEqual
<1> QED
  BY <1>1, <1>8

(* All that is chosen is selected. *)
LEMMA SelectionSet ==
    ASSUME NEW T, NEW s \in Seq(T), NEW chosen
    PROVE  /\ Selection(s, chosen) \in Seq(T)
           /\ ToSet(Selection(s, chosen)) = ToSet(s) \intersect chosen
<1> DEFINE z == Selection(s, chosen)
           l == Len(s)
<1>1. /\ z \in Seq(T)
      /\ \A i \in 1..Len(z) : z[i] \in chosen /\ \E j \in 1..l : z[i] = s[j]
  BY SelectionType
<1>2. PICK f : Selects(f, T, s, chosen) /\ z = f[l]
  BY SelectionOf
<1> HIDE DEF z
<1>3. l \in Nat /\ DOMAIN s = 1..l /\ DOMAIN z = 1..Len(z)
  BY <1>1, LenProperties
<1> HIDE DEF l
<1> DEFINE Has(n) == \A j \in 1..n : s[j] \in chosen => \E i \in 1..Len(f[n]) : f[n][i] = s[j]
           K == {n \in Nat : n <= l => Has(n)}
<1>4. 0 \in K
  OBVIOUS
<1>5. ASSUME NEW n \in Nat, n \in K PROVE n + 1 \in K
  <2> SUFFICES ASSUME n + 1 <= l, NEW j \in 1..(n + 1), s[j] \in chosen
               PROVE  \E i \in 1..Len(f[n + 1]) : f[n + 1][i] = s[j]
    OBVIOUS
  <2>1. /\ n \in 0..l /\ n + 1 \in 1..l /\ (n + 1) - 1 = n
        /\ \A k \in 1..n : s[k] \in chosen => \E i \in 1..Len(f[n]) : f[n][i] = s[k]
    BY <1>3, <1>5
  <2>2. f[n] \in Seq(T) /\ s[n + 1] \in T
    BY <1>2, <1>3, <2>1, LenProperties DEF Selects, l
  <2>3. j \in 1..n \/ j = n + 1
    OBVIOUS
  <2>4. CASE s[n + 1] \in chosen
    <3>1. f[n + 1] = Append(f[n], s[n + 1])
      BY <1>2, <2>1, <2>4 DEF Selects, l
    <3>2. /\ Len(f[n]) \in Nat /\ Len(f[n + 1]) = Len(f[n]) + 1
          /\ \A i \in 1..Len(f[n]) : f[n + 1][i] = f[n][i]
          /\ f[n + 1][Len(f[n]) + 1] = s[n + 1]
      BY <2>2, <3>1, AppendProperties, LenProperties
    <3>3. CASE j = n + 1
      <4>1. Len(f[n]) + 1 \in 1..Len(f[n + 1])
        BY <3>2
      <4> QED
        BY <3>2, <3>3, <4>1
    <3>4. CASE j \in 1..n
      <4>1. PICK i \in 1..Len(f[n]) : f[n][i] = s[j]
        BY <2>1, <3>4
      <4>2. i \in 1..Len(f[n + 1]) /\ f[n + 1][i] = s[j]
        BY <3>2, <4>1
      <4> QED
        BY <4>2
    <3> QED
      BY <2>3, <3>3, <3>4
  <2>5. CASE s[n + 1] \notin chosen
    <3>1. f[n + 1] = f[n] /\ j \in 1..n
      BY <1>2, <2>1, <2>3, <2>5 DEF Selects, l
    <3> QED
      BY <2>1, <3>1
  <2> QED
    BY <2>4, <2>5
<1> HIDE DEF K
<1>6. \A n \in Nat : n \in K
  BY <1>4, <1>5, SetInduction, Zenon
<1>7. \A j \in 1..l : s[j] \in chosen => \E i \in 1..Len(z) : z[i] = s[j]
  <2>1. Has(l)
    BY <1>3, <1>6 DEF K
  <2> QED
    BY <1>2, <2>1
<1>8. ToSet(z) = {z[i] : i \in 1..Len(z)} /\ ToSet(s) = {s[j] : j \in 1..l}
  BY <1>3 DEF ToSet
<1>9. ToSet(z) = ToSet(s) \intersect chosen
  BY <1>1, <1>7, <1>8 DEF l
<1> QED
  BY <1>1, <1>9 DEF z

-----------------------------------------------------------------------------
(* Meters and their kinds.                                                 *)
LEMMA OfKindSet ==
    ASSUME NEW T, NEW ms \in Seq(T), NEW kind
    PROVE  /\ OfKind(ms, kind) \in Seq(T)
           /\ ToSet(OfKind(ms, kind)) = {m \in ToSet(ms) : Kind(m) = kind}
<1> DEFINE chosen == {m \in ToSet(ms) : Kind(m) = kind}
<1>1. chosen \subseteq ToSet(ms) /\ OfKind(ms, kind) = Selection(ms, chosen)
  BY DEF OfKind
<1> HIDE DEF chosen
<1>2. /\ OfKind(ms, kind) \in Seq(T)
      /\ ToSet(OfKind(ms, kind)) = ToSet(ms) \intersect chosen
  BY <1>1, SelectionSet
<1>3. ToSet(OfKind(ms, kind)) = chosen
  BY <1>1, <1>2
<1> QED
  BY <1>2, <1>3 DEF chosen

LEMMA LatestOfOne ==
    ASSUME NEW T, NEW s \in Seq(T), Len(s) <= 1
    PROVE  Latest(s) = s
<1> DEFINE y == Latest(s)
<1>1. Len(s) \in Nat
  BY LenProperties
<1>2. CASE s = <<>>
  BY <1>2 DEF Latest
<1>3. CASE s # <<>>
  <2>1. Len(s) = 1
    <3> DEFINE k == Len(s)
    <3>1. k \in Nat /\ k # 0 /\ k <= 1
      BY <1>1, <1>3, EmptySeq
    <3> HIDE DEF k
    <3>2. k = 1
      BY <3>1
    <3> QED
      BY <3>2 DEF k
  <2>2. s[1] \in T
    BY <2>1, ElementOfSeq
  <2>3. y = <<s[1]>>
    BY <1>3, <2>1 DEF Latest, Last
  <2> HIDE DEF y
  <2>4. y \in Seq(T) /\ Len(y) = 1 /\ y[1] = s[1]
    BY <2>2, <2>3
  <2>5. \A i \in 1..1 : i = 1
    OBVIOUS
  <2>6. y = s
    BY <2>1, <2>4, <2>5, SeqEqual
  <2> QED
    BY <2>6 DEF y
<1> QED
  BY <1>2, <1>3

(* Division with a rest, where the divisor is 60.                          *)
LEMMA SixtyDivides ==
    ASSUME NEW x \in Nat
    PROVE  x \div 60 \in Nat /\ x = (x \div 60) * 60 + (x % 60)
BY SMT

(* Of whole minutes every program makes the same number.                   *)
LEMMA WholeMinutes ==
    ASSUME NEW w \in Window, Whole(w), Understood(w)
    PROVE  /\ Truncated(w.length) = HalfToEven(w.length)
           /\ HalfAway(w.length) = HalfToEven(w.length)
           /\ HalfToEven(w.length) \in Int
<1> DEFINE n == w.length
<1>1. n \in Int /\ n % 60 = 0
  BY DEF Whole, Window
<1> HIDE DEF n
<1>2. HalfToEven(n) = n \div 60
  BY <1>1 DEF HalfToEven
<1>3. n > 0
  <2>1. n \div 60 > 0 \/ n > 0
    BY <1>1, <1>2 DEF Understood, n
  <2> QED
    BY <1>1, <2>1
<1>4. PICK q \in Nat : n = 60 * q
  <2>1. n \in Nat
    BY <1>1, <1>3
  <2>2. n \div 60 \in Nat /\ n = (n \div 60) * 60 + (n % 60)
    BY <2>1, SixtyDivides
  <2> QED
    BY <1>1, <2>2
<1>5. Truncated(n) = n \div 60 /\ HalfAway(n) = (n + 30) \div 60
  BY <1>1, <1>3 DEF Truncated, HalfAway
<1>6. (n + 30) \div 60 = q /\ n \div 60 = q
  BY <1>4
<1> QED
  BY <1>1, <1>2, <1>5, <1>6 DEF n

(* What each program makes of the windows it reads.                        *)
PythonMeter(w) ==
    [minutes |-> HalfToEven(w.length), used |-> w.used,
     reset |-> IF w.reset = "epoch" THEN "iso" ELSE w.reset]

SwiftReads(w) == Numeric(w) /\ w.percent = "number" /\ w.used \in 0..100

Meter == [minutes : Int, used : Int, reset : {"iso", "epoch", "text", "none"}]

LEMMA NormalizedSet ==
    ASSUME NEW windows \in Seq(Window)
    PROVE  /\ Normalized(windows) = [i \in 1..Len(windows) |-> PythonMeter(windows[i])]
           /\ Normalized(windows) \in Seq({PythonMeter(w) : w \in Window})
           /\ ToSet(Normalized(windows)) = {PythonMeter(w) : w \in ToSet(windows)}
<1> DEFINE l == Len(windows)
           ms == Normalized(windows)
<1>1. l \in Nat /\ DOMAIN windows = 1..l /\ \A i \in 1..l : windows[i] \in Window
  BY LenProperties
<1>2. ms = [i \in 1..l |-> PythonMeter(windows[i])]
  BY <1>1 DEF Normalized, PythonMeter
<1> HIDE DEF ms, l
<1>3. ms \in [1..l -> {PythonMeter(w) : w \in Window}]
  BY <1>1, <1>2
<1>4. ms \in Seq({PythonMeter(w) : w \in Window})
  BY <1>1, <1>3, SeqDef
<1>5. ToSet(ms) = {ms[i] : i \in 1..l} /\ ToSet(windows) = {windows[i] : i \in 1..l}
  BY <1>1, <1>3 DEF ToSet
<1>6. \A i \in 1..l : ms[i] = PythonMeter(windows[i])
  BY <1>2
<1>7. ToSet(ms) = {PythonMeter(w) : w \in ToSet(windows)}
  BY <1>5, <1>6, Zenon
<1> QED
  BY <1>2, <1>4, <1>7 DEF ms, l

LEMMA KeptSet ==
    ASSUME NEW windows \in Seq(Window)
    PROVE  /\ Kept(windows) \in Seq({Metered(w, w.used) : w \in Window})
           /\ \A m \in ToSet(Kept(windows)) :
                 \E w \in ToSet(windows) : SwiftReads(w) /\ m = Metered(w, w.used)
<1> DEFINE chosen == {w \in ToSet(windows) : SwiftReads(w)}
           kept == Selection(windows, chosen)
           l == Len(kept)
           ms == Kept(windows)
<1>1. kept \in Seq(Window) /\ ToSet(kept) = ToSet(windows) \intersect chosen
  BY SelectionSet
<1>2. ms = [i \in DOMAIN kept |-> Metered(kept[i], kept[i].used)]
  BY DEF Kept, SwiftReads
<1> HIDE DEF kept
<1>3. l \in Nat /\ DOMAIN kept = 1..l /\ \A i \in 1..l : kept[i] \in Window
  BY <1>1, LenProperties
<1> HIDE DEF ms, l
<1>4. ms \in [1..l -> {Metered(w, w.used) : w \in Window}]
  BY <1>2, <1>3
<1>5. ms \in Seq({Metered(w, w.used) : w \in Window})
  BY <1>3, <1>4, SeqDef
<1>6. ASSUME NEW m \in ToSet(ms)
      PROVE  \E w \in ToSet(windows) : SwiftReads(w) /\ m = Metered(w, w.used)
  <2>1. PICK i \in 1..l : m = ms[i]
    BY <1>4, <1>6 DEF ToSet
  <2>2. m = Metered(kept[i], kept[i].used) /\ kept[i] \in ToSet(kept)
    BY <1>2, <1>3, <2>1 DEF ToSet
  <2>3. kept[i] \in ToSet(windows) /\ kept[i] \in chosen
    BY <1>1, <2>2
  <2> QED
    BY <2>2, <2>3
<1> QED
  BY <1>5, <1>6 DEF ms

(* The Swift one shows no figure that the Python one does not show.        *)
LEMMA FiguresAgree ==
    ASSUME NEW windows \in Seq(Window), NEW kind,
           \A i \in DOMAIN windows : Understood(windows[i]) /\ Whole(windows[i])
    PROVE  Figures(OfKind(Kept(windows), kind))
             \subseteq Figures(OfKind(Normalized(windows), kind))
<1> DEFINE swift == Kept(windows)
           python == Normalized(windows)
<1>1. /\ ToSet(OfKind(swift, kind)) = {m \in ToSet(swift) : Kind(m) = kind}
      /\ ToSet(OfKind(python, kind)) = {m \in ToSet(python) : Kind(m) = kind}
  <2>1. /\ swift \in Seq({Metered(w, w.used) : w \in Window})
        /\ python \in Seq({PythonMeter(w) : w \in Window})
    BY KeptSet, NormalizedSet
  <2> HIDE DEF swift, python
  <2> QED
    BY <2>1, OfKindSet
<1>2. ASSUME NEW m \in ToSet(swift), Kind(m) = kind
      PROVE  \E n \in ToSet(python) :
                Kind(n) = kind /\ n.minutes = m.minutes /\ n.used = m.used
  <2>1. PICK w \in ToSet(windows) : SwiftReads(w) /\ m = Metered(w, w.used)
    BY <1>2, KeptSet
  <2>2. w \in Window /\ Understood(w) /\ Whole(w)
    BY <2>1, LenProperties DEF ToSet
  <2>3. m.minutes = HalfToEven(w.length) /\ m.used = w.used
    BY <2>1, <2>2, WholeMinutes DEF Metered
  <2>4. /\ PythonMeter(w) \in ToSet(python)
        /\ PythonMeter(w).minutes = m.minutes /\ PythonMeter(w).used = m.used
    BY <2>1, <2>3, NormalizedSet DEF PythonMeter
  <2>5. Kind(PythonMeter(w)) = Kind(m)
    BY <2>4 DEF Kind
  <2> QED
    BY <1>2, <2>4, <2>5
<1> HIDE DEF swift, python
<1>3. Figures(OfKind(swift, kind)) \subseteq Figures(OfKind(python, kind))
  BY <1>1, <1>2 DEF Figures
<1> QED
  BY <1>3 DEF swift, python

(* Plain windows are kept, and made into the same meters.                  *)
LEMMA PlainKept ==
    ASSUME NEW windows \in Seq(Window),
           \A i \in DOMAIN windows : Understood(windows[i]) /\ Plain(windows[i])
    PROVE  Kept(windows) = Normalized(windows)
<1> DEFINE chosen == {w \in ToSet(windows) : SwiftReads(w)}
<1>1. /\ DOMAIN windows = 1..Len(windows) /\ Len(windows) \in Nat
      /\ \A i \in 1..Len(windows) : windows[i] \in Window
  BY LenProperties
<1>2. \A i \in 1..Len(windows) : windows[i] \in chosen
  BY <1>1 DEF ToSet, Understood, Plain, SwiftReads
<1>3. Selection(windows, chosen) = windows
  <2> HIDE DEF chosen
  <2> QED
    BY <1>2, SelectionAll
<1>4. Kept(windows) = [i \in DOMAIN windows |-> Metered(windows[i], windows[i].used)]
  BY <1>3 DEF Kept, SwiftReads
<1>5. ASSUME NEW i \in 1..Len(windows)
      PROVE  Metered(windows[i], windows[i].used) = PythonMeter(windows[i])
  <2>1. windows[i] \in Window /\ Understood(windows[i]) /\ Plain(windows[i])
    BY <1>1
  <2> QED
    BY <2>1, WholeMinutes DEF Plain, Metered, PythonMeter
<1> QED
  BY <1>1, <1>4, <1>5, NormalizedSet

LEMMA PlainListed ==
    ASSUME NEW windows \in Seq(Window),
           \A i \in DOMAIN windows :
              Understood(windows[i]) /\ Plain(windows[i]) /\ windows[i].field = "minutes"
    PROVE  Listed(windows) = Normalized(windows)
<1> DEFINE Number(w) ==
               [minutes |-> Truncated(w.length), used |-> w.used, reset |-> w.reset]
<1>1. /\ DOMAIN windows = 1..Len(windows) /\ Len(windows) \in Nat
      /\ \A i \in 1..Len(windows) : windows[i] \in Window
  BY LenProperties
<1>2. Listed(windows) = [i \in DOMAIN windows |-> Number(windows[i])]
  BY DEF Listed, Plain, Numeric
<1>3. ASSUME NEW i \in 1..Len(windows)
      PROVE  Number(windows[i]) = PythonMeter(windows[i])
  <2>1. windows[i] \in Window /\ Understood(windows[i]) /\ Plain(windows[i])
    BY <1>1
  <2> QED
    BY <2>1, WholeMinutes DEF Plain, PythonMeter
<1> HIDE DEF Number
<1> QED
  BY <1>1, <1>2, <1>3, NormalizedSet

-----------------------------------------------------------------------------
(* What the sensor prints is well typed.                                   *)
Printed == clock \in Int /\ raw \in Payload

LEMMA CodexResultIn ==
    ASSUME Printed, NEW r \in CodexResult(raw)
    PROVE  r \in Result
<1> DEFINE all == raw.results
           matching == Selection(all, {x \in ToSet(all) : x.provider = "codex"})
<1>1. matching \in Seq(Result) /\ all \in Seq(Result)
  BY SelectionType DEF Printed, Payload
<1>2. \/ Len(matching) = 1 /\ r = matching[1]
      \/ Len(all) = 1 /\ r = all[1]
  <2>1. r \in CASE Len(matching) = 1 -> {matching[1]}
                [] matching = <<>> /\ Len(all) = 1 /\ raw.strays = 0 -> {all[1]}
                [] OTHER -> {}
    BY DEF CodexResult
  <2> HIDE DEF matching, all
  <2> QED
    BY <2>1
<1> HIDE DEF matching, all
<1> QED
  BY <1>1, <1>2, ElementOfSeq

(* What a snapshot of the Python one says of the result it was made of.    *)
LEMMA Accepted ==
    ASSUME NEW r \in CodexResult(raw), NEW strict \in NormalizeCodexbar(raw, clock)
    PROVE  /\ strict.meters = Sorted(Normalized(r.windows))
           /\ r.windows # <<>>
           /\ \A i \in DOMAIN r.windows : Understood(r.windows[i])
           /\ Unambiguous(Normalized(r.windows))
<1>1. PICK x \in CodexResult(raw) :
          /\ x.windows # <<>>
          /\ \A i \in DOMAIN x.windows : Understood(x.windows[i])
          /\ Unambiguous(Normalized(x.windows))
          /\ strict = [meters |-> Sorted(Normalized(x.windows)), at |-> ParseTimestamp(x),
                       freshness |-> Freshness(ParseTimestamp(x), clock)]
  BY Zenon DEF NormalizeCodexbar
<1>2. x = r
  BY OneResult
<1>3. strict.meters = Sorted(Normalized(x.windows))
  BY <1>1
<1> QED
  BY <1>1, <1>2, <1>3

LEMMA SwiftMeters ==
    ASSUME NEW r \in CodexResult(raw)
    PROVE  /\ \A lenient \in SwiftNormalize(raw) : lenient.meters = Sorted(Kept(r.windows))
           /\ raw.strays = 0 /\ r.windows # <<>> /\ Unambiguous(Kept(r.windows)) =>
                 {s.meters : s \in SwiftNormalize(raw)} = {Sorted(Kept(r.windows))}
<1> DEFINE Lenient(x) == x.windows # <<>> /\ Unambiguous(Kept(x.windows))
           Snapshot(x) == [meters |-> Sorted(Kept(x.windows)),
                           at |-> IF x.form = "iso" THEN {x.updated} ELSE {},
                           freshness |-> IF x.form \in {"iso", "text"} THEN "FRESH"
                                         ELSE "UNKNOWN"]
<1>1. SwiftNormalize(raw) = {Snapshot(x) : x \in {y \in SelectCodexResult(raw) : Lenient(y)}}
  BY Zenon DEF SwiftNormalize
<1>2. \A x : Snapshot(x).meters = Sorted(Kept(x.windows))
  OBVIOUS
<1>3. \A x \in SelectCodexResult(raw) : x = r
  BY OneResult DEF SelectCodexResult
<1>4. raw.strays = 0 => r \in SelectCodexResult(raw)
  BY DEF SelectCodexResult
<1> HIDE DEF Snapshot, Lenient
<1>5. ASSUME raw.strays = 0, Lenient(r)
      PROVE  {s.meters : s \in SwiftNormalize(raw)} = {Sorted(Kept(r.windows))}
  <2>1. {y \in SelectCodexResult(raw) : Lenient(y)} = {r}
    BY <1>3, <1>4, <1>5
  <2>2. SwiftNormalize(raw) = {Snapshot(r)}
    BY <1>1, <2>1
  <2> QED
    BY <1>2, <2>2
<1> QED
  BY <1>1, <1>2, <1>3, <1>5 DEF Lenient

(* What the Plugin reads out of a list of windows. *)
PluginMeters(w) ==
    NormalizeRateLimits(
        [byId |-> <<w>>, named |-> <<>>, default |-> <<>>], clock).meters

LEMMA PluginReads ==
    ASSUME NEW w \in Seq(Window)
    PROVE  PluginMeters(w) =
             [Sorted(Listed(w)) EXCEPT !.weekly = Latest(@), !.fiveHour = Latest(@)]
<1> DEFINE answer == [byId |-> <<w>>, named |-> <<>>, default |-> <<>>]
           u == <<w>>
<1>1. u \in Seq({w}) /\ u # <<>> /\ Head(u) = w
  OBVIOUS
<1>2. ChooseCodexSnapshot(answer) = u
  <2>1. ChooseCodexSnapshot(answer) = (u \o <<>>) \o <<>>
    BY DEF ChooseCodexSnapshot
  <2> HIDE DEF u
  <2> QED
    BY <1>1, <2>1, ConcatEmptySeq
<1> HIDE DEF u, answer
<1>3. NormalizeRateLimits(answer, clock).meters
        = [Sorted(Listed(w)) EXCEPT !.weekly = Latest(@), !.fiveHour = Latest(@)]
  BY <1>1, <1>2 DEF NormalizeRateLimits
<1> QED
  BY <1>3 DEF PluginMeters, answer

(* The figures the two companions of a user may send to one row of the     *)
(* relay, whatever the sensor prints: of whole minutes the Swift one shows *)
(* nothing else than the Python one, of plain windows all three programs   *)
(* show the same (normalize_rate_limits, normalize_codexbar, normalize).   *)
THEOREM SameMeaningTheorem == WindowsSpec => []SameMeaning
<1>1. WindowsInit => Printed
  BY PayloadAssumption DEF WindowsInit, Printed
<1>2. Printed /\ [WindowsNext]_windowsVars => Printed'
  <2> SUFFICES ASSUME Printed, [WindowsNext]_windowsVars PROVE Printed'
    OBVIOUS
  <2>1. CASE Measure
    <3> DEFINE all == raw.results
               l == Len(all)
               Timed(x) == [x EXCEPT !.updated = clock]
               later == [i \in DOMAIN all |-> Timed(all[i])]
    <3>1. /\ clock' = clock /\ clock \in Int
          /\ raw' = [raw EXCEPT !.results = later]
          /\ raw \in [results : Seq(Result), strays : Nat] /\ all \in Seq(Result)
      BY <2>1 DEF Measure, Printed, Payload
    <3>2. l \in Nat /\ DOMAIN all = 1..l /\ \A i \in 1..l : all[i] \in Result
      BY <3>1, LenProperties
    <3>3. \A x \in Result : Timed(x) \in Result
      BY <3>1 DEF Result
    <3> HIDE DEF l, Timed, all
    <3>4. later \in [1..l -> Result]
      BY <3>2, <3>3
    <3>5. later \in Seq(Result)
      BY <3>2, <3>4, SeqDef
    <3> HIDE DEF later
    <3> QED
      BY <3>1, <3>5 DEF Printed, Payload
  <2>2. CASE Tick
    BY <2>2 DEF Tick, Printed
  <2>3. CASE PushSnapshot \/ RefreshAndPush
    BY <2>3 DEF PushSnapshot, RefreshAndPush, Send, Printed
  <2>4. CASE PutSnapshot \/ UNCHANGED windowsVars
    BY <2>4 DEF PutSnapshot, windowsVars, Printed
  <2> QED
    BY <2>1, <2>2, <2>3, <2>4 DEF WindowsNext
<1>3. Printed => SameMeaning
  <2> SUFFICES ASSUME Printed, NEW r \in CodexResult(raw),
                      NEW strict \in NormalizeCodexbar(raw, clock)
               PROVE  /\ (\A i \in DOMAIN r.windows : Whole(r.windows[i])) =>
                            \A lenient \in SwiftNormalize(raw) :
                                \A kind \in DOMAIN strict.meters :
                                    Figures(lenient.meters[kind])
                                      \subseteq Figures(strict.meters[kind])
                      /\ (\A i \in DOMAIN r.windows : Plain(r.windows[i])) /\ raw.strays = 0 =>
                            {s.meters : s \in SwiftNormalize(raw)} = {strict.meters}
                      /\ (\A i \in DOMAIN r.windows :
                              Plain(r.windows[i]) /\ r.windows[i].field = "minutes") =>
                            PluginMeters(r.windows) = strict.meters
    BY DEF SameMeaning, PluginMeters
  <2> DEFINE w == r.windows
             meters == Normalized(w)
  <2>1. w \in Seq(Window)
    BY CodexResultIn DEF Result
  <2>2. /\ strict.meters = Sorted(meters)
        /\ w # <<>>
        /\ \A i \in DOMAIN w : Understood(w[i])
        /\ Unambiguous(meters)
    BY Accepted
  <2>3. ASSUME \A i \in DOMAIN w : Whole(w[i]),
               NEW lenient \in SwiftNormalize(raw), NEW kind \in DOMAIN strict.meters
        PROVE  Figures(lenient.meters[kind]) \subseteq Figures(strict.meters[kind])
    <3>1. lenient.meters = Sorted(Kept(w))
      BY SwiftMeters
    <3>2. \A k : Figures(OfKind(Kept(w), k)) \subseteq Figures(OfKind(meters, k))
      BY <2>1, <2>2, <2>3, FiguresAgree
    <3> HIDE DEF meters
    <3> QED
      BY <2>2, <2>3, <3>1, <3>2 DEF Sorted
  <2>4. ASSUME \A i \in DOMAIN w : Plain(w[i]), raw.strays = 0
        PROVE  {s.meters : s \in SwiftNormalize(raw)} = {strict.meters}
    <3>1. Kept(w) = meters
      BY <2>1, <2>2, <2>4, PlainKept
    <3> QED
      BY <2>2, <2>4, <3>1, SwiftMeters
  <2>5. ASSUME \A i \in DOMAIN w : Plain(w[i]) /\ w[i].field = "minutes"
        PROVE  PluginMeters(w) = strict.meters
    <3>1. Listed(w) = meters
      BY <2>1, <2>2, <2>5, PlainListed
    <3>2. PluginMeters(w) =
            [Sorted(meters) EXCEPT !.weekly = Latest(@), !.fiveHour = Latest(@)]
      BY <2>1, <3>1, PluginReads
    <3>3. meters \in Seq({PythonMeter(x) : x \in Window})
      BY <2>1, NormalizedSet
    <3> HIDE DEF meters
    <3>4. /\ Latest(OfKind(meters, "WEEKLY")) = OfKind(meters, "WEEKLY")
          /\ Latest(OfKind(meters, "FIVE_HOUR")) = OfKind(meters, "FIVE_HOUR")
      BY <2>2, <3>3, OfKindSet, LatestOfOne DEF Unambiguous
    <3> QED
      BY <2>2, <3>2, <3>4 DEF Sorted
  <2> QED
    BY <2>3, <2>4, <2>5
<1> QED
  BY <1>1, <1>2, <1>3, PTL DEF WindowsSpec

=============================================================================
