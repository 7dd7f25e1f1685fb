-------------------------- MODULE CryptoHelper_proofs --------------------------
(***************************************************************************)
(* Theorems about CryptoHelper, for any clients, helpers and timeouts.     *)
(***************************************************************************)
EXTENDS CryptoHelper, SequenceTheorems, TLAPS

(* A client is in one place of one helper at most, ...                     *)
Placed ==
    /\ \A i \in Instances : \A m, n \in DOMAIN queue[i] : queue[i][m] = queue[i][n] => m = n
    /\ \A i \in Instances : peer[i] \notin Waiting(i)
    /\ \A i, j \in Instances : i # j => Ahead(i) \intersect Ahead(j) = {}

(* ... and nothing has been made of its request while it is there.         *)
Fresh ==
    \A i \in Instances : \A c \in Ahead(i) :
        reply[c] = "none" /\ creds[c] = "none" /\ call[c] \in Sent \union {"open", "died"}

(* Strangers get no further than accept, only providers to systemd-creds.  *)
Admitted ==
    /\ \A i \in Instances : pc[i] = "read" => peer[i] \in Clients /\ kind[peer[i]] # "stranger"
    /\ \A i \in Instances : pc[i] = "creds" => peer[i] \in Clients /\ kind[peer[i]] = "provider"

(* Nothing comes for a client that has not called.                         *)
Untouched == \A c \in Clients : call[c] = "idle" => reply[c] = "none" /\ creds[c] = "none"

RepliesAreTrue ==
    \A c \in Clients :
        /\ reply[c] = "OK" => kind[c] = "provider" /\ creds[c] = "done"
        /\ reply[c] = "CRYPTO_ERROR" => creds[c] = "failed"
        /\ reply[c] = "UNAUTHORIZED" => kind[c] = "stranger"

AnswerInv == TypeOK /\ Placed /\ Fresh /\ Admitted /\ Untouched /\ RepliesAreTrue /\ AnswersAreTrue

(* The first authorized client of a helper is waited for by nobody: its    *)
(* time runs with that of systemd-creds only.                              *)
InFront(c, i) ==
    /\ pc[i] = "accept"
    /\ \E n \in DOMAIN queue[i] :
          /\ queue[i][n] = c
          /\ \A m \in 1..(n - 1) : kind[queue[i][m]] = "stranger"

Unhurried(c) == call[c] = "waiting" => left[c] = CallTimeout

Attended(c, i) ==
    \/ InFront(c, i) /\ Unhurried(c)
    \/ pc[i] = "read" /\ peer[i] = c /\ Unhurried(c)
    \/ /\ pc[i] = "creds" /\ peer[i] = c
       /\ call[c] = "waiting"
       /\ left[c] >= limit[i] + (CallTimeout - CredsTimeout)

Pending(c) == call[c] \in Ongoing /\ reply[c] = "none"

Prompt ==
    \A c \in Clients : Pending(c) /\ ~behind[c] => \E i \in Instances : Attended(c, i)

PromptInv == AnswerInv /\ Prompt /\ TimeoutNeedsQueue

(* The newest helper, from its bind to the end of its service: nobody else *)
(* is about to touch the path, or to take its socket for his own.          *)
Newest(i) == pc[i] # "off" /\ \A j \in (i + 1)..MaxInstance : pc[j] = "off"

Started ==
    /\ \A i, j \in Instances : j < i /\ pc[i] # "off" => pc[j] # "off"
    /\ path # 0 => pc[path] # "off"
    /\ \A i \in Instances : mark[i] # 0 => pc[mark[i]] # "off"

Undisturbed ==
    raced \/ \A i \in Instances : Newest(i) =>
        /\ pc[i] \in {"bind", "mark"} \union Serving =>
              \A j \in Instances \ {i} : pc[j] \notin Exposed /\ mark[j] # i
        /\ pc[i] \in {"mark"} \union Serving => path = i

PathInv == TypeOK /\ Started /\ Undisturbed
-----------------------------------------------------------------------------
(* What the steps are made of keeps the types.                             *)
States == Serving \union {"off", "bind", "mark", "check", "unlink", "gone"}
Results == Statuses \union {"none", "cut", "closed"}

LEMMA GotoTyped ==
    ASSUME TypeOK, NEW i \in Instances, NEW from \in States, NEW to \in States, Goto(i, from, to)
    PROVE  /\ pc' \in [Instances -> States]
           /\ mark' \in [Instances -> 0..MaxInstance]
           /\ limit' \in [Instances -> Nat]
           /\ peer' \in [Instances -> Clients \union {Nobody}]
           /\ raced' \in BOOLEAN
<1>1. /\ pc' \in [Instances -> States]
      /\ limit' \in [Instances -> Nat]
      /\ peer' \in [Instances -> Clients \union {Nobody}]
  BY DEF TypeOK, Goto, States
<1>2. raced' \in BOOLEAN
  BY DEF TypeOK, Goto
<1>3. mark' \in [Instances -> 0..MaxInstance]
  BY HelperAssumption DEF TypeOK, Goto
<1> QED
  BY <1>1, <1>2, <1>3

LEMMA TellTyped ==
    ASSUME TypeOK, NEW those, NEW what \in Results, Tell(those, what)
    PROVE  reply' \in [Clients -> Results]
  BY DEF TypeOK, Tell, Results

LEMMA AnswerTyped ==
    ASSUME TypeOK, NEW i \in Instances, NEW c, NEW status \in Results, Answer(i, c, status)
    PROVE  /\ pc' \in [Instances -> States]
           /\ limit' \in [Instances -> Nat]
           /\ peer' \in [Instances -> Clients \union {Nobody}]
           /\ reply' \in [Clients -> Results]
<1>1. reply' \in [Clients -> Results]
  BY TellTyped DEF Answer
<1> QED
  BY <1>1 DEF TypeOK, Answer, States, Serving

LEMMA ProceedTyped ==
    ASSUME TypeOK, NEW i \in Instances, NEW c \in Clients \union {Nobody},
           NEW to \in Busy, NEW timeout \in Nat, Proceed(i, c, to, timeout)
    PROVE  /\ pc' \in [Instances -> States]
           /\ limit' \in [Instances -> Nat]
           /\ peer' \in [Instances -> Clients \union {Nobody}]
           /\ reply' \in [Clients -> Results]
  BY DEF TypeOK, Proceed, States, Serving, Busy, Results

LEMMA BecomesTyped ==
    ASSUME TypeOK, NEW c \in Clients, NEW state \in Ended, Becomes(c, state)
    PROVE  /\ call' \in [Clients -> Ended \union Ongoing \union {"idle"}]
           /\ left' \in [Clients -> Nat]
           /\ reply' \in [Clients -> Results]
  BY DEF TypeOK, Becomes, Results

LEMMA QueueEmptied ==
    ASSUME TypeOK, NEW i \in Instances, queue' = [queue EXCEPT ![i] = <<>>]
    PROVE  queue' \in [Instances -> Seq(Clients)]
  BY DEF TypeOK

LEMMA QueueShortened ==
    ASSUME TypeOK, NEW i \in Instances, queue[i] # <<>>,
           queue' = [queue EXCEPT ![i] = Tail(@)]
    PROVE  /\ queue' \in [Instances -> Seq(Clients)]
           /\ Head(queue[i]) \in Clients
<1>1. queue[i] \in Seq(Clients) /\ Tail(queue[i]) \in Seq(Clients) /\ Head(queue[i]) \in Clients
  BY DEF TypeOK
<1> QED
  BY <1>1 DEF TypeOK

(* Every step keeps the types.                                             *)
LEMMA StepTyped == TypeOK /\ [Next]_vars => TypeOK'
<1> SUFFICES ASSUME TypeOK, [Next]_vars
             PROVE  TypeOK'
  OBVIOUS
<1> USE DEF helper, client, past
<1>0. 0 \in 0..MaxInstance /\ Instances \subseteq 0..MaxInstance
  BY HelperAssumption DEF Instances
<1>1. ASSUME NEW i \in Instances, Start(i)
      PROVE  TypeOK'
  <2>1. PICK to \in {"bind", "gone"} : Goto(i, "off", to) /\ path' \in {0, path}
    BY <1>1 DEF Start
  <2>2. path' \in 0..MaxInstance
    BY <2>1, <1>0 DEF TypeOK
  <2> QED
    BY <1>1, <2>1, <2>2, GotoTyped DEF Start, TypeOK, States
<1>2. ASSUME NEW i \in Instances, Bind(i)
      PROVE  TypeOK'
  <2>1. PICK to \in {"mark", "gone"} : Goto(i, "bind", to) /\ path' \in {i, path}
    BY <1>2 DEF Bind
  <2>2. path' \in 0..MaxInstance
    BY <2>1, <1>0 DEF TypeOK
  <2> QED
    BY <1>2, <2>1, <2>2, GotoTyped DEF Bind, TypeOK, States
<1>3. ASSUME NEW i \in Instances, Listen(i)
      PROVE  TypeOK'
  <2>1. PICK to \in {"accept", "gone"} : Goto(i, "mark", to)
    BY <1>3 DEF Listen
  <2> QED
    BY <1>3, <2>1, GotoTyped DEF Listen, TypeOK, States, Results, Serving
<1>4. ASSUME NEW i \in Instances, Leave(i)
      PROVE  TypeOK'
  <2>1. reply' \in [Clients -> Results]
    BY <1>4, TellTyped DEF Leave, Results
  <2> QED
    BY <1>4, <2>1, GotoTyped, QueueEmptied DEF Leave, TypeOK, States, Results, Serving
<1>5. ASSUME NEW i \in Instances, CleanupCheck(i)
      PROVE  TypeOK'
  <2>1. PICK to \in {"unlink", "gone"} : Goto(i, "check", to)
    BY <1>5 DEF CleanupCheck
  <2> QED
    BY <1>5, <2>1, GotoTyped DEF CleanupCheck, TypeOK, States, Results
<1>6. ASSUME NEW i \in Instances, CleanupUnlink(i)
      PROVE  TypeOK'
  <2>1. path' \in 0..MaxInstance
    BY <1>6, <1>0 DEF CleanupUnlink
  <2> QED
    BY <1>6, <2>1, GotoTyped DEF CleanupUnlink, TypeOK, States
<1>7. ASSUME NEW i \in Instances, Crash(i)
      PROVE  TypeOK'
  <2>1. reply' \in [Clients -> Results]
    BY <1>7, TellTyped DEF Crash, Results
  <2>2. pc[i] \in States
    BY DEF TypeOK, States
  <2> QED
    BY <1>7, <2>1, <2>2, GotoTyped, QueueEmptied DEF Crash, TypeOK, States, Results
<1>8. ASSUME NEW i \in Instances, CrashInAnswer(i)
      PROVE  TypeOK'
  <2>1. reply' \in [Clients -> Results]
    BY <1>8 DEF CrashInAnswer, TypeOK, Results
  <2> QED
    BY <1>8, <2>1, GotoTyped, QueueEmptied DEF CrashInAnswer, TypeOK, States, Results, Serving, Busy
<1>9. ASSUME NEW i \in Instances, Accept(i)
      PROVE  TypeOK'
  <2>1. queue' \in [Instances -> Seq(Clients)] /\ Head(queue[i]) \in Clients
    BY <1>9, QueueShortened DEF Accept
  <2>2. /\ pc' \in [Instances -> States]
        /\ limit' \in [Instances -> Nat]
        /\ peer' \in [Instances -> Clients \union {Nobody}]
        /\ reply' \in [Clients -> Results]
    <3>1. CASE Answer(i, Head(queue[i]), "UNAUTHORIZED")
      BY <3>1, AnswerTyped DEF Results, Statuses
    <3>2. CASE Proceed(i, Head(queue[i]), "read", IoTimeout)
      BY <3>2, <2>1, ProceedTyped, HelperAssumption DEF Busy
    <3> QED
      BY <1>9, <3>1, <3>2 DEF Accept
  <2> QED
    BY <1>9, <2>1, <2>2 DEF Accept, TypeOK, States, Results
<1>10. ASSUME NEW i \in Instances, ReadRequest(i)
       PROVE  TypeOK'
  <2>1. peer[i] \in Clients \union {Nobody}
    BY DEF TypeOK
  <2>2. /\ pc' \in [Instances -> States]
        /\ limit' \in [Instances -> Nat]
        /\ peer' \in [Instances -> Clients \union {Nobody}]
        /\ reply' \in [Clients -> Results]
    <3>1. CASE \E status \in {"INVALID_REQUEST", "closed"} : Answer(i, peer[i], status)
      BY <3>1, AnswerTyped DEF Results, Statuses
    <3>2. CASE Proceed(i, peer[i], "creds", CredsTimeout)
      BY <3>2, <2>1, ProceedTyped, HelperAssumption DEF Busy
    <3> QED
      BY <1>10, <3>1, <3>2 DEF ReadRequest
  <2> QED
    BY <1>10, <2>2 DEF ReadRequest, TypeOK, States, Results
<1>11. ASSUME NEW i \in Instances, RunCreds(i)
       PROVE  TypeOK'
  <2>1. PICK result \in {"done", "failed"}, status \in Statuses : CredsSays(i, result, status)
    BY <1>11 DEF RunCreds, Statuses
  <2>2. creds' \in [Clients -> {"none", "done", "failed"}]
    BY <2>1 DEF CredsSays, TypeOK
  <2> QED
    BY <1>11, <2>1, <2>2, AnswerTyped DEF RunCreds, CredsSays, TypeOK, States, Results
<1>12. ASSUME NEW c \in Clients, Connect(c)
       PROVE  TypeOK'
  <2>1. CASE /\ Reachable
             /\ call' = [call EXCEPT ![c] = "open"]
             /\ queue' = [queue EXCEPT ![path] = Append(@, c)]
             /\ behind' = [behind EXCEPT ![c] = \E d \in Ahead(path) : kind[d] # "stranger"]
             /\ UNCHANGED <<left, reply>>
    <3>1. path \in Instances
      BY <2>1, HelperAssumption DEF Reachable, Instances, TypeOK
    <3>2. queue' \in [Instances -> Seq(Clients)]
      <4>1. Append(queue[path], c) \in Seq(Clients)
        BY <3>1 DEF TypeOK
      <4> QED
        BY <2>1, <4>1 DEF TypeOK
    <3>3. behind' \in [Clients -> BOOLEAN]
      BY <2>1 DEF TypeOK
    <3> QED
      BY <1>12, <2>1, <3>2, <3>3 DEF Connect, TypeOK, Ongoing
  <2>2. CASE Becomes(c, "broken") /\ UNCHANGED <<queue, behind>>
    BY <1>12, <2>2, BecomesTyped DEF Connect, TypeOK, Results, Ended
  <2> QED
    BY <1>12, <2>1, <2>2 DEF Connect
<1>13. ASSUME NEW c \in Clients, Send(c)
       PROVE  TypeOK'
  <2>1. CASE Becomes(c, "broken")
    BY <1>13, <2>1, BecomesTyped DEF Send, TypeOK, Results, Ended
  <2>2. CASE /\ call' = [call EXCEPT ![c] = "waiting"]
             /\ left' = [left EXCEPT ![c] = CallTimeout]
             /\ UNCHANGED reply
    BY <1>13, <2>2, HelperAssumption DEF Send, TypeOK, Ongoing
  <2> QED
    BY <1>13, <2>1, <2>2 DEF Send
<1>14. ASSUME NEW c \in Clients, Receive(c)
       PROVE  TypeOK'
  <2>1. PICK state \in Ended : Becomes(c, state)
    BY <1>14 DEF Receive, Outcome, Ended
  <2> QED
    BY <1>14, <2>1, BecomesTyped DEF Receive, TypeOK, Results
<1>15. ASSUME NEW c \in Clients, Die(c)
       PROVE  TypeOK'
  <2>1. PICK state \in Ended : Becomes(c, state)
    BY <1>15 DEF Die, Ended
  <2> QED
    BY <1>15, <2>1, BecomesTyped DEF Die, TypeOK, Results
<1>16. CASE Tick
  BY <1>16 DEF Tick, TypeOK, Minus1
<1>17. CASE UNCHANGED vars
  BY <1>17 DEF vars, TypeOK
<1> QED
  BY <1>1, <1>2, <1>3, <1>4, <1>5, <1>6, <1>7, <1>8, <1>9, <1>10, <1>11, <1>12,
     <1>13, <1>14, <1>15, <1>16, <1>17 DEF Next, Serve

LEMMA InitTyped == Init => TypeOK
<1> SUFFICES ASSUME Init PROVE TypeOK
  OBVIOUS
<1>1. 0 \in 0..MaxInstance /\ <<>> \in Seq(Clients)
  BY HelperAssumption
<1> QED
  BY <1>1 DEF Init, TypeOK

(* Every state a client, a helper or the clock reaches has its type.       *)
THEOREM TypeCorrect == Spec => []TypeOK
  BY InitTyped, StepTyped, PTL DEF Spec

-----------------------------------------------------------------------------
(* The path.                                                               *)

(* A helper that runs or has ended stays what no new one can be.           *)
LEMMA StartedKept ==
    ASSUME PathInv,
           \A j \in Instances : pc'[j] = "off" <=> pc[j] = "off",
           path' \in Instances => path' = path \/ pc[path'] # "off",
           \A j \in Instances : mark'[j] \in {0, path, mark[j]},
           TypeOK'
    PROVE  Started'
<1>1. \A n \in 0..MaxInstance : n # 0 => n \in Instances
  BY HelperAssumption DEF Instances
<1>2. /\ path \in 0..MaxInstance /\ path' \in 0..MaxInstance
      /\ \A j \in Instances : mark[j] \in 0..MaxInstance
  BY DEF PathInv, TypeOK
<1>3. path' # 0 => pc'[path'] # "off"
  BY <1>1, <1>2 DEF PathInv, Started
<1>4. \A j \in Instances : mark'[j] # 0 => pc'[mark'[j]] # "off"
  BY <1>1, <1>2 DEF PathInv, Started
<1>5. \A j, k \in Instances : k < j /\ pc'[j] # "off" => pc'[k] # "off"
  BY DEF PathInv, Started
<1> QED
  BY <1>3, <1>4, <1>5 DEF Started

(* A helper that goes from one place to the next without touching the path *)
(* or putting itself into one of the windows.                              *)
LEMMA PathKept ==
    ASSUME PathInv, TypeOK', NEW i \in Instances, NEW to \in States \ Exposed,
           pc[i] # "off", to # "off",
           to \in Serving => pc[i] \in Serving,
           pc' = [pc EXCEPT ![i] = to],
           mark' \in {mark, [mark EXCEPT ![i] = 0]},
           path' = path, raced' = raced
    PROVE  PathInv'
<1>1. \A j \in Instances : /\ mark'[j] \in {0, mark[j]}
                           /\ pc'[j] = IF j = i THEN to ELSE pc[j]
                           /\ pc'[j] = "off" <=> pc[j] = "off"
  BY DEF PathInv, TypeOK
<1>2. Started'
  BY <1>1, StartedKept
<1>3. ASSUME ~raced, NEW k \in Instances, Newest(k)'
      PROVE  /\ pc'[k] \in {"bind", "mark"} \union Serving =>
                   \A j \in Instances \ {k} : pc'[j] \notin Exposed /\ mark'[j] # k
             /\ pc'[k] \in {"mark"} \union Serving => path' = k
  <2>1. Newest(k)
    BY <1>1, <1>3 DEF Newest, Instances
  <2>2. /\ pc[k] \in {"bind", "mark"} \union Serving =>
              \A j \in Instances \ {k} : pc[j] \notin Exposed /\ mark[j] # k
        /\ pc[k] \in {"mark"} \union Serving => path = k
    BY <1>3, <2>1 DEF PathInv, Undisturbed
  <2>3. pc'[k] \in {"bind", "mark"} \union Serving =>
             pc[k] \in {"bind", "mark"} \union Serving /\ (pc'[k] \in Serving => pc[k] \in Serving)
                /\ (pc'[k] = "mark" => pc[k] = "mark")
    BY <1>1 DEF Exposed
  <2>4. \A j \in Instances : mark'[j] = k => mark[j] = k
    BY <1>1 DEF Instances
  <2> QED
    BY <1>1, <2>2, <2>3, <2>4 DEF Serving, Busy, Exposed
<1>4. Undisturbed'
  BY <1>3 DEF Undisturbed
<1> QED
  BY <1>2, <1>4 DEF PathInv

(* From its start to the end of its service a helper needs the path.       *)
Holding == {"bind", "mark"} \union Serving

(* A step of the helper i to another place, which is not its first.  What  *)
(* it does to the path or to itself is in the way of no newer helper.      *)
LEMMA PathMoved ==
    ASSUME PathInv, TypeOK', NEW i \in Instances, NEW from \in States \ {"off"},
           NEW to \in States \ {"off"}, Goto(i, from, to),
           path' \in {0, i, path},
           \A k \in Instances \ {i} : Newest(k) /\ pc[k] \in Holding =>
              raced' \/ (path' = path /\ to \notin Exposed /\ mark'[i] # k),
           to \in Holding => from \in Holding,
           Newest(i) /\ to \in {"mark"} \union Serving => path' = i \/ raced'
    PROVE  PathInv'
<1>1. /\ pc[i] = from
      /\ \A j \in Instances : /\ pc'[j] = IF j = i THEN to ELSE pc[j]
                              /\ pc'[j] = "off" <=> pc[j] = "off"
                              /\ j # i => mark'[j] = mark[j]
      /\ mark'[i] \in {0, path, mark[i]}
      /\ raced => raced'
  BY DEF PathInv, TypeOK, Goto
<1>2. Started'
  <2>1. path' \in Instances => path' = path \/ pc[path'] # "off"
    BY <1>1 DEF Instances
  <2>2. \A j \in Instances : mark'[j] \in {0, path, mark[j]}
    BY <1>1
  <2> QED
    BY <1>1, <2>1, <2>2, StartedKept
<1>3. ASSUME ~raced', NEW k \in Instances, Newest(k)'
      PROVE  /\ pc'[k] \in Holding =>
                   \A j \in Instances \ {k} : pc'[j] \notin Exposed /\ mark'[j] # k
             /\ pc'[k] \in {"mark"} \union Serving => path' = k
  <2>1. Newest(k) /\ ~raced
    BY <1>1, <1>3 DEF Newest, Instances
  <2>2. /\ pc[k] \in Holding =>
              \A j \in Instances \ {k} : pc[j] \notin Exposed /\ mark[j] # k
        /\ pc[k] \in {"mark"} \union Serving => path = k
    BY <2>1 DEF PathInv, Undisturbed, Holding
  <2>3. CASE k = i
    BY <1>1, <1>3, <2>1, <2>2, <2>3 DEF Holding, Serving, Busy
  <2>4. CASE k # i
    BY <1>1, <1>3, <2>1, <2>2, <2>4 DEF Holding, Serving, Busy
  <2> QED
    BY <2>3, <2>4
<1>4. Undisturbed'
  BY <1>3 DEF Undisturbed, Holding
<1> QED
  BY <1>2, <1>4 DEF PathInv

(* What the path leads to when the newest helper is there.                 *)
LEMMA NewestHas ==
    ASSUME PathInv, ~raced, NEW k \in Instances, Newest(k)
    PROVE  /\ pc[k] \in Holding => \A j \in Instances \ {k} : pc[j] \notin Exposed /\ mark[j] # k
           /\ pc[k] \in {"mark"} \union Serving => path = k
  BY DEF PathInv, Undisturbed, Holding

LEMMA StepPath == PathInv /\ TypeOK' /\ [Next]_vars => PathInv'
<1> SUFFICES ASSUME PathInv, TypeOK', [Next]_vars
             PROVE  PathInv'
  OBVIOUS
<1> USE DEF helper, client, past
<1>0. /\ \A i, from, to : Goto(i, from, to) /\ raced => raced'
      /\ 0 \notin Instances
      /\ {"bind", "mark", "accept", "check", "unlink", "gone"} \subseteq States \ {"off"}
      /\ {"bind", "mark", "accept"} \subseteq Holding
      /\ \A s \in {"check", "unlink", "gone"} : s \notin Holding
      /\ \A s \in {"bind", "mark", "unlink"} : s \in Exposed
      /\ \A s \in {"accept", "check", "gone"} : s \notin Exposed
  <2>1. \A i, from, to : Goto(i, from, to) /\ raced => raced'
    BY DEF Goto, PathInv, TypeOK
  <2>2. 0 \notin Instances
    BY DEF Instances
  <2> QED
    BY <2>1, <2>2 DEF States, Holding, Serving, Busy, Exposed
<1>1. ASSUME NEW i \in Instances, Start(i)
      PROVE  PathInv'
  <2>1. PICK to \in {"bind", "gone"} : Goto(i, "off", to)
    BY <1>1 DEF Start
  <2>2. /\ pc[i] = "off"
        /\ \A j \in Instances : /\ pc'[j] = IF j = i THEN to ELSE pc[j]
                                /\ mark'[j] \in {0, mark[j]}
        /\ path' \in {0, path}
    BY <1>1, <2>1 DEF PathInv, TypeOK, Goto, Start
  <2>3. \A j \in Instances : /\ j < i => pc[j] # "off"
                             /\ j > i => pc[j] = "off"
    BY <1>1, <2>2 DEF Start, Instances, PathInv, Started
  <2>4. Started'
    <3>1. \A n \in 0..MaxInstance : n # 0 => n \in Instances
      BY HelperAssumption DEF Instances
    <3>2. path \in 0..MaxInstance /\ \A j \in Instances : mark[j] \in 0..MaxInstance
      BY DEF PathInv, TypeOK
    <3>3. path' # 0 => pc'[path'] # "off"
      BY <2>2, <3>1, <3>2 DEF PathInv, Started
    <3>4. \A j \in Instances : mark'[j] # 0 => pc'[mark'[j]] # "off"
      BY <2>2, <3>1, <3>2 DEF PathInv, Started
    <3>5. \A j, k \in Instances : k < j /\ pc'[j] # "off" => pc'[k] # "off"
      BY <2>2, <2>3 DEF Instances
    <3> QED
      BY <3>3, <3>4, <3>5 DEF Started
  <2>5. ASSUME ~raced', NEW k \in Instances, Newest(k)'
        PROVE  /\ k = i
               /\ pc'[i] \in Holding => \A j \in Instances \ {i} : pc'[j] \notin Exposed
               /\ \A j \in Instances : mark'[j] # i
               /\ pc'[i] \notin {"mark"} \union Serving
    <3>1. k = i
      BY <2>2, <2>3, <2>5 DEF Newest, Instances
    <3>2. pc'[i] \in Holding => \A j \in Instances \ {i} : pc'[j] \notin Exposed
      BY <2>1, <2>2, <2>5 DEF Goto, Exposed, Holding, Serving, Busy
    <3>3. \A j \in Instances : mark'[j] # i
      BY <2>2, <1>0 DEF PathInv, Started
    <3> QED
      BY <2>2, <3>1, <3>2, <3>3 DEF Serving, Busy
  <2>6. Undisturbed'
    BY <2>5 DEF Undisturbed, Holding
  <2> QED
    BY <2>4, <2>6 DEF PathInv
<1>2. ASSUME NEW i \in Instances, Bind(i)
      PROVE  PathInv'
  <2>1. PICK to \in {"mark", "gone"} :
            Goto(i, "bind", to) /\ path' \in {i, path} /\ (to = "mark" => path' = i)
    BY <1>2 DEF Bind
  <2>2. pc[i] = "bind"
    BY <2>1 DEF Goto
  <2>3. \A k \in Instances \ {i} : Newest(k) /\ pc[k] \in Holding =>
           raced' \/ (path' = path /\ to \notin Exposed /\ mark'[i] # k)
    BY <1>0, <2>1, <2>2, NewestHas
  <2>4. Newest(i) /\ to \in {"mark"} \union Serving => path' = i \/ raced'
    BY <1>0, <2>1 DEF Serving, Busy
  <2> QED
    BY <1>0, <2>1, <2>3, <2>4, PathMoved
<1>3. ASSUME NEW i \in Instances, Listen(i)
      PROVE  PathInv'
  <2>1. PICK to \in {"accept", "gone"} : Goto(i, "mark", to) /\ path' = path
    BY <1>3 DEF Listen
  <2>2. pc[i] = "mark"
    BY <2>1 DEF Goto
  <2>3. \A k \in Instances \ {i} : Newest(k) /\ pc[k] \in Holding =>
           raced' \/ (path' = path /\ to \notin Exposed /\ mark'[i] # k)
    BY <1>0, <2>1, <2>2, NewestHas
  <2>4. Newest(i) /\ to \in {"mark"} \union Serving => path' = i \/ raced'
    BY <1>0, <2>1, <2>2, NewestHas
  <2> QED
    BY <1>0, <2>1, <2>3, <2>4, PathMoved
<1>4. ASSUME NEW i \in Instances, Leave(i)
      PROVE  PathInv'
  <2>1. Goto(i, "accept", "check") /\ path' = path
    BY <1>4 DEF Leave
  <2>2. mark'[i] = mark[i]
    BY <2>1 DEF Goto, PathInv, TypeOK
  <2>3. \A k \in Instances \ {i} : Newest(k) /\ pc[k] \in Holding =>
           raced' \/ (path' = path /\ "check" \notin Exposed /\ mark'[i] # k)
    BY <1>0, <2>1, <2>2, NewestHas
  <2>4. "check" \notin {"mark"} \union Serving
    BY DEF Serving, Busy
  <2> QED
    BY <1>0, <2>1, <2>3, <2>4, PathMoved
<1>5. ASSUME NEW i \in Instances, CleanupCheck(i)
      PROVE  PathInv'
  <2>1. PICK to \in {"unlink", "gone"} :
            Goto(i, "check", to) /\ path' = path /\ (to = "unlink" => path = mark[i])
    BY <1>5 DEF CleanupCheck, OwnSocket
  <2>2. mark'[i] \in {0, mark[i]} /\ pc[i] = "check"
    BY <2>1 DEF Goto, PathInv, TypeOK
  <2>3. ASSUME NEW k \in Instances \ {i}, Newest(k), pc[k] \in Holding, ~raced'
        PROVE  mark'[i] # k /\ to # "unlink"
    <3>1. ~raced
      BY <1>0, <2>1, <2>3
    <3>2. mark[i] # k /\ mark'[i] # k
      BY <1>0, <2>2, <2>3, <3>1, NewestHas
    <3>3. CASE pc[k] \in {"bind", "mark"}
      BY <1>0, <2>1, <2>3, <3>2, <3>3 DEF Goto
    <3>4. CASE pc[k] \in Serving
      BY <2>1, <2>3, <3>1, <3>2, <3>4, NewestHas
    <3> QED
      BY <2>3, <3>3, <3>4 DEF Holding
  <2>4. \A k \in Instances \ {i} : Newest(k) /\ pc[k] \in Holding =>
           raced' \/ (path' = path /\ to \notin Exposed /\ mark'[i] # k)
    BY <1>0, <2>1, <2>3
  <2>5. to \notin {"mark"} \union Serving
    BY <2>1 DEF Serving, Busy
  <2> QED
    BY <1>0, <2>1, <2>4, <2>5, PathMoved
<1>6. ASSUME NEW i \in Instances, CleanupUnlink(i)
      PROVE  PathInv'
  <2>1. Goto(i, "unlink", "gone") /\ path' = 0
    BY <1>6 DEF CleanupUnlink
  <2>2. pc[i] = "unlink"
    BY <2>1 DEF Goto
  <2>3. \A k \in Instances \ {i} : Newest(k) /\ pc[k] \in Holding =>
           raced' \/ (path' = path /\ "gone" \notin Exposed /\ mark'[i] # k)
    BY <1>0, <2>1, <2>2, NewestHas
  <2>4. "gone" \notin {"mark"} \union Serving
    BY DEF Serving, Busy
  <2> QED
    BY <1>0, <2>1, <2>3, <2>4, PathMoved
<1>7. ASSUME NEW i \in Instances, NEW from \in States \ {"off"}, Goto(i, from, "gone"), path' = path
      PROVE  PathInv'
  <2>1. mark'[i] = 0
    BY <1>7 DEF Goto, PathInv, TypeOK
  <2>2. \A k \in Instances \ {i} : Newest(k) /\ pc[k] \in Holding =>
           raced' \/ (path' = path /\ "gone" \notin Exposed /\ mark'[i] # k)
    BY <1>0, <1>7, <2>1
  <2>3. "gone" \notin {"mark"} \union Serving
    BY DEF Serving, Busy
  <2> QED
    BY <1>0, <1>7, <2>2, <2>3, PathMoved
<1>8. ASSUME NEW i \in Instances, Crash(i)
      PROVE  PathInv'
  <2>1. pc[i] \in States \ {"off"}
    BY <1>8 DEF Crash, PathInv, TypeOK, States
  <2> QED
    BY <1>7, <1>8, <2>1 DEF Crash
<1>9. ASSUME NEW i \in Instances, CrashInAnswer(i)
      PROVE  PathInv'
  <2>1. "creds" \in States \ {"off"}
    BY DEF States, Serving, Busy
  <2> QED
    BY <1>7, <1>9, <2>1 DEF CrashInAnswer
<1>10. ASSUME NEW i \in Instances, Accept(i) \/ ReadRequest(i) \/ RunCreds(i)
       PROVE  PathInv'
  <2>1. PICK to \in Serving : pc' = [pc EXCEPT ![i] = to]
    BY <1>10 DEF Accept, ReadRequest, RunCreds, CredsSays, Answer, Proceed, Serving, Busy
  <2>2. pc[i] \in Serving /\ UNCHANGED <<mark, path, raced>>
    BY <1>10 DEF Accept, ReadRequest, RunCreds, Serving, Busy
  <2> QED
    BY <2>1, <2>2, PathKept DEF States, Serving, Busy, Exposed
<1>11. CASE UNCHANGED <<pc, mark, path, raced>>
  BY <1>11 DEF PathInv, Started, Undisturbed, Newest
<1> QED
  BY <1>1, <1>2, <1>3, <1>4, <1>5, <1>6, <1>8, <1>9, <1>10, <1>11
     DEF Next, Serve, vars, Connect, Send, Receive, Die, Tick

(* A helper that serves is at the end of the path until a newer one has    *)
(* started: no older helper's cleanup takes the path from under it, unless *)
(* two helpers were in their windows at the same time.                     *)
THEOREM SuccessorReachable == Spec => []SuccessorIsReachable
<1>1. Init => PathInv
  BY InitTyped, HelperAssumption DEF Init, PathInv, Started, Undisturbed, Newest
<1>2. PathInv /\ [Next]_vars => PathInv'
  BY StepTyped, StepPath DEF PathInv
<1>3. PathInv => SuccessorIsReachable
  BY DEF PathInv, Undisturbed, Newest, SuccessorIsReachable, Serving, Busy, TypeOK
<1> QED
  BY <1>1, <1>2, <1>3, PTL DEF Spec

-----------------------------------------------------------------------------
(* The answers.                                                            *)

(* What a helper keeps of its clients when it acts: some of those it had.  *)
LEMMA PlacedKept ==
    ASSUME TypeOK, Placed, NEW i \in Instances,
           NEW q \in Seq(Clients), NEW x \in Clients \union {Nobody},
           queue' = [queue EXCEPT ![i] = q],
           peer' = [peer EXCEPT ![i] = x],
           \A m, n \in DOMAIN q : q[m] = q[n] => m = n,
           \A n \in DOMAIN q : q[n] # x /\ q[n] \in Ahead(i),
           x # Nobody => x \in Ahead(i)
    PROVE  /\ Placed'
           /\ \A j \in Instances : j # i => Ahead(j)' = Ahead(j)
           /\ Ahead(i)' \subseteq Ahead(i)
           /\ \A c \in Ahead(i)' : c = x \/ \E n \in DOMAIN q : q[n] = c
<1>1. \A j \in Instances : /\ queue'[j] = IF j = i THEN q ELSE queue[j]
                           /\ peer'[j] = IF j = i THEN x ELSE peer[j]
  BY DEF TypeOK
<1>2. \A j \in Instances : j # i => Ahead(j)' = Ahead(j)
  BY <1>1 DEF Ahead, Waiting
<1>3. /\ Ahead(i)' \subseteq Ahead(i)
      /\ \A c \in Ahead(i)' : c = x \/ \E n \in DOMAIN q : q[n] = c
  BY <1>1 DEF Ahead, Waiting
<1>4. \A j, k \in Instances : j # k => Ahead(j)' \intersect Ahead(k)' = {}
  BY <1>2, <1>3 DEF Placed
<1>5. \A j \in Instances : \A m, n \in DOMAIN queue'[j] : queue'[j][m] = queue'[j][n] => m = n
  BY <1>1 DEF Placed
<1>6. \A j \in Instances : peer'[j] \notin Waiting(j)'
  BY <1>1 DEF Placed, Waiting
<1> QED
  BY <1>2, <1>3, <1>4, <1>5, <1>6 DEF Placed

(* The helper lets go of the client it handles.                            *)
LEMMA PeerDropped ==
    ASSUME TypeOK, Placed, NEW i \in Instances,
           queue' = queue, peer' = [peer EXCEPT ![i] = Nobody]
    PROVE  /\ Placed'
           /\ \A j \in Instances : Ahead(j)' \subseteq Ahead(j)
           /\ \A j \in Instances : peer[i] \notin Ahead(j)'
<1>1. \A j \in Instances : /\ Waiting(j)' = Waiting(j) /\ Waiting(j) \subseteq Clients
                           /\ j # i => peer'[j] = peer[j]
                           /\ peer'[i] = Nobody
  BY DEF TypeOK, Waiting
<1>2. \A j \in Instances : Ahead(j)' = IF j = i THEN Waiting(j) ELSE Ahead(j)
  BY <1>1 DEF Ahead
<1>3. \A j \in Instances : Ahead(j)' \subseteq Ahead(j) /\ Nobody \notin Ahead(j)'
  BY <1>1, <1>2, HelperAssumption DEF Ahead, TypeOK
<1>4. Placed'
  BY <1>1, <1>3, HelperAssumption DEF Placed
<1>5. ASSUME NEW j \in Instances
      PROVE  peer[i] \notin Ahead(j)'
  <2>1. CASE peer[i] = Nobody
    BY <1>3, <2>1
  <2>2. CASE peer[i] # Nobody
    BY <1>2, <2>2 DEF Placed, Ahead
  <2> QED
    BY <2>1, <2>2
<1> QED
  BY <1>3, <1>4, <1>5

(* The helper lets go of everyone.                                         *)
LEMMA AllDropped ==
    ASSUME TypeOK, Placed, NEW i \in Instances,
           queue' = [queue EXCEPT ![i] = <<>>], peer' = [peer EXCEPT ![i] = Nobody]
    PROVE  /\ Placed'
           /\ \A j \in Instances : Ahead(j)' \subseteq Ahead(j)
           /\ \A j \in Instances : Ahead(j)' \intersect Ahead(i) = {}
<1>1. <<>> \in Seq(Clients) /\ DOMAIN <<>> = {}
  OBVIOUS
<1>2. /\ Placed'
      /\ \A j \in Instances : j # i => Ahead(j)' = Ahead(j)
      /\ Ahead(i)' \subseteq Ahead(i)
  BY <1>1, PlacedKept
<1>3. Ahead(i)' = {}
  BY <1>1 DEF Ahead, Waiting, TypeOK
<1> QED
  BY <1>2, <1>3 DEF Placed

(* The helper takes the first of its queue.                                *)
LEMMA HeadTaken ==
    ASSUME TypeOK, Placed, NEW i \in Instances, queue[i] # <<>>,
           NEW x \in {Head(queue[i]), Nobody},
           queue' = [queue EXCEPT ![i] = Tail(@)], peer' = [peer EXCEPT ![i] = x]
    PROVE  /\ Placed'
           /\ \A j \in Instances : Ahead(j)' \subseteq Ahead(j)
           /\ x = Nobody => \A j \in Instances : Head(queue[i]) \notin Ahead(j)'
<1> DEFINE q == Tail(queue[i])
           h == Head(queue[i])
<1>1. /\ queue[i] \in Seq(Clients) /\ q \in Seq(Clients)
      /\ h = queue[i][1] /\ h \in Clients /\ 1 \in DOMAIN queue[i]
      /\ \A n \in DOMAIN q : n + 1 \in DOMAIN queue[i] /\ n + 1 # 1 /\ q[n] = queue[i][n + 1]
      /\ DOMAIN q \subseteq Nat
  BY DEF TypeOK
<1>2. queue' = [queue EXCEPT ![i] = q]
  OBVIOUS
<1> HIDE DEF q, h
<1>3. \A n \in DOMAIN q : q[n] \in Waiting(i) /\ q[n] # h /\ q[n] \in Clients
  BY <1>1 DEF Placed, Waiting
<1>4. h \in Waiting(i)
  BY <1>1 DEF Waiting
<1>5. \A n \in DOMAIN q : q[n] # x /\ q[n] \in Ahead(i)
  BY <1>3, HelperAssumption DEF Ahead, h
<1>6. x # Nobody => x \in Ahead(i)
  BY <1>4 DEF Ahead, h
<1>7. \A m, n \in DOMAIN q : q[m] = q[n] => m = n
  BY <1>1 DEF Placed
<1>8. /\ Placed'
      /\ \A j \in Instances : j # i => Ahead(j)' = Ahead(j)
      /\ Ahead(i)' \subseteq Ahead(i)
      /\ \A c \in Ahead(i)' : c = x \/ \E n \in DOMAIN q : q[n] = c
  <2>1. x \in Clients \union {Nobody}
    BY <1>1 DEF h
  <2> QED
    BY <1>1, <1>2, <1>5, <1>6, <1>7, <2>1, PlacedKept
<1>9. ASSUME x = Nobody, NEW j \in Instances
      PROVE  h \notin Ahead(j)'
  <2>1. CASE j = i
    BY <1>1, <1>3, <1>8, <1>9, <2>1, HelperAssumption
  <2>2. CASE j # i
    BY <1>4, <1>8, <2>2 DEF Placed, Ahead
  <2> QED
    BY <2>1, <2>2
<1> QED
  BY <1>8, <1>9 DEF h

(* Whoever is told something is no longer with a helper.                   *)
LEMMA Told ==
    ASSUME AnswerInv, NEW those, NEW what \in Results \ {"none"}, Tell(those, what),
           creds' = creds, call' = call, kind' = kind,
           \A j \in Instances : Ahead(j)' \subseteq Ahead(j) /\ those \intersect Ahead(j)' = {},
           \A c \in those \intersect Clients :
              /\ what \in {"OK", "CRYPTO_ERROR"} => FALSE
              /\ what = "UNAUTHORIZED" => kind[c] = "stranger"
    PROVE  Fresh' /\ Untouched' /\ RepliesAreTrue' /\ AnswersAreTrue'
<1>1. \A c \in Clients : /\ c \in those /\ call[c] \in Ongoing => reply'[c] = what
                         /\ c \notin those \/ call[c] \notin Ongoing => reply'[c] = reply[c]
  BY DEF Tell
<1>2. \A j \in Instances : Ahead(j) \subseteq Clients
  BY DEF AnswerInv, TypeOK, Ahead, Waiting
<1>3. Fresh'
  BY <1>1, <1>2 DEF AnswerInv, Fresh
<1>4. Untouched'
  BY <1>1 DEF AnswerInv, Untouched, Ongoing
<1>5. RepliesAreTrue'
  BY <1>1 DEF AnswerInv, RepliesAreTrue
<1>6. AnswersAreTrue'
  BY DEF AnswerInv, AnswersAreTrue
<1> QED
  BY <1>3, <1>4, <1>5, <1>6

(* Nobody is told anything, and nobody is new.                             *)
LEMMA Silent ==
    ASSUME AnswerInv, UNCHANGED <<reply, creds, call, kind>>,
           \A j \in Instances : Ahead(j)' \subseteq Ahead(j)
    PROVE  Fresh' /\ Untouched' /\ RepliesAreTrue' /\ AnswersAreTrue'
  BY DEF AnswerInv, Fresh, Untouched, RepliesAreTrue, AnswersAreTrue

(* A client's own step, unless it is with a helper and goes on.            *)
LEMMA ClientStep ==
    ASSUME AnswerInv, NEW c \in Clients, NEW state \in Ended \union Ongoing,
           UNCHANGED <<queue, peer, pc, creds, kind>>,
           call' = [call EXCEPT ![c] = state],
           reply' = [reply EXCEPT ![c] = "none"],
           \A i \in Instances : c \in Ahead(i) => state \in Sent \union {"open", "died"},
           state = "ok" => kind[c] = "provider" /\ creds[c] = "done",
           state = "failed" => creds[c] = "failed",
           state = "denied" => kind[c] = "stranger"
    PROVE  /\ Placed' /\ Fresh' /\ Admitted' /\ Untouched'
           /\ RepliesAreTrue' /\ AnswersAreTrue'
<1>1. \A d \in Clients : /\ call'[d] = IF d = c THEN state ELSE call[d]
                         /\ reply'[d] = IF d = c THEN "none" ELSE reply[d]
  BY DEF AnswerInv, TypeOK
<1>2. \A j \in Instances : Ahead(j)' = Ahead(j) /\ Waiting(j)' = Waiting(j)
  BY DEF Ahead, Waiting
<1>3. \A j \in Instances : Ahead(j) \subseteq Clients
  BY DEF AnswerInv, TypeOK, Ahead, Waiting
<1>4. Placed' /\ Admitted'
  BY <1>2 DEF AnswerInv, Placed, Admitted
<1>5. Fresh'
  BY <1>1, <1>2, <1>3 DEF AnswerInv, Fresh
<1>6. Untouched'
  BY <1>1 DEF AnswerInv, Untouched, Ended, Ongoing
<1>7. RepliesAreTrue'
  BY <1>1 DEF AnswerInv, RepliesAreTrue
<1>8. AnswersAreTrue'
  BY <1>1 DEF AnswerInv, AnswersAreTrue
<1> QED
  BY <1>4, <1>5, <1>6, <1>7, <1>8

(* Whoever is let go of is not admitted, and the others are what they were. *)
LEMMA AdmittedKept ==
    ASSUME TypeOK, Admitted, NEW i \in Instances, NEW to \in States \ Busy,
           pc' = [pc EXCEPT ![i] = to], peer' = [peer EXCEPT ![i] = Nobody], kind' = kind
    PROVE  Admitted'
<1>1. \A j \in Instances : /\ pc'[j] = IF j = i THEN to ELSE pc[j]
                           /\ peer'[j] = IF j = i THEN Nobody ELSE peer[j]
  BY DEF TypeOK
<1>2. to \notin {"read", "creds"}
  BY DEF Busy
<1> QED
  BY <1>1, <1>2 DEF Admitted

LEMMA StepAnswers == AnswerInv /\ TypeOK' /\ [Next]_vars => AnswerInv'
<1> SUFFICES ASSUME AnswerInv, TypeOK', [Next]_vars
             PROVE  AnswerInv'
  OBVIOUS
<1> USE DEF helper, client, past
<1>0. /\ TypeOK /\ Placed /\ Admitted
      /\ \A i \in Instances : Ahead(i) \subseteq Clients /\ Waiting(i) \subseteq Ahead(i)
  BY DEF AnswerInv, TypeOK, Ahead, Waiting
(* A helper that leaves the loop, or was never in it.                      *)
<1>1. ASSUME NEW i \in Instances, NEW from \in States, NEW to \in States \ Busy, Goto(i, from, to),
             queue' \in {queue, [queue EXCEPT ![i] = <<>>]}
      PROVE  /\ Placed'
             /\ kind' = kind => Admitted'
             /\ \A j \in Instances : Ahead(j)' \subseteq Ahead(j)
             /\ peer' = [peer EXCEPT ![i] = Nobody]
             /\ queue' = [queue EXCEPT ![i] = <<>>] =>
                   \A j \in Instances : Ahead(j)' \intersect Ahead(i) = {}
  <2>1. peer' = [peer EXCEPT ![i] = Nobody]
    BY <1>1 DEF Goto
  <2>2. /\ Placed'
        /\ \A j \in Instances : Ahead(j)' \subseteq Ahead(j)
        /\ queue' = [queue EXCEPT ![i] = <<>>] =>
              \A j \in Instances : Ahead(j)' \intersect Ahead(i) = {}
    BY <1>0, <1>1, <2>1, PeerDropped, AllDropped
  <2>3. kind' = kind => Admitted'
    BY <1>0, <1>1, AdmittedKept DEF Goto
  <2> QED
    BY <2>1, <2>2, <2>3
<1>2. ASSUME NEW i \in Instances, Start(i) \/ Bind(i) \/ Listen(i) \/ CleanupCheck(i) \/ CleanupUnlink(i)
      PROVE  AnswerInv'
  <2>1. PICK from \in States, to \in States \ Busy : Goto(i, from, to)
    BY <1>2 DEF Start, Bind, Listen, CleanupCheck, CleanupUnlink, States, Serving, Busy
  <2>2. UNCHANGED <<queue, call, reply, creds, kind>>
    BY <1>2 DEF Start, Bind, Listen, CleanupCheck, CleanupUnlink
  <2> QED
    BY <1>1, <2>1, <2>2, Silent DEF AnswerInv
<1>3. ASSUME NEW i \in Instances, Leave(i)
      PROVE  AnswerInv'
  <2>1. /\ Goto(i, "accept", "check")
        /\ "accept" \in States /\ "check" \in States \ Busy
        /\ queue' = [queue EXCEPT ![i] = <<>>]
        /\ Tell(Waiting(i), "closed") /\ "closed" \in Results \ {"none"}
        /\ UNCHANGED <<call, creds, kind>>
    BY <1>3 DEF Leave, States, Serving, Busy, Results, Statuses
  <2>2. Placed' /\ Admitted' /\ \A j \in Instances :
           Ahead(j)' \subseteq Ahead(j) /\ Waiting(i) \intersect Ahead(j)' = {}
    BY <1>0, <1>1, <2>1
  <2>3. Fresh' /\ Untouched' /\ RepliesAreTrue' /\ AnswersAreTrue'
    BY <2>1, <2>2, Told
  <2> QED
    BY <2>2, <2>3 DEF AnswerInv
<1>4. ASSUME NEW i \in Instances, Crash(i)
      PROVE  AnswerInv'
  <2>1. /\ Goto(i, pc[i], "gone")
        /\ pc[i] \in States /\ "gone" \in States \ Busy
        /\ queue' = [queue EXCEPT ![i] = <<>>]
        /\ Tell(Waiting(i) \union {peer[i]}, "closed") /\ "closed" \in Results \ {"none"}
        /\ UNCHANGED <<call, creds, kind>>
    BY <1>0, <1>4 DEF Crash, States, Serving, Busy, Results, Statuses, TypeOK
  <2>2. /\ Placed' /\ Admitted'
        /\ \A j \in Instances : Ahead(j)' \subseteq Ahead(j) /\ Ahead(j)' \intersect Ahead(i) = {}
    BY <1>1, <2>1
  <2>3. \A j \in Instances : (Waiting(i) \union {peer[i]}) \intersect Ahead(j)' = {}
    <3>1. peer[i] = Nobody \/ peer[i] \in Ahead(i)
      BY DEF Ahead
    <3>2. \A j \in Instances : Nobody \notin Ahead(j)'
      BY <1>0, <2>2, HelperAssumption
    <3> QED
      BY <1>0, <2>2, <3>1, <3>2
  <2>4. Fresh' /\ Untouched' /\ RepliesAreTrue' /\ AnswersAreTrue'
    BY <2>1, <2>2, <2>3, Told
  <2> QED
    BY <2>2, <2>4 DEF AnswerInv
<1>5. ASSUME NEW i \in Instances, CrashInAnswer(i)
      PROVE  AnswerInv'
  <2>1. /\ Goto(i, "creds", "gone")
        /\ "creds" \in States /\ "gone" \in States \ Busy
        /\ queue' = [queue EXCEPT ![i] = <<>>]
        /\ UNCHANGED <<call, creds, kind>>
    BY <1>5 DEF CrashInAnswer, States, Serving, Busy
  <2>2. /\ Placed' /\ Admitted'
        /\ \A j \in Instances : Ahead(j)' \subseteq Ahead(j) /\ Ahead(j)' \intersect Ahead(i) = {}
    BY <1>1, <2>1
  <2>3. \A c \in Clients : \/ reply'[c] = reply[c]
                           \/ c \in Ahead(i) /\ call[c] \in Ongoing /\ reply'[c] \in {"closed", "cut"}
    <3>1. ASSUME NEW c \in Clients
          PROVE  \/ reply'[c] = reply[c]
                 \/ /\ c \in Waiting(i) \/ c = peer[i]
                    /\ call[c] \in Ongoing /\ reply'[c] \in {"closed", "cut"}
      BY <1>5 DEF CrashInAnswer
    <3> QED
      BY <3>1, HelperAssumption DEF Ahead
  <2>4. Fresh'
    BY <1>0, <2>1, <2>2, <2>3 DEF AnswerInv, Fresh
  <2>5. Untouched' /\ RepliesAreTrue' /\ AnswersAreTrue'
    BY <2>1, <2>3 DEF AnswerInv, Untouched, Ongoing, RepliesAreTrue, AnswersAreTrue
  <2> QED
    BY <2>2, <2>4, <2>5 DEF AnswerInv
<1>6. ASSUME NEW i \in Instances, Accept(i)
      PROVE  AnswerInv'
  <2> DEFINE h == Head(queue[i])
  <2>1. /\ queue[i] # <<>> /\ queue' = [queue EXCEPT ![i] = Tail(@)]
        /\ UNCHANGED <<call, creds, kind>>
        /\ "accept" \in States \ Busy
    BY <1>6 DEF Accept, States, Serving, Busy
  <2>2. h \in Clients
    BY <1>0, <2>1, QueueShortened
  <2>3. CASE kind[h] = "stranger" /\ Answer(i, h, "UNAUTHORIZED")
    <3>1. /\ pc' = [pc EXCEPT ![i] = "accept"] /\ peer' = [peer EXCEPT ![i] = Nobody]
          /\ Tell({h}, "UNAUTHORIZED") /\ "UNAUTHORIZED" \in Results \ {"none"}
      BY <2>3 DEF Answer, Results, Statuses
    <3>2. Placed' /\ \A j \in Instances : Ahead(j)' \subseteq Ahead(j) /\ h \notin Ahead(j)'
      BY <1>0, <2>1, <3>1, HeadTaken
    <3>3. Admitted'
      BY <1>0, <2>1, <3>1, AdmittedKept
    <3>4. Fresh' /\ Untouched' /\ RepliesAreTrue' /\ AnswersAreTrue'
      BY <2>1, <2>3, <3>1, <3>2, Told
    <3> QED
      BY <3>2, <3>3, <3>4 DEF AnswerInv
  <2>4. CASE kind[h] # "stranger" /\ Proceed(i, h, "read", IoTimeout)
    <3>1. /\ pc' = [pc EXCEPT ![i] = "read"] /\ peer' = [peer EXCEPT ![i] = h]
          /\ UNCHANGED reply
      BY <2>4 DEF Proceed
    <3>2. Placed' /\ \A j \in Instances : Ahead(j)' \subseteq Ahead(j)
      BY <1>0, <2>1, <3>1, HeadTaken
    <3>3. Admitted'
      BY <1>0, <2>1, <2>2, <2>4, <3>1 DEF Admitted, TypeOK
    <3> QED
      BY <2>1, <3>1, <3>2, <3>3, Silent DEF AnswerInv
  <2> QED
    BY <1>6, <2>3, <2>4 DEF Accept
<1>7. ASSUME NEW i \in Instances, ReadRequest(i)
      PROVE  AnswerInv'
  <2>1. /\ pc[i] = "read" /\ UNCHANGED <<queue, call, creds, kind>>
        /\ peer[i] \in Clients /\ kind[peer[i]] \in Kinds \ {"stranger"}
        /\ "accept" \in States \ Busy
    BY <1>0, <1>7, HelperAssumption DEF ReadRequest, Admitted, TypeOK, States, Serving, Busy
  <2>2. ASSUME NEW status \in {"INVALID_REQUEST", "closed"}, Answer(i, peer[i], status)
        PROVE  AnswerInv'
    <3>1. /\ pc' = [pc EXCEPT ![i] = "accept"] /\ peer' = [peer EXCEPT ![i] = Nobody]
          /\ Tell({peer[i]}, status) /\ status \in Results \ {"none"}
      BY <2>2 DEF Answer, Results, Statuses
    <3>2. Placed' /\ \A j \in Instances : Ahead(j)' \subseteq Ahead(j) /\ peer[i] \notin Ahead(j)'
      BY <1>0, <2>1, <3>1, PeerDropped
    <3>3. Admitted'
      BY <1>0, <2>1, <3>1, AdmittedKept
    <3>4. Fresh' /\ Untouched' /\ RepliesAreTrue' /\ AnswersAreTrue'
      BY <2>1, <2>2, <3>1, <3>2, Told
    <3> QED
      BY <3>2, <3>3, <3>4 DEF AnswerInv
  <2>3. CASE kind[peer[i]] # "garbled" /\ Proceed(i, peer[i], "creds", CredsTimeout)
    <3>1. /\ pc' = [pc EXCEPT ![i] = "creds"] /\ peer' = peer /\ UNCHANGED reply
      BY <1>0, <2>3 DEF Proceed, TypeOK
    <3>2. \A j \in Instances : Ahead(j)' = Ahead(j) /\ Waiting(j)' = Waiting(j)
      BY <2>1, <3>1 DEF Ahead, Waiting
    <3>3. Placed'
      BY <1>0, <2>1, <3>1, <3>2 DEF Placed
    <3>4. Admitted'
      BY <1>0, <2>1, <2>3, <3>1 DEF Admitted, TypeOK, Kinds
    <3> QED
      BY <2>1, <3>1, <3>2, <3>3, <3>4, Silent DEF AnswerInv
  <2> QED
    BY <1>7, <2>2, <2>3 DEF ReadRequest
<1>8. ASSUME NEW i \in Instances, RunCreds(i)
      PROVE  AnswerInv'
  <2>1. PICK result \in {"done", "failed"}, status \in Statuses :
            /\ CredsSays(i, result, status)
            /\ status = "OK" => result = "done"
            /\ status = "CRYPTO_ERROR" => result = "failed"
            /\ status # "UNAUTHORIZED"
    BY <1>8 DEF RunCreds, Statuses
  <2> DEFINE p == peer[i]
  <2>2. /\ pc[i] = "creds" /\ UNCHANGED <<queue, call, kind>>
        /\ p \in Clients /\ kind[p] = "provider"
        /\ "accept" \in States \ Busy
    BY <1>0, <1>8 DEF RunCreds, Admitted, States, Serving, Busy
  <2>3. /\ pc' = [pc EXCEPT ![i] = "accept"] /\ peer' = [peer EXCEPT ![i] = Nobody]
        /\ \A c \in Clients : /\ creds'[c] = IF c = p THEN result ELSE creds[c]
                              /\ c # p \/ call[c] \notin Ongoing => reply'[c] = reply[c]
                              /\ c = p => reply'[c] \in {reply[c], status}
    BY <1>0, <2>1, <2>2 DEF CredsSays, Answer, Tell, TypeOK
  <2>4. Placed' /\ \A j \in Instances : Ahead(j)' \subseteq Ahead(j) /\ p \notin Ahead(j)'
    BY <1>0, <2>2, <2>3, PeerDropped
  <2>5. reply[p] = "none" /\ creds[p] = "none" /\ call[p] \in Sent \union {"open", "died"}
    BY <2>2, HelperAssumption DEF AnswerInv, Fresh, Ahead
  <2>6. Admitted'
    BY <1>0, <2>2, <2>3, AdmittedKept
  <2>7. Fresh'
    BY <1>0, <2>2, <2>3, <2>4 DEF AnswerInv, Fresh
  <2>8. Untouched'
    BY <2>2, <2>3, <2>5 DEF AnswerInv, Untouched, Sent
  <2>9. RepliesAreTrue'
    BY <2>1, <2>2, <2>3, <2>5 DEF AnswerInv, RepliesAreTrue
  <2>10. AnswersAreTrue'
    BY <2>2, <2>3, <2>5 DEF AnswerInv, AnswersAreTrue, Sent
  <2> QED
    BY <2>4, <2>6, <2>7, <2>8, <2>9, <2>10 DEF AnswerInv
<1>9. ASSUME NEW c \in Clients, Connect(c), Reachable,
             call' = [call EXCEPT ![c] = "open"],
             queue' = [queue EXCEPT ![path] = Append(@, c)],
             UNCHANGED reply
      PROVE  AnswerInv'
  <2>1. path \in Instances /\ UNCHANGED <<pc, peer, path, creds, kind>> /\ call[c] = "idle"
    BY <1>0, <1>9, HelperAssumption DEF Reachable, Connect, TypeOK, Instances
  <2>2. /\ reply[c] = "none" /\ creds[c] = "none"
        /\ \A j \in Instances : c \notin Ahead(j)
    BY <1>0, <2>1 DEF AnswerInv, Fresh, Untouched, Sent
  <2>3. PICK n \in Nat : n = Len(queue[path])
    BY <1>0, <2>1 DEF TypeOK
  <2>4. /\ DOMAIN queue[path] = 1..n
        /\ DOMAIN queue'[path] = 1..(n + 1)
        /\ queue'[path][n + 1] = c
        /\ \A m \in 1..n : queue'[path][m] = queue[path][m]
        /\ \A j \in Instances : j # path => queue'[j] = queue[j]
    BY <1>0, <1>9, <2>1, <2>3 DEF TypeOK
  <2>5. \A m \in 1..n : queue[path][m] # c
    BY <1>0, <2>1, <2>2, <2>4 DEF Waiting
  <2>6. \A j \in Instances : /\ Waiting(j)' = IF j = path THEN Waiting(j) \union {c} ELSE Waiting(j)
                             /\ Ahead(j)' = IF j = path THEN Ahead(j) \union {c} ELSE Ahead(j)
    <3>1. Waiting(path)' = Waiting(path) \union {c}
      BY <2>1, <2>3, <2>4 DEF Waiting
    <3>2. \A j \in Instances : j # path => Waiting(j)' = Waiting(j)
      BY <2>4 DEF Waiting
    <3> QED
      BY <2>1, <3>1, <3>2 DEF Ahead
  <2>7. Placed'
    <3>1. \A j \in Instances : \A k, m \in DOMAIN queue'[j] : queue'[j][k] = queue'[j][m] => k = m
      BY <1>0, <2>1, <2>3, <2>4, <2>5 DEF Placed
    <3>2. \A j \in Instances : peer'[j] \notin Waiting(j)'
      BY <1>0, <2>1, <2>2, <2>6, HelperAssumption DEF Placed, Ahead
    <3>3. \A j, k \in Instances : j # k => Ahead(j)' \intersect Ahead(k)' = {}
      BY <1>0, <2>1, <2>2, <2>6 DEF Placed
    <3> QED
      BY <3>1, <3>2, <3>3 DEF Placed
  <2>8. Fresh'
    <3>1. \A d \in Clients : call'[d] = IF d = c THEN "open" ELSE call[d]
      BY <1>0, <1>9 DEF TypeOK
    <3> QED
      BY <1>0, <1>9, <2>1, <2>2, <2>6, <3>1 DEF AnswerInv, Fresh
  <2>9. Admitted'
    BY <1>0, <2>1 DEF Admitted
  <2>10. Untouched' /\ RepliesAreTrue' /\ AnswersAreTrue'
    BY <1>0, <1>9, <2>1 DEF AnswerInv, Untouched, RepliesAreTrue, AnswersAreTrue, TypeOK
  <2> QED
    BY <2>7, <2>8, <2>9, <2>10 DEF AnswerInv
<1>10. ASSUME NEW c \in Clients, Connect(c), Becomes(c, "broken"), UNCHANGED queue
       PROVE  AnswerInv'
  <2>1. \A j \in Instances : c \notin Ahead(j)
    BY <1>10 DEF Connect, AnswerInv, Fresh, Sent
  <2> QED
    BY <1>10, <2>1, ClientStep DEF Connect, Becomes, AnswerInv, Ended
<1>11. ASSUME NEW c \in Clients, Send(c)
       PROVE  AnswerInv'
  <2>1. CASE reply[c] = "none" /\ call' = [call EXCEPT ![c] = "waiting"] /\ UNCHANGED reply
    <3>1. reply' = [reply EXCEPT ![c] = "none"]
      BY <1>0, <2>1 DEF TypeOK
    <3> QED
      BY <1>11, <2>1, <3>1, ClientStep DEF Send, AnswerInv, Ongoing, Sent
  <2>2. CASE reply[c] # "none" /\ Becomes(c, "broken")
    <3>1. \A j \in Instances : c \notin Ahead(j)
      BY <2>2 DEF AnswerInv, Fresh
    <3> QED
      BY <1>11, <2>2, <3>1, ClientStep DEF Send, Becomes, AnswerInv, Ended
  <2> QED
    BY <1>11, <2>1, <2>2 DEF Send
<1>12. ASSUME NEW c \in Clients, Receive(c)
       PROVE  AnswerInv'
  <2>1. CASE reply[c] # "none" /\ Becomes(c, Outcome(reply[c]))
    <3>1. \A j \in Instances : c \notin Ahead(j)
      BY <2>1 DEF AnswerInv, Fresh
    <3>2. PICK state \in Ended : state = Outcome(reply[c])
      BY DEF Outcome, Ended
    <3>3. /\ state = "ok" => reply[c] = "OK"
          /\ state = "failed" => reply[c] = "CRYPTO_ERROR"
          /\ state = "denied" => reply[c] = "UNAUTHORIZED"
      BY <1>0, <3>2 DEF Outcome, TypeOK, Statuses
    <3>4. /\ state = "ok" => kind[c] = "provider" /\ creds[c] = "done"
          /\ state = "failed" => creds[c] = "failed"
          /\ state = "denied" => kind[c] = "stranger"
      BY <3>3 DEF AnswerInv, RepliesAreTrue
    <3> QED
      BY <1>12, <2>1, <3>1, <3>2, <3>4, ClientStep DEF Receive, Becomes, AnswerInv
  <2>2. CASE Becomes(c, "timeout")
    BY <1>12, <2>2, ClientStep DEF Receive, Becomes, AnswerInv, Ended, Sent
  <2> QED
    BY <1>12, <2>1, <2>2 DEF Receive
<1>13. ASSUME NEW c \in Clients, Die(c)
       PROVE  AnswerInv'
  <2>1. PICK state \in {"died", "abandoned"} : Becomes(c, state)
    BY <1>13 DEF Die
  <2> QED
    BY <1>13, <2>1, ClientStep DEF Die, Becomes, AnswerInv, Ended, Sent
<1>14. CASE Tick \/ UNCHANGED vars
  <2>1. UNCHANGED <<pc, queue, peer, call, reply, creds, kind>>
    BY <1>14 DEF Tick, vars
  <2>2. \A j \in Instances : Ahead(j)' = Ahead(j) /\ Waiting(j)' = Waiting(j)
    BY <2>1 DEF Ahead, Waiting
  <2>3. Placed' /\ Admitted'
    BY <1>0, <2>1, <2>2 DEF Placed, Admitted
  <2> QED
    BY <2>1, <2>2, <2>3, Silent DEF AnswerInv
<1> QED
  BY <1>2, <1>3, <1>4, <1>5, <1>6, <1>7, <1>8, <1>9, <1>10, <1>11, <1>12, <1>13, <1>14
     DEF Next, Serve, Connect

LEMMA InitAnswers == Init => AnswerInv
<1> SUFFICES ASSUME Init PROVE AnswerInv
  OBVIOUS
<1>1. \A i \in Instances : /\ queue[i] = <<>> /\ peer[i] = Nobody /\ DOMAIN queue[i] = {}
                           /\ Ahead(i) = {} /\ Waiting(i) = {}
  BY DEF Init, Ahead, Waiting
<1>2. TypeOK
  BY InitTyped
<1>3. Placed /\ Fresh /\ Admitted
  BY <1>1, HelperAssumption DEF Placed, Fresh, Admitted, Init
<1>4. Untouched /\ RepliesAreTrue /\ AnswersAreTrue
  BY DEF Untouched, RepliesAreTrue, AnswersAreTrue, Init
<1> QED
  BY <1>2, <1>3, <1>4 DEF AnswerInv

(* A provider that gets a result got the whole output of a systemd-creds   *)
(* run that succeeded for it, and every other answer has its cause,        *)
(* whatever helpers are killed or replaced in the middle of an answer.     *)
THEOREM AnswersTrue == Spec => []AnswersAreTrue
<1>1. AnswerInv /\ [Next]_vars => AnswerInv'
  BY StepTyped, StepAnswers DEF AnswerInv
<1>2. AnswerInv => AnswersAreTrue
  BY DEF AnswerInv
<1> QED
  BY InitAnswers, <1>1, <1>2, PTL DEF Spec

-----------------------------------------------------------------------------
(* The timeouts.                                                           *)

(* A client that a helper is about to serve does not care what others do.  *)
LEMMA AttendedKept ==
    ASSUME TypeOK, NEW c \in Clients, NEW i \in Instances, Attended(c, i),
           pc'[i] = pc[i], queue'[i] = queue[i], peer'[i] = peer[i], limit'[i] = limit[i],
           kind' = kind, call'[c] = call[c], left'[c] = left[c]
    PROVE  Attended(c, i)'
  BY DEF Attended, InFront, Unhurried

(* The step of a helper j that tells those it lets go of something.        *)
LEMMA HelperKeeps ==
    ASSUME PromptInv, NEW j \in Instances,
           UNCHANGED <<kind, call, left, behind>>,
           \A i \in Instances \ {j} : /\ pc'[i] = pc[i] /\ queue'[i] = queue[i]
                                      /\ peer'[i] = peer[i] /\ limit'[i] = limit[i],
           \A c \in Clients : reply'[c] = "none" => reply[c] = "none",
           \A c \in Clients : Pending(c) /\ Attended(c, j) /\ reply'[c] = "none" => Attended(c, j)'
    PROVE  Prompt' /\ TimeoutNeedsQueue'
<1>1. ASSUME NEW c \in Clients, Pending(c)', ~behind'[c]
      PROVE  \E i \in Instances : Attended(c, i)'
  <2>1. Pending(c) /\ ~behind[c] /\ reply'[c] = "none"
    BY <1>1 DEF Pending
  <2>2. PICK i \in Instances : Attended(c, i)
    BY <2>1 DEF PromptInv, Prompt
  <2>3. CASE i = j
    BY <2>1, <2>2, <2>3
  <2>4. CASE i # j
    BY <2>2, <2>4, AttendedKept DEF PromptInv, AnswerInv
  <2> QED
    BY <2>3, <2>4
<1>2. TimeoutNeedsQueue'
  BY DEF PromptInv, TimeoutNeedsQueue
<1> QED
  BY <1>1, <1>2 DEF Prompt

(* The step of a client c that is not pending after it.                    *)
LEMMA ClientGone ==
    ASSUME PromptInv, NEW c \in Clients, NEW state \in Ended, Becomes(c, state),
           UNCHANGED <<kind, pc, queue, peer, limit, behind>>,
           state = "timeout" => behind[c]
    PROVE  Prompt' /\ TimeoutNeedsQueue'
<1>1. \A d \in Clients : /\ d # c => call'[d] = call[d] /\ left'[d] = left[d] /\ reply'[d] = reply[d]
                         /\ call'[c] = state
  BY DEF PromptInv, AnswerInv, TypeOK, Becomes
<1>2. ASSUME NEW d \in Clients, Pending(d)', ~behind'[d]
      PROVE  \E i \in Instances : Attended(d, i)'
  <2>1. d # c
    BY <1>1, <1>2 DEF Pending, Ended, Ongoing
  <2>2. Pending(d) /\ ~behind[d]
    BY <1>1, <1>2, <2>1 DEF Pending
  <2>3. PICK i \in Instances : Attended(d, i)
    BY <2>2 DEF PromptInv, Prompt
  <2> QED
    BY <1>1, <2>1, <2>3, AttendedKept DEF PromptInv, AnswerInv
<1>3. TimeoutNeedsQueue'
  BY <1>1 DEF PromptInv, TimeoutNeedsQueue
<1> QED
  BY <1>2, <1>3 DEF Prompt

LEMMA StepPrompt == PromptInv /\ AnswerInv' /\ [Next]_vars => PromptInv'
<1> SUFFICES ASSUME PromptInv, AnswerInv', [Next]_vars
             PROVE  Prompt' /\ TimeoutNeedsQueue'
  BY DEF PromptInv
<1> USE DEF helper, client, past
<1>0. TypeOK /\ Placed /\ Admitted /\ Prompt /\ TimeoutNeedsQueue
  BY DEF PromptInv, AnswerInv
(* A helper attends to nobody outside its loop.                            *)
<1>1. ASSUME NEW j \in Instances, NEW from, NEW to, Goto(j, from, to), from \notin Serving,
             UNCHANGED <<kind, call, left, behind, queue, reply>>
      PROVE  Prompt' /\ TimeoutNeedsQueue'
  <2>1. \A i \in Instances \ {j} : /\ pc'[i] = pc[i] /\ queue'[i] = queue[i]
                                   /\ peer'[i] = peer[i] /\ limit'[i] = limit[i]
    BY <1>0, <1>1 DEF Goto, TypeOK
  <2>2. \A c \in Clients : ~Attended(c, j)
    BY <1>1 DEF Goto, Attended, InFront, Serving, Busy
  <2> QED
    BY <1>1, <2>1, <2>2, HelperKeeps
<1>2. ASSUME NEW j \in Instances, Start(j) \/ Bind(j) \/ Listen(j) \/ CleanupCheck(j) \/ CleanupUnlink(j)
      PROVE  Prompt' /\ TimeoutNeedsQueue'
  <2>1. PICK from \in {"off", "bind", "mark", "check", "unlink"}, to \in States : Goto(j, from, to)
    BY <1>2 DEF Start, Bind, Listen, CleanupCheck, CleanupUnlink, States, Serving
  <2>2. UNCHANGED <<kind, call, left, behind, queue, reply>>
    BY <1>2 DEF Start, Bind, Listen, CleanupCheck, CleanupUnlink
  <2> QED
    BY <1>1, <2>1, <2>2 DEF Serving, Busy
(* Whoever a helper attends to hears that it stops.                        *)
<1>3. ASSUME NEW j \in Instances, NEW from, Goto(j, from, "gone") \/ Goto(j, from, "check"),
             queue' = [queue EXCEPT ![j] = <<>>],
             UNCHANGED <<kind, call, left, behind>>,
             \A c \in Clients : /\ reply'[c] \in {reply[c], "closed", "cut"}
                                /\ call[c] \in Ongoing /\ Attended(c, j) => reply'[c] # "none"
      PROVE  Prompt' /\ TimeoutNeedsQueue'
  <2>1. \A i \in Instances \ {j} : /\ pc'[i] = pc[i] /\ queue'[i] = queue[i]
                                   /\ peer'[i] = peer[i] /\ limit'[i] = limit[i]
    BY <1>0, <1>3 DEF Goto, TypeOK
  <2> QED
    BY <1>3, <2>1, HelperKeeps DEF Pending
<1>4. ASSUME NEW j \in Instances, Leave(j)
      PROVE  Prompt' /\ TimeoutNeedsQueue'
  <2>1. \A c \in Clients : reply'[c] = IF c \in Waiting(j) /\ call[c] \in Ongoing
                                       THEN "closed" ELSE reply[c]
    BY <1>4 DEF Leave, Tell
  <2>2. \A c \in Clients : Attended(c, j) => c \in Waiting(j)
    BY <1>4 DEF Leave, Goto, Attended, InFront, Waiting
  <2> QED
    BY <1>3, <1>4, <2>1, <2>2 DEF Leave
<1>5. ASSUME NEW j \in Instances, Crash(j)
      PROVE  Prompt' /\ TimeoutNeedsQueue'
  <2>1. \A c \in Clients : reply'[c] = IF c \in Waiting(j) \union {peer[j]} /\ call[c] \in Ongoing
                                       THEN "closed" ELSE reply[c]
    BY <1>5 DEF Crash, Tell
  <2>2. \A c \in Clients : Attended(c, j) => c \in Waiting(j) \union {peer[j]}
    BY DEF Attended, InFront, Waiting
  <2> QED
    BY <1>3, <1>5, <2>1, <2>2 DEF Crash
<1>6. ASSUME NEW j \in Instances, CrashInAnswer(j)
      PROVE  Prompt' /\ TimeoutNeedsQueue'
  <2>1. \A c \in Clients : Attended(c, j) => c = peer[j]
    BY <1>6 DEF CrashInAnswer, Goto, Attended, InFront
  <2>2. \A c \in Clients : /\ reply'[c] \in {reply[c], "closed", "cut"}
                           /\ call[c] \in Ongoing /\ c = peer[j] => reply'[c] # "none"
    BY <1>6 DEF CrashInAnswer
  <2> QED
    BY <1>3, <1>6, <2>1, <2>2 DEF CrashInAnswer
(* A helper that answers.                                                  *)
<1>7. ASSUME NEW j \in Instances, NEW c \in Clients, NEW status \in Results \ {"none"},
             Answer(j, c, status), UNCHANGED <<kind, call, left, behind>>,
             \A i \in Instances \ {j} : queue'[i] = queue[i],
             \A d \in Clients \ {c} : Attended(d, j) => Attended(d, j)'
      PROVE  Prompt' /\ TimeoutNeedsQueue'
  <2>1. \A i \in Instances \ {j} : /\ pc'[i] = pc[i] /\ queue'[i] = queue[i]
                                   /\ peer'[i] = peer[i] /\ limit'[i] = limit[i]
    BY <1>0, <1>7 DEF Answer, TypeOK
  <2>2. \A d \in Clients : reply'[d] = IF d = c /\ call[d] \in Ongoing THEN status ELSE reply[d]
    BY <1>7 DEF Answer, Tell
  <2> QED
    BY <1>7, <2>1, <2>2, HelperKeeps DEF Pending
<1>8. ASSUME NEW j \in Instances, Accept(j)
      PROVE  Prompt' /\ TimeoutNeedsQueue'
  <2> DEFINE h == Head(queue[j])
             q == queue[j]
  <2>1. PICK n \in Nat : n = Len(q)
    BY <1>0 DEF TypeOK
  <2>2. /\ pc[j] = "accept" /\ h \in Clients /\ h = q[1]
        /\ DOMAIN q = 1..n /\ DOMAIN queue'[j] = 1..(n - 1) /\ 1 <= n
        /\ \A m \in 1..(n - 1) : queue'[j][m] = q[m + 1]
        /\ \A i \in Instances \ {j} : queue'[i] = queue[i]
        /\ UNCHANGED <<kind, call, left, behind>>
    <3>1. q \in Seq(Clients) /\ q # <<>> /\ queue'[j] = Tail(q)
      BY <1>0, <1>8 DEF Accept, TypeOK
    <3>2. \A i \in Instances \ {j} : queue'[i] = queue[i]
      BY <1>0, <1>8 DEF Accept, TypeOK
    <3>3. /\ h \in Clients /\ h = q[1] /\ Len(queue'[j]) = n - 1 /\ 1 <= n
          /\ \A m \in 1..(n - 1) : queue'[j][m] = q[m + 1]
          /\ queue'[j] \in Seq(Clients)
      BY <2>1, <3>1, HeadTailProperties
    <3>4. DOMAIN q = 1..n /\ DOMAIN queue'[j] = 1..(n - 1)
      BY <2>1, <3>1, <3>3
    <3> QED
      BY <1>8, <3>2, <3>3, <3>4 DEF Accept
  <2> HIDE DEF h, q
  <2>3. CASE kind[h] = "stranger" /\ Answer(j, h, "UNAUTHORIZED")
    <3>1. ASSUME NEW d \in Clients \ {h}, Attended(d, j)
          PROVE  Attended(d, j)'
      <4>1. /\ Unhurried(d)
            /\ \E k \in 1..n : q[k] = d /\ \A m \in 1..(k - 1) : kind[q[m]] = "stranger"
        BY <2>2, <3>1 DEF Attended, InFront, q
      <4>2. PICK k \in 1..n : q[k] = d /\ \A m \in 1..(k - 1) : kind[q[m]] = "stranger"
        BY <4>1
      <4>3. k # 1 /\ k - 1 \in 1..(n - 1) /\ queue'[j][k - 1] = d
        BY <2>1, <2>2, <3>1, <4>2
      <4>4. \A m \in 1..((k - 1) - 1) : kind'[queue'[j][m]] = "stranger"
        BY <2>1, <2>2, <4>2
      <4>5. pc'[j] = "accept"
        BY <1>0, <2>3 DEF Answer, TypeOK
      <4>6. InFront(d, j)'
        BY <2>2, <4>3, <4>4, <4>5 DEF InFront
      <4> QED
        BY <2>2, <4>1, <4>6 DEF Attended, Unhurried
    <3>2. "UNAUTHORIZED" \in Results \ {"none"}
      BY DEF Results, Statuses
    <3> QED
      BY <1>7, <2>2, <2>3, <3>1, <3>2
  <2>4. CASE kind[h] # "stranger" /\ Proceed(j, h, "read", IoTimeout)
    <3>1. /\ pc'[j] = "read" /\ peer'[j] = h /\ reply' = reply
          /\ \A i \in Instances \ {j} : /\ pc'[i] = pc[i] /\ queue'[i] = queue[i]
                                        /\ peer'[i] = peer[i] /\ limit'[i] = limit[i]
      BY <1>0, <2>2, <2>4 DEF Proceed, TypeOK
    <3>2. ASSUME NEW d \in Clients, Attended(d, j)
          PROVE  Attended(d, j)'
      <4>1. /\ Unhurried(d)
            /\ \E k \in 1..n : q[k] = d /\ \A m \in 1..(k - 1) : kind[q[m]] = "stranger"
        BY <2>2, <3>2 DEF Attended, InFront, q
      <4>2. d = h
        BY <2>1, <2>2, <2>4, <4>1
      <4> QED
        BY <2>2, <3>1, <4>1, <4>2 DEF Attended, Unhurried
    <3> QED
      BY <2>2, <3>1, <3>2, HelperKeeps
  <2> QED
    BY <1>8, <2>3, <2>4 DEF Accept, h
<1>9. ASSUME NEW j \in Instances, ReadRequest(j)
      PROVE  Prompt' /\ TimeoutNeedsQueue'
  <2>1. /\ pc[j] = "read" /\ peer[j] \in Clients
        /\ UNCHANGED <<kind, call, left, behind, queue>>
        /\ \A d \in Clients : Attended(d, j) => d = peer[j] /\ Unhurried(d)
    BY <1>0, <1>9 DEF ReadRequest, Admitted, Attended, InFront
  <2>2. ASSUME NEW status \in {"INVALID_REQUEST", "closed"}, Answer(j, peer[j], status)
        PROVE  Prompt' /\ TimeoutNeedsQueue'
    BY <1>7, <2>1, <2>2 DEF Results, Statuses
  <2>3. CASE call[peer[j]] \in Sent /\ Proceed(j, peer[j], "creds", CredsTimeout)
    <3>1. /\ pc'[j] = "creds" /\ peer'[j] = peer[j] /\ limit'[j] = CredsTimeout /\ reply' = reply
          /\ \A i \in Instances \ {j} : /\ pc'[i] = pc[i] /\ queue'[i] = queue[i]
                                        /\ peer'[i] = peer[i] /\ limit'[i] = limit[i]
      BY <1>0, <2>1, <2>3 DEF Proceed, TypeOK
    <3>2. ASSUME NEW d \in Clients, Pending(d), Attended(d, j)
          PROVE  Attended(d, j)'
      <4>1. d = peer[j] /\ call[d] = "waiting" /\ left[d] = CallTimeout
        BY <2>1, <2>3, <3>2 DEF Pending, Ongoing, Sent, Unhurried
      <4>2. CallTimeout >= CredsTimeout + (CallTimeout - CredsTimeout)
        BY HelperAssumption
      <4> QED
        BY <2>1, <3>1, <4>1, <4>2 DEF Attended
    <3> QED
      BY <2>1, <3>1, <3>2, HelperKeeps
  <2> QED
    BY <1>9, <2>2, <2>3 DEF ReadRequest
<1>10. ASSUME NEW j \in Instances, RunCreds(j)
       PROVE  Prompt' /\ TimeoutNeedsQueue'
  <2>1. /\ pc[j] = "creds" /\ peer[j] \in Clients
        /\ UNCHANGED <<kind, call, left, behind, queue>>
        /\ \A d \in Clients : Attended(d, j) => d = peer[j]
    BY <1>0, <1>10 DEF RunCreds, Admitted, Attended, InFront
  <2>2. PICK status \in Statuses : Answer(j, peer[j], status)
    BY <1>10 DEF RunCreds, CredsSays, Statuses
  <2> QED
    BY <1>7, <2>1, <2>2 DEF Results, Statuses
<1>11. ASSUME NEW c \in Clients, Connect(c), Reachable,
              call' = [call EXCEPT ![c] = "open"],
              queue' = [queue EXCEPT ![path] = Append(@, c)],
              behind' = [behind EXCEPT ![c] = \E d \in Ahead(path) : kind[d] # "stranger"],
              UNCHANGED <<left, reply>>
       PROVE  Prompt' /\ TimeoutNeedsQueue'
  <2>1. /\ path \in Instances /\ call[c] = "idle" /\ pc[path] \in Serving
        /\ UNCHANGED <<pc, mark, limit, peer, path, kind, left, reply>>
    BY <1>0, <1>11, HelperAssumption DEF Reachable, Connect, TypeOK, Instances
  <2>2. PICK n \in Nat : n = Len(queue[path])
    BY <1>0, <2>1 DEF TypeOK
  <2>3. /\ DOMAIN queue[path] = 1..n /\ DOMAIN queue'[path] = 1..(n + 1)
        /\ queue'[path][n + 1] = c
        /\ \A m \in 1..n : queue'[path][m] = queue[path][m]
        /\ \A i \in Instances \ {path} : queue'[i] = queue[i]
    BY <1>0, <1>11, <2>1, <2>2 DEF TypeOK
  <2>4. \A d \in Clients : /\ call'[d] = IF d = c THEN "open" ELSE call[d]
                           /\ behind'[d] = IF d = c THEN \E e \in Ahead(path) : kind[e] # "stranger"
                                                    ELSE behind[d]
    BY <1>0, <1>11 DEF TypeOK
  <2>5. ASSUME ~behind'[c]
        PROVE  Attended(c, path)'
    <3>1. \A e \in Ahead(path) : kind[e] = "stranger"
      BY <2>4, <2>5
    <3>2. pc[path] = "accept"
      BY <1>0, <2>1, <3>1, HelperAssumption DEF Admitted, Ahead, Serving, Busy
    <3>3. \A m \in 1..n : kind'[queue'[path][m]] = "stranger"
      BY <2>1, <2>3, <3>1 DEF Ahead, Waiting
    <3>4. n + 1 \in 1..(n + 1) /\ 1..((n + 1) - 1) = 1..n
      BY <2>2
    <3>5. InFront(c, path)'
      BY <2>1, <2>3, <3>2, <3>3, <3>4 DEF InFront
    <3> QED
      BY <2>4, <3>5 DEF Attended, Unhurried
  <2>6. ASSUME NEW d \in Clients \ {c}, NEW i \in Instances, Attended(d, i)
        PROVE  Attended(d, i)'
    <3>1. CASE i # path
      BY <1>0, <2>1, <2>3, <2>4, <2>6, <3>1, AttendedKept
    <3>2. CASE i = path /\ InFront(d, path) /\ Unhurried(d)
      <4>1. PICK k \in 1..n : queue[path][k] = d /\ \A m \in 1..(k - 1) : kind[queue[path][m]] = "stranger"
        BY <2>3, <3>2 DEF InFront
      <4>2. /\ k \in 1..(n + 1) /\ queue'[path][k] = d
            /\ \A m \in 1..(k - 1) : kind'[queue'[path][m]] = "stranger"
        BY <2>1, <2>2, <2>3, <4>1
      <4>3. InFront(d, path)'
        BY <2>1, <2>3, <3>2, <4>2 DEF InFront
      <4> QED
        BY <2>1, <2>4, <3>2, <4>3 DEF Attended, Unhurried
    <3>3. CASE i = path /\ pc[path] # "accept"
      BY <2>1, <2>4, <2>6, <3>3 DEF Attended, InFront, Unhurried
    <3> QED
      BY <2>6, <3>1, <3>2, <3>3 DEF Attended, InFront
  <2>7. ASSUME NEW d \in Clients, Pending(d)', ~behind'[d]
        PROVE  \E i \in Instances : Attended(d, i)'
    <3>1. CASE d = c
      BY <2>1, <2>5, <2>7, <3>1
    <3>2. CASE d # c
      BY <1>0, <2>1, <2>4, <2>6, <2>7, <3>2 DEF Pending, Prompt
    <3> QED
      BY <3>1, <3>2
  <2>8. TimeoutNeedsQueue'
    BY <1>0, <2>4 DEF TimeoutNeedsQueue
  <2> QED
    BY <2>7, <2>8 DEF Prompt
<1>12. ASSUME NEW c \in Clients, Send(c), reply[c] = "none",
              call' = [call EXCEPT ![c] = "waiting"],
              left' = [left EXCEPT ![c] = CallTimeout],
              UNCHANGED reply
       PROVE  Prompt' /\ TimeoutNeedsQueue'
  <2>1. /\ UNCHANGED <<kind, pc, queue, peer, limit, behind>> /\ call[c] = "open"
        /\ \A d \in Clients : /\ call'[d] = IF d = c THEN "waiting" ELSE call[d]
                              /\ left'[d] = IF d = c THEN CallTimeout ELSE left[d]
    BY <1>0, <1>12 DEF Send, TypeOK
  <2>2. ASSUME NEW d \in Clients, NEW i \in Instances, Attended(d, i)
        PROVE  Attended(d, i)'
    <3>1. CASE d = c
      BY <2>1, <2>2, <3>1 DEF Attended, InFront, Unhurried
    <3>2. CASE d # c
      BY <1>0, <2>1, <2>2, <3>2, AttendedKept
    <3> QED
      BY <3>1, <3>2
  <2>3. \A d \in Clients : Pending(d)' => Pending(d)
    BY <1>12, <2>1 DEF Pending, Ongoing
  <2>4. TimeoutNeedsQueue'
    BY <1>0, <2>1 DEF TimeoutNeedsQueue
  <2> QED
    BY <1>0, <2>1, <2>2, <2>3, <2>4 DEF Prompt
<1>13. ASSUME NEW c \in Clients, Receive(c)
       PROVE  Prompt' /\ TimeoutNeedsQueue'
  <2>1. UNCHANGED <<kind, pc, queue, peer, limit, behind>> /\ call[c] = "waiting"
    BY <1>13 DEF Receive
  <2>2. CASE Becomes(c, Outcome(reply[c]))
    <3>1. PICK state \in Ended \ {"timeout"} : state = Outcome(reply[c])
      BY DEF Outcome, Ended
    <3> QED
      BY <2>1, <2>2, <3>1, ClientGone
  <2>3. CASE reply[c] = "none" /\ left[c] = 0 /\ Becomes(c, "timeout")
    <3>1. ASSUME ~behind[c]
          PROVE  FALSE
      <4>1. PICK i \in Instances : Attended(c, i)
        BY <1>0, <2>1, <2>3, <3>1 DEF Prompt, Pending, Ongoing
      <4>2. limit[i] \in Nat
        BY <1>0 DEF TypeOK
      <4> QED
        BY <2>1, <2>3, <4>1, <4>2, HelperAssumption DEF Attended, Unhurried
    <3> QED
      BY <2>1, <2>3, <3>1, ClientGone DEF Ended
  <2> QED
    BY <1>13, <2>2, <2>3 DEF Receive
<1>14. ASSUME NEW c \in Clients, NEW state \in Ended \ {"timeout"}, Becomes(c, state),
              UNCHANGED <<kind, pc, queue, peer, limit, behind>>
       PROVE  Prompt' /\ TimeoutNeedsQueue'
  BY <1>14, ClientGone
<1>15. ASSUME NEW c \in Clients, Connect(c) \/ Send(c) \/ Die(c)
       PROVE  Prompt' /\ TimeoutNeedsQueue'
  <2>1. {"broken", "died", "abandoned"} \subseteq Ended \ {"timeout"}
    BY DEF Ended
  <2>2. CASE Connect(c)
    BY <1>11, <1>14, <2>1, <2>2 DEF Connect
  <2>3. CASE Send(c)
    BY <1>12, <1>14, <2>1, <2>3 DEF Send
  <2>4. CASE Die(c)
    BY <1>14, <2>1, <2>4 DEF Die
  <2> QED
    BY <1>15, <2>2, <2>3, <2>4
(* Time passes for the first in line only while systemd-creds runs for it. *)
<1>16. CASE Tick
  <2>1. UNCHANGED <<kind, pc, queue, peer, call, reply, behind>>
    BY <1>16 DEF Tick
  <2>2. ASSUME NEW c \in Clients, NEW i \in Instances, Pending(c), Attended(c, i)
        PROVE  Attended(c, i)'
    <3>1. /\ ~CanActAtOnce(i)
          /\ limit'[i] = Minus1(limit[i])
          /\ call[c] = "waiting" => left[c] > 0 /\ left'[c] = Minus1(left[c])
      BY <1>16 DEF Tick
    <3>2. limit[i] \in Nat /\ left[c] \in Nat
      BY <1>0 DEF TypeOK
    <3>3. ~InFront(c, i)
      <4>1. InFront(c, i) => queue[i] # <<>>
        BY DEF InFront
      <4> QED
        BY <3>1, <4>1 DEF InFront, CanActAtOnce
    <3>4. CASE pc[i] = "read" /\ peer[i] = c
      <4>1. call[c] = "open"
        BY <3>1, <3>4 DEF CanActAtOnce
      <4> QED
        BY <2>1, <3>4, <4>1 DEF Attended, Unhurried
    <3>5. CASE /\ pc[i] = "creds" /\ peer[i] = c /\ call[c] = "waiting"
               /\ left[c] >= limit[i] + (CallTimeout - CredsTimeout)
      <4>1. limit[i] # 0
        BY <3>1, <3>5 DEF CanActAtOnce, Busy
      <4>2. left'[c] >= limit'[i] + (CallTimeout - CredsTimeout)
        BY <3>1, <3>2, <3>5, <4>1, HelperAssumption DEF Minus1
      <4> QED
        BY <2>1, <3>5, <4>2 DEF Attended
    <3> QED
      BY <2>2, <3>3, <3>4, <3>5 DEF Attended
  <2>3. \A c \in Clients : Pending(c)' => Pending(c)
    BY <2>1 DEF Pending
  <2>4. TimeoutNeedsQueue'
    BY <1>0, <2>1 DEF TimeoutNeedsQueue
  <2> QED
    BY <1>0, <2>1, <2>2, <2>3, <2>4 DEF Prompt
<1>17. CASE UNCHANGED vars
  BY <1>0, <1>17 DEF vars, Prompt, Pending, Attended, InFront, Unhurried, TimeoutNeedsQueue
<1> QED
  BY <1>2, <1>4, <1>5, <1>6, <1>8, <1>9, <1>10, <1>13, <1>15, <1>16, <1>17 DEF Next, Serve

(* Only a caller that connected behind another authorized client can time  *)
(* out: a call that is served at once outlasts systemd-creds, and what     *)
(* strangers do costs it nothing.                                          *)
THEOREM TimeoutsNeedQueue == Spec => []TimeoutNeedsQueue
<1>1. Init => PromptInv
  <2> SUFFICES ASSUME Init PROVE PromptInv
    OBVIOUS
  <2>1. Prompt /\ TimeoutNeedsQueue
    BY DEF Init, Prompt, Pending, Ongoing, TimeoutNeedsQueue
  <2> QED
    BY <2>1, InitAnswers DEF PromptInv
<1>2. PromptInv /\ [Next]_vars => PromptInv'
  BY StepTyped, StepAnswers, StepPrompt DEF PromptInv, AnswerInv
<1>3. PromptInv => TimeoutNeedsQueue
  BY DEF PromptInv
<1> QED
  BY <1>1, <1>2, <1>3, PTL DEF Spec
=============================================================================
