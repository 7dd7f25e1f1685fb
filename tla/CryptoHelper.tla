----------------------------- MODULE CryptoHelper -----------------------------
(***************************************************************************)
(* The root-only crypto helper and the provider that calls it, over one    *)
(* Unix socket.  The helper serves one connection at a time and hands each *)
(* request to systemd-creds; whoever else connects waits in the backlog.   *)
(* Helpers are started, stopped and killed, also while an older one is     *)
(* still cleaning up, and every one of them uses the same path.            *)
(* Time passes in units, and only when nobody can act at once: beside      *)
(* systemd-creds and a peer that is silent, nothing takes time.            *)
(***************************************************************************)
EXTENDS Integers, Sequences

CONSTANTS
    Clients,       \* processes that connect to the socket once
    Nobody,        \* no client
    Casts,         \* which kinds of clients may meet
    MaxInstance,   \* helpers started one after the other (bound)
    Backlog,       \* connections that may wait
    IoTimeout,     \* CLIENT_IO_TIMEOUT_SECONDS of the helper
    CredsTimeout,  \* timeout of systemd-creds
    CallTimeout    \* timeout of the provider's socket

(* A caller of SystemdCredsCryptoProvider; a process of another user; a     *)
(* program of the right user that sends a bad request.                     *)
Kinds == {"provider", "stranger", "garbled"}

ASSUME HelperAssumption ==
    /\ Nobody \notin Clients
    /\ Casts \subseteq [Clients -> Kinds]
    /\ MaxInstance \in Nat
    /\ Backlog \in Nat
    /\ IoTimeout \in Nat
    /\ CredsTimeout \in Nat
    /\ CallTimeout \in Nat
    /\ CredsTimeout < CallTimeout

VARIABLES
    kind,     \* what each client is
    pc,       \* where each helper is in run()
    mark,     \* _socket_inode: the socket that lstat found after bind
    limit,    \* time left until the helper's current timeout
    queue,    \* connections waiting for accept
    peer,     \* the connection handled, Nobody for none
    path,     \* the helper whose socket the path names, 0 for none
    call,     \* how far each client is
    left,     \* time left until the client's timeout
    reply,    \* what is in the client's receive buffer
    creds,    \* what the client's own systemd-creds run led to
    behind,   \* history: the client found another one before it
    raced     \* history: two helpers touched the path at the same time

helper == <<pc, mark, limit, queue, peer>>
client == <<call, left>>
past   == <<kind, behind, raced>>
vars   == <<kind, pc, mark, limit, queue, peer, path,
            call, left, reply, creds, behind, raced>>

Instances == 1..MaxInstance

Ongoing  == {"open", "waiting"}
Sent     == {"waiting", "timeout", "abandoned"}  \* the request is out
Busy     == {"read", "creds"}
Serving  == {"accept"} \union Busy
Ended    == {"ok", "denied", "rejected", "failed", "broken", "timeout", "died", "abandoned"}
Statuses == {"OK", "UNAUTHORIZED", "INVALID_REQUEST", "CRYPTO_ERROR"}

TypeOK ==
    /\ kind \in Casts
    /\ pc \in [Instances -> Serving \union
                   {"off", "bind", "mark", "check", "unlink", "gone"}]
    /\ mark \in [Instances -> 0..MaxInstance]
    /\ limit \in [Instances -> Nat]
    /\ queue \in [Instances -> Seq(Clients)]
    /\ peer \in [Instances -> Clients \union {Nobody}]
    /\ path \in 0..MaxInstance
    /\ call \in [Clients -> Ended \union Ongoing \union {"idle"}]
    /\ left \in [Clients -> Nat]
    /\ reply \in [Clients -> Statuses \union {"none", "cut", "closed"}]
    /\ creds \in [Clients -> {"none", "done", "failed"}]
    /\ behind \in [Clients -> BOOLEAN]
    /\ raced \in BOOLEAN

Init ==
    /\ kind \in Casts
    /\ pc = [i \in Instances |-> "off"]
    /\ mark = [i \in Instances |-> 0]
    /\ limit = [i \in Instances |-> 0]
    /\ queue = [i \in Instances |-> <<>>]
    /\ peer = [i \in Instances |-> Nobody]
    /\ path = 0
    /\ call = [c \in Clients |-> "idle"]
    /\ left = [c \in Clients |-> 0]
    /\ reply = [c \in Clients |-> "none"]
    /\ creds = [c \in Clients |-> "none"]
    /\ behind = [c \in Clients |-> FALSE]
    /\ raced = FALSE

-----------------------------------------------------------------------------
(* The life of a helper.                                                   *)

(* Between two of its looks at the path, or a look and a change.           *)
Exposed == {"bind", "mark", "unlink"}

(* A helper that is gone takes what it remembers with it.                   *)
Goto(i, from, to) ==
    /\ pc[i] = from
    /\ pc' = [pc EXCEPT ![i] = to]
    /\ mark' = [mark EXCEPT ![i] = IF to = "gone" THEN 0
                                   ELSE IF from = "mark" THEN path ELSE @]
    /\ peer' = [peer EXCEPT ![i] = Nobody]
    /\ limit' = [limit EXCEPT ![i] = 0]
    /\ raced' = (raced \/ /\ to \in Exposed
                          /\ \E j \in Instances \ {i} : pc[j] \in Exposed)

(* A path that exists is removed.  A wrong parent directory, or a path     *)
(* that is no safe socket, ends the helper before it touched anything.     *)
Start(i) ==
    /\ \A j \in 1..(i - 1) : pc[j] # "off"
    /\ \/ Goto(i, "off", "bind") /\ path' = 0
       \/ Goto(i, "off", "gone") /\ UNCHANGED path
    /\ UNCHANGED <<queue, client, reply, creds, behind, kind>>

(* bind refuses a path that exists.                                        *)
Bind(i) ==
    /\ \/ path = 0 /\ Goto(i, "bind", "mark") /\ path' = i
       \/ path # 0 /\ Goto(i, "bind", "gone") /\ UNCHANGED path
    /\ UNCHANGED <<queue, client, reply, creds, behind, kind>>

(* lstat takes the inode of whatever the path names by now; then listen.   *)
Listen(i) ==
    /\ \/ path # 0 /\ Goto(i, "mark", "accept")
       \/ path = 0 /\ Goto(i, "mark", "gone")
    /\ UNCHANGED <<queue, path, client, reply, creds, behind, kind>>

(* What reaches the receive buffers of those that still have one.          *)
Tell(those, what) ==
    reply' = [c \in Clients |-> IF c \in those /\ call[c] \in Ongoing
                                 THEN what ELSE reply[c]]

Waiting(i) == {queue[i][n] : n \in DOMAIN queue[i]}

(* SIGTERM and SIGINT set running, which is seen before the next accept; an *)
(* accept that fails ends the loop too.  Closing the listening socket       *)
(* resets the connections that still wait.                                 *)
Leave(i) ==
    /\ Goto(i, "accept", "check")
    /\ queue' = [queue EXCEPT ![i] = <<>>]
    /\ Tell(Waiting(i), "closed")
    /\ UNCHANGED <<path, client, creds, behind, kind>>

(* Mutant: whatever is at the path is removed.                             *)
AnySocket(i) == path # 0

(* _cleanup_socket: lstat, then unlink of the path if the inode matches.   *)
OwnSocket(i) == path = mark[i]

CleanupCheck(i) ==
    /\ \/ OwnSocket(i) /\ Goto(i, "check", "unlink")
       \/ ~OwnSocket(i) /\ Goto(i, "check", "gone")
    /\ UNCHANGED <<queue, path, client, reply, creds, behind, kind>>

CleanupUnlink(i) ==
    /\ Goto(i, "unlink", "gone")
    /\ path' = 0
    /\ UNCHANGED <<queue, client, reply, creds, behind, kind>>

(* SIGKILL: the kernel closes every connection, the path stays.            *)
Crash(i) ==
    /\ pc[i] \notin {"off", "gone"}
    /\ Goto(i, pc[i], "gone")
    /\ queue' = [queue EXCEPT ![i] = <<>>]
    /\ Tell(Waiting(i) \union {peer[i]}, "closed")
    /\ UNCHANGED <<path, client, creds, behind, kind>>

-----------------------------------------------------------------------------
(* handle_connection.  send_response hides a client that is gone, and the  *)
(* connection is closed in every case.                                     *)

Answer(i, c, status) ==
    /\ Tell({c}, status)
    /\ pc' = [pc EXCEPT ![i] = "accept"]
    /\ peer' = [peer EXCEPT ![i] = Nobody]
    /\ limit' = [limit EXCEPT ![i] = 0]

(* settimeout before a recv, timeout= of subprocess.run                    *)
Proceed(i, c, to, timeout) ==
    /\ pc' = [pc EXCEPT ![i] = to]
    /\ peer' = [peer EXCEPT ![i] = c]
    /\ limit' = [limit EXCEPT ![i] = timeout]
    /\ UNCHANGED reply

(* Mutant: the uid of the peer is checked once the request is read.        *)
AcceptThenCheck(i) ==
    /\ pc[i] = "accept"
    /\ queue[i] # <<>>
    /\ Proceed(i, Head(queue[i]), "read", IoTimeout)
    /\ queue' = [queue EXCEPT ![i] = Tail(@)]
    /\ UNCHANGED <<mark, path, client, creds, past>>

(* A peer with another uid is answered before anything is read from it.    *)
Accept(i) ==
    /\ pc[i] = "accept"
    /\ queue[i] # <<>>
    /\ LET c == Head(queue[i]) IN
           \/ kind[c] = "stranger" /\ Answer(i, c, "UNAUTHORIZED")
           \/ kind[c] # "stranger" /\ Proceed(i, c, "read", IoTimeout)
    /\ queue' = [queue EXCEPT ![i] = Tail(@)]
    /\ UNCHANGED <<mark, path, client, creds, past>>

(* Mutant: the accepted socket has no timeout.                             *)
ReadWaits(i) == call[peer[i]] \notin Sent \union {"open"}

(* Header, AAD and payload; EOF and a silent peer close the connection.  A *)
(* request that was sent is carried out, also for a client that has gone.  *)
ReadGivesUp(i) ==
    \/ call[peer[i]] \notin Sent \union {"open"}
    \/ call[peer[i]] = "open" /\ limit[i] = 0

ReadRequest(i) ==
    /\ pc[i] = "read"
    /\ \/ /\ call[peer[i]] \in Sent
          /\ kind[peer[i]] = "garbled"
          /\ Answer(i, peer[i], "INVALID_REQUEST")
       \/ /\ call[peer[i]] \in Sent
          /\ kind[peer[i]] # "garbled"
          /\ Proceed(i, peer[i], "creds", CredsTimeout)
       \/ ReadGivesUp(i) /\ Answer(i, peer[i], "closed")
    /\ UNCHANGED <<mark, queue, path, client, creds, past>>

CredsSays(i, result, status) ==
    /\ creds' = [creds EXCEPT ![peer[i]] = result]
    /\ Answer(i, peer[i], status)

(* systemd-creds ends, fails, cannot be started, or is killed in time.     *)
RunCreds(i) ==
    /\ pc[i] = "creds"
    /\ \/ CredsSays(i, "done", "OK")
       \/ CredsSays(i, "failed", "CRYPTO_ERROR")
       \/ CredsSays(i, "failed", "INVALID_REQUEST")
    /\ UNCHANGED <<mark, queue, path, client, past>>

(* The helper is killed while it sends: the header is out, the data is not *)
CrashInAnswer(i) ==
    /\ pc[i] = "creds"
    /\ Goto(i, "creds", "gone")
    /\ queue' = [queue EXCEPT ![i] = <<>>]
    /\ reply' = [c \in Clients |->
                    IF call[c] \notin Ongoing THEN reply[c]
                    ELSE IF c \in Waiting(i) THEN "closed"
                    ELSE IF c = peer[i]      THEN "cut"
                    ELSE reply[c]]
    /\ UNCHANGED <<path, client, creds, behind, kind>>

-----------------------------------------------------------------------------
(* The clients: _call of SystemdCredsCryptoProvider.                       *)

(* The call is over, its socket closed.                                    *)
Becomes(c, state) ==
    /\ call' = [call EXCEPT ![c] = state]
    /\ left' = [left EXCEPT ![c] = 0]
    /\ reply' = [reply EXCEPT ![c] = "none"]

Reachable == path # 0 /\ pc[path] \in Serving /\ Len(queue[path]) < Backlog

Ahead(i) == Waiting(i) \union ({peer[i]} \ {Nobody})

(* A full backlog fails at once: a socket with a timeout does not block.   *)
Connect(c) ==
    /\ call[c] = "idle"
    /\ \/ /\ Reachable
          /\ call' = [call EXCEPT ![c] = "open"]
          /\ queue' = [queue EXCEPT ![path] = Append(@, c)]
          /\ behind' = [behind EXCEPT ![c] =
                           \E d \in Ahead(path) : kind[d] # "stranger"]
          /\ UNCHANGED <<left, reply>>
       \/ /\ ~Reachable
          /\ Becomes(c, "broken")
          /\ UNCHANGED <<queue, behind>>
    /\ UNCHANGED <<pc, mark, limit, peer, path, creds, raced, kind>>

(* A connection that is closed breaks the pipe, answered or not.           *)
Send(c) ==
    /\ call[c] = "open"
    /\ \/ /\ reply[c] = "none"
          /\ call' = [call EXCEPT ![c] = "waiting"]
          /\ left' = [left EXCEPT ![c] = CallTimeout]
          /\ UNCHANGED reply
       \/ reply[c] # "none" /\ Becomes(c, "broken")
    /\ UNCHANGED <<helper, path, creds, past>>

(* Mutant: the data is taken as far as it came.                            *)
OutcomeTruncated(status) ==
    IF status = "cut" THEN "ok" ELSE
    CASE status = "OK"              -> "ok"
      [] status = "UNAUTHORIZED"    -> "denied"
      [] status = "INVALID_REQUEST" -> "rejected"
      [] status = "CRYPTO_ERROR"    -> "failed"
      [] OTHER                      -> "broken"

Outcome(status) ==
    CASE status = "OK"              -> "ok"
      [] status = "UNAUTHORIZED"    -> "denied"
      [] status = "INVALID_REQUEST" -> "rejected"
      [] status = "CRYPTO_ERROR"    -> "failed"
      [] OTHER                      -> "broken"

(* recv: a timeout only counts when nothing has come.                      *)
Receive(c) ==
    /\ call[c] = "waiting"
    /\ \/ reply[c] # "none" /\ Becomes(c, Outcome(reply[c]))
       \/ reply[c] = "none" /\ left[c] = 0 /\ Becomes(c, "timeout")
    /\ UNCHANGED <<helper, path, creds, past>>

(* The client's process dies, before or after it sent the request.         *)
Die(c) ==
    /\ call[c] \in Ongoing
    /\ Becomes(c, IF call[c] = "open" THEN "died" ELSE "abandoned")
    /\ UNCHANGED <<helper, path, creds, past>>

-----------------------------------------------------------------------------
(* The clock.                                                              *)

CanActAtOnce(i) ==
    \/ pc[i] = "accept" /\ queue[i] # <<>>
    \/ pc[i] = "read" /\ call[peer[i]] # "open"
    \/ pc[i] \in Busy /\ limit[i] = 0

Minus1(n) == IF n = 0 THEN 0 ELSE n - 1

Tick ==
    /\ \A i \in Instances : ~CanActAtOnce(i)
    /\ \A c \in Clients : call[c] = "waiting" => reply[c] = "none" /\ left[c] > 0
    /\ \/ \E i \in Instances : pc[i] \in Busy
       \/ \E c \in Clients : call[c] = "waiting"
    /\ limit' = [i \in Instances |-> Minus1(limit[i])]
    /\ left' = [c \in Clients |-> IF call[c] = "waiting" THEN Minus1(left[c]) ELSE 0]
    /\ UNCHANGED <<pc, mark, queue, peer, path, call, reply, creds, past>>

Serve(i) ==
    \/ Bind(i) \/ Listen(i) \/ CleanupCheck(i) \/ CleanupUnlink(i)
    \/ Accept(i) \/ ReadRequest(i) \/ RunCreds(i)

Next ==
    \/ \E i \in Instances : \/ Serve(i) \/ Start(i) \/ Leave(i)
                            \/ Crash(i) \/ CrashInAnswer(i)
    \/ \E c \in Clients : Connect(c) \/ Send(c) \/ Receive(c) \/ Die(c)
    \/ Tick

Spec == Init /\ [][Next]_vars

(* Time passes, helpers and waiting clients run.  No client has to send.   *)
FairSpec ==
    /\ Spec
    /\ WF_vars(Tick)
    /\ \A i \in Instances : WF_vars(Serve(i))
    /\ \A c \in Clients : WF_vars(Receive(c))

-----------------------------------------------------------------------------
(* A provider that gets a result got the whole output of a systemd-creds   *)
(* run that succeeded for it, and every other answer has its cause.        *)
AnswersAreTrue ==
    \A c \in Clients :
        /\ call[c] = "ok" => kind[c] = "provider" /\ creds[c] = "done"
        /\ call[c] = "failed" => creds[c] = "failed"
        /\ call[c] = "denied" => kind[c] = "stranger"
        /\ kind[c] = "stranger" => creds[c] = "none"

(* A caller that is served at once never times out, however long           *)
(* systemd-creds takes and whoever else is around: only one that connected *)
(* behind another authorized client can, never one behind strangers.       *)
TimeoutNeedsQueue == \A c \in Clients : call[c] = "timeout" => behind[c]

(* A helper that serves is the one the path leads to as long as no newer   *)
(* one has started: an older helper's cleanup leaves its successor alone,  *)
(* unless the two were in their unguarded windows at the same time.        *)
SuccessorIsReachable ==
    \A i \in Instances :
        /\ pc[i] \in Serving
        /\ \A j \in (i + 1)..MaxInstance : pc[j] = "off"
        => path = i \/ raced

(* No client, silent, gone or slow in systemd-creds, keeps the helper.     *)
HelperComesFree == \A i \in Instances : pc[i] \in Busy ~> pc[i] \notin Busy
=============================================================================
