--------------------------- MODULE AppServerClient ---------------------------
(***************************************************************************)
(* CodexAppServer: the client of one `codex app-server --stdio` process.   *)
(*                                                                         *)
(* The client writes requests to the process and reads one line at a time: *)
(* it waits with select() until the pipe is readable, then calls readline. *)
(* readline takes whatever the pipe holds into the buffer of the text      *)
(* stream and returns the first line; select() only sees the pipe.         *)
(* Another thread may close the client at any moment after start.          *)
(***************************************************************************)
EXTENDS Integers, Sequences

CONSTANTS
    MaxPipe,      \* messages that fit into the pipe (bound)
    ClientFaults  \* which of the things in ClientFaultKinds may happen

(*   burst    Codex writes a line before the last one has been read        *)
(*   refuse   Codex answers a request with an error, or reports a failure  *)
(*   garbage  Codex writes a line that is no JSON object                   *)
(*   exit     Codex exits                                                  *)
(*   close    another thread closes the client                             *)
ClientFaultKinds == {"burst", "refuse", "garbage", "exit", "close"}

ASSUME ClientAssumption ==
    /\ MaxPipe \in Nat \ {0}
    /\ ClientFaults \subseteq ClientFaultKinds

VARIABLES
    step,       \* the next step of the client thread
    task,       \* what it waits for
    ending,     \* how the last wait ended
    requestId,  \* id of the request it waits for; _next_id is one more
    completed,  \* login/completed was seen: wait_until_authenticated
    late,       \* the deadline of the wait has passed
    closed,     \* _proc is None
    buffer,     \* lines read from the pipe and not yet returned
    pipe,       \* lines written to the pipe and not yet read
    running,    \* Codex has not exited
    answered,   \* the last request Codex has answered
    login,      \* how far Codex is with the login
    foreign     \* what it said of others that reads like this login

client == <<step, task, ending, requestId, completed, late, closed>>
codex  == <<running, answered, login, foreign>>
clientVars == <<step, task, ending, requestId, completed, late, closed,
                buffer, pipe, running, answered, login, foreign>>

Requests == {"initialize", "login", "limits"}
Waiting  == {"loop", "select", "read"}

(* The login a completion names, if it names one; whether an update comes  *)
(* with an account (authMode).                                             *)
Message ==
    [type : {"response"}, id : 1..3, ok : BOOLEAN]
        \union [type : {"completed"}, of : {"this", "none", "another"}, ok : BOOLEAN]
        \union [type : {"updated"}, account : BOOLEAN]
        \union [type : {"other", "garbage"}]

ClientFault(kind) == kind \in ClientFaults

ClientInit ==
    /\ step = "start"
    /\ task = "none"
    /\ ending = "none"
    /\ requestId = 0
    /\ completed = FALSE
    /\ late = FALSE
    /\ closed = FALSE
    /\ buffer = <<>>
    /\ pipe = <<>>
    /\ running = TRUE
    /\ answered = 0
    /\ login = "none"
    /\ foreign = {}

-----------------------------------------------------------------------------
(* The client thread.                                                      *)

Move(from, to) ==
    /\ step = from
    /\ step' = to

(* The wait ends.  An exception leaves the with block, which closes; but   *)
(* one of start() leaves __enter__, and then nothing closes the client.    *)
End(result) ==
    /\ step' = CASE result = "ok" /\ task # "await" -> "idle"
                 [] result # "ok" /\ task = "initialize" -> "leaked"
                 [] OTHER -> "over"
    /\ ending' = result

(* A wait begins, with a deadline of its own.                              *)
Await(what) ==
    /\ task' = what
    /\ ending' = "none"
    /\ late' = FALSE
    /\ completed' = FALSE

(* _send raises when the client is closed or the process is gone.          *)
Request(from, what) ==
    /\ step = from
    /\ IF closed \/ ~running
         THEN /\ step' = IF from = "start" THEN "leaked" ELSE "over"
              /\ ending' = "error"
              /\ UNCHANGED <<task, requestId, completed, late>>
         ELSE step' = "loop" /\ Await(what) /\ requestId' = requestId + 1
    /\ UNCHANGED <<closed, buffer, pipe, codex>>

Start == Request("start", "initialize")

Login == task = "initialize" /\ Request("idle", "login")

ReadLimits == task = "initialize" /\ Request("idle", "limits")

WaitUntilAuthenticated ==
    /\ task = "login"
    /\ Move("idle", "loop")
    /\ Await("await")
    /\ UNCHANGED <<requestId, closed, buffer, pipe, codex>>

(* The head of the loops of _wait_for and wait_until_authenticated.        *)
Loop ==
    /\ step = "loop"
    /\ \/ late /\ End("timeout")
       \/ ~late /\ closed /\ End("error")
       \/ ~late /\ ~closed /\ step' = "select" /\ UNCHANGED ending
    /\ UNCHANGED <<task, requestId, completed, late, closed, buffer, pipe, codex>>

Readable == pipe # <<>> \/ ~running

Select ==
    /\ step = "select"
    /\ \/ Readable /\ step' = "read" /\ UNCHANGED ending
       \/ ~Readable /\ late /\ End("timeout")
    /\ UNCHANGED <<task, requestId, completed, late, closed, buffer, pipe, codex>>

(* Mutant: a completion is this login's, whatever login it names.          *)
AnyCompletion(message) == message.type = "completed"

(* A completion that names no login is taken for this one's.               *)
Mine(message) == message.type = "completed" /\ message.of \in {"this", "none"}

(* Mutant: any account/updated after the completion will do.               *)
AnyUpdate(message) == message.type = "updated" /\ completed

(* Mutant: an account is enough, completed or not.                         *)
UpdateAlone(message) == message.type = "updated" /\ message.account

(* The safe readiness boundary of wait_until_authenticated.                *)
Ready(message) == message.type = "updated" /\ completed /\ message.account

(* What the waiting loop makes of a message.  After the answer to          *)
(* initialize, start sends another notification, which may raise.          *)
Handle(message) ==
    \/ /\ task \in Requests
       /\ IF message.type = "response" /\ message.id = requestId
            THEN End(IF message.ok /\ (task = "initialize" => running)
                       THEN "ok" ELSE "error")
            ELSE step' = "loop" /\ UNCHANGED ending
       /\ UNCHANGED completed
    \/ /\ task = "await"
       /\ CASE Mine(message) ->
                 IF message.ok
                   THEN step' = "loop" /\ completed' = TRUE /\ UNCHANGED ending
                   ELSE End("error") /\ UNCHANGED completed
            [] Ready(message) ->
                 End("ok") /\ UNCHANGED completed
            [] OTHER -> step' = "loop" /\ UNCHANGED <<ending, completed>>

(* json.loads and the waiting loop; the decoder raises on no JSON.         *)
Take(message) ==
    \/ message.type = "garbage" /\ End("error") /\ UNCHANGED completed
    \/ message.type # "garbage" /\ Handle(message)

(* Mutant: the timeout is counted from the last message.                   *)
ReadRestartsTimeout ==
    LET lines == IF buffer = <<>> THEN pipe ELSE buffer IN
    /\ step = "read"
    /\ CASE lines = <<>> -> End("error") /\ UNCHANGED <<completed, buffer>>
         [] lines # <<>> -> Take(Head(lines)) /\ buffer' = Tail(lines)
    /\ pipe' = IF buffer = <<>> THEN <<>> ELSE pipe
    /\ late' = FALSE
    /\ UNCHANGED <<task, requestId, closed, codex>>

(* readline: the next buffered line, else all the pipe holds, else EOF.    *)
Read ==
    LET lines == IF buffer = <<>> THEN pipe ELSE buffer IN
    /\ step = "read"
    /\ CASE lines = <<>> -> End("error") /\ UNCHANGED <<completed, buffer>>
         [] lines # <<>> -> Take(Head(lines)) /\ buffer' = Tail(lines)
    /\ pipe' = IF buffer = <<>> THEN <<>> ELSE pipe
    /\ UNCHANGED <<task, requestId, late, closed, codex>>

(* __exit__ after an exception or the end of the with block.               *)
Exit ==
    /\ step \in {"over", "idle"}
    /\ ~closed
    /\ step' = "over"
    /\ closed' = TRUE
    /\ running' = FALSE
    /\ UNCHANGED <<task, ending, requestId, completed, late, buffer, pipe, answered, login, foreign>>

-----------------------------------------------------------------------------
(* The clock and the other threads.                                        *)

Deadline ==
    /\ step \in Waiting
    /\ ~late
    /\ late' = TRUE
    /\ UNCHANGED <<step, task, ending, requestId, completed, closed, buffer, pipe, codex>>

Close ==
    /\ ClientFault("close")
    /\ step \notin {"start", "leaked"}
    /\ task = "initialize" => step = "idle"
    /\ ~closed
    /\ closed' = TRUE
    /\ running' = FALSE
    /\ UNCHANGED <<step, task, ending, requestId, completed, late, buffer, pipe, answered, login, foreign>>

-----------------------------------------------------------------------------
(* Codex.                                                                  *)

Write(message) ==
    /\ running
    /\ Len(pipe) < MaxPipe
    /\ (pipe = <<>> /\ buffer = <<>>) \/ ClientFault("burst")
    /\ pipe' = Append(pipe, message)

Answer ==
    /\ answered < requestId
    /\ \E ok \in {TRUE} \union (IF ClientFault("refuse") THEN {FALSE} ELSE {}) :
        /\ Write([type |-> "response", id |-> requestId, ok |-> ok])
        /\ login' = IF task = "login" /\ ok THEN "started" ELSE login
    /\ answered' = requestId
    /\ UNCHANGED <<client, buffer, running, foreign>>

(* The user approves or refuses the login; on approval the managed auth is *)
(* reloaded and announced afterwards.                                      *)
LoginCompleted ==
    /\ login = "started"
    /\ \E of \in {"this", "none"} :
        \/ Write([type |-> "completed", of |-> of, ok |-> TRUE]) /\ login' = "completed"
        \/ /\ ClientFault("refuse")
           /\ Write([type |-> "completed", of |-> of, ok |-> FALSE]) /\ login' = "refused"
    /\ UNCHANGED <<client, buffer, running, answered, foreign>>

AccountUpdated ==
    /\ login = "completed"
    /\ Write([type |-> "updated", account |-> TRUE])
    /\ login' = "ready"
    /\ UNCHANGED <<client, buffer, running, answered, foreign>>

(* Notifications about other things, about another login or no account, or *)
(* a line the client cannot read.                                          *)
Notify ==
    /\ \/ Write([type |-> "other"])
       \/ ClientFault("garbage") /\ Write([type |-> "garbage"])
       \/ \E ok \in BOOLEAN : Write([type |-> "completed", of |-> "another", ok |-> ok])
       \/ Write([type |-> "updated", account |-> FALSE])
    /\ UNCHANGED <<client, buffer, codex>>

(* Another login completes and is not named; the account of another login, *)
(* or of before, is announced - also while this one is being reloaded.     *)
Another ==
    /\ \/ \E ok \in BOOLEAN :
            /\ Write([type |-> "completed", of |-> "none", ok |-> ok])
            /\ foreign' = foreign \union {x \in {"unnamed"} : ok}
       \/ /\ Write([type |-> "updated", account |-> TRUE])
          /\ foreign' = foreign \union {x \in {"early"} : login = "completed"}
    /\ UNCHANGED <<client, buffer, running, answered, login>>

CodexExits ==
    /\ ClientFault("exit")
    /\ running
    /\ running' = FALSE
    /\ UNCHANGED <<client, buffer, pipe, answered, login, foreign>>

-----------------------------------------------------------------------------
Client ==
    \/ Start \/ Login \/ ReadLimits \/ WaitUntilAuthenticated
    \/ Loop \/ Select \/ Read \/ Exit

Codex == Answer \/ LoginCompleted \/ AccountUpdated \/ Notify \/ Another \/ CodexExits

ClientNext == Client \/ Deadline \/ Close \/ Codex

ClientSpec == ClientInit /\ [][ClientNext]_clientVars

(* The thread runs and the clock ticks; Codex may say anything or nothing. *)
FairClientSpec ==
    ClientSpec /\ WF_clientVars(Loop \/ Select \/ Read) /\ WF_clientVars(Deadline)

-----------------------------------------------------------------------------
(* The variables range over what their comments say.                       *)
ClientTypeOK ==
    /\ step \in Waiting \union {"start", "idle", "over", "leaked"}
    /\ task \in Requests \union {"none", "await"}
    /\ ending \in {"none", "ok", "timeout", "error"}
    /\ requestId \in 0..2
    /\ completed \in BOOLEAN
    /\ late \in BOOLEAN
    /\ closed \in BOOLEAN
    /\ buffer \in Seq(Message)
    /\ pipe \in Seq(Message)
    /\ running \in BOOLEAN
    /\ answered \in 0..requestId
    /\ login \in {"none", "started", "completed", "ready", "refused"}
    /\ foreign \subseteq {"unnamed", "early"}

(* wait_until_authenticated returns only when Codex has completed this     *)
(* very login and announced the reloaded account afterwards, however its   *)
(* notifications interleave with those of other logins and accounts, with  *)
(* a close and with the lines of a burst.  Two things it cannot tell       *)
(* apart: a completion that names no login is taken for this one's (line   *)
(* 251), and between this login's completion and the reload any account    *)
(* is taken for its own.                                                   *)
AuthenticatedIsReady ==
    task = "await" /\ ending = "ok" =>
        \/ login = "ready"
        \/ login = "completed" /\ "early" \in foreign
        \/ "unnamed" \in foreign

(* Every wait ends, whatever Codex writes: messages that are not the       *)
(* awaited one do not move the deadline.                                   *)
EveryWaitEnds == step \in Waiting ~> step \notin Waiting

=============================================================================
