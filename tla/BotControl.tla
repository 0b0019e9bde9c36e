------------------------------ MODULE BotControl ------------------------------
(***************************************************************************)
(* The command queue between the Telegram bot and one router               *)
(* (internal/botcontrol: queue.go, registry.go, server.go, agent.go).      *)
(*                                                                         *)
(* The control server keeps a store, in memory and, whole, on disk after   *)
(* every change; saving may fail, the server may crash and comes back with *)
(* what is on disk.  The router's agent polls for one command, runs it and *)
(* posts the result, each over an HTTP request that the agent can give up  *)
(* on while the server still gets to it later.  The agent restarts with    *)
(* its daemon and forgets what it had.                                     *)
(***************************************************************************)
EXTENDS Naturals, Sequences, SequencesExt

CONSTANTS
    Command,     \* commands, one per call of Enqueue
    Conn,        \* HTTP requests that can be under way at once
    None,
    TooLong,     \* commands whose result does not fit in maxResultBytes
    Window,      \* maxRecentResults
    ConfigToken, \* the token config.json pins for this router, 0 for none
    MaxToken,    \* tokens AddRouter may generate: a bound on re-registrations
    MaxFaults    \* crashes, failed saves and given-up requests: a bound

ASSUME WindowAssumption == Window \in Nat \ {0}
ASSUME TokenAssumption == ConfigToken \in {0, 1} /\ MaxToken \in Nat \ {0}
ASSUME TooLongAssumption == TooLong \subseteq Command
ASSUME FaultAssumption == MaxFaults \in Nat

VARIABLES
    mem, disk,   \* the store in memory, and the store file
    up,          \* the control server runs
    asked,       \* what the bot's handler of each command is at
    req,         \* the HTTP request on each connection
    agent,       \* what the agent's loop is at
    conn,        \* the connection the agent waits on
    job,         \* the command running, or whose result is not posted yet
    agentToken,  \* the token the agent was started with
    issued,      \* the last token made
    faults,
    ran,         \* history: the commands handed to Handler.Handle
    reported     \* history: the commands whose result the agent saw accepted

serverVars == <<mem, disk, up>>
agentVars == <<agent, conn, job, agentToken>>
history == <<ran, reported>>
vars == <<mem, disk, up, asked, req, agent, conn, job, agentToken, issued,
          faults, ran, reported>>

Token == 0 .. (MaxToken + 1)            \* 0: not registered
Stores == {s \in [pending : Seq(Command), recent : Seq(Command), token : Token,
                   seeded : BOOLEAN] : Len(s.recent) <= Window}
EmptyStore == [pending |-> <<>>, recent |-> <<>>, token |-> 0, seeded |-> FALSE]

Requests == [kind : {"poll", "result"}, token : Token,
             cmd : Command \cup {None},
             stage : {"sent", "authed", "answered", "refused"}]
ASSUME NoneAssumption == /\ None \notin Command /\ None \notin Conn
                         /\ None \notin Requests

TypeOK == /\ mem \in Stores /\ disk \in Stores /\ up \in BOOLEAN
          /\ asked \in [Command -> {"new", "checked", "refused", "waiting",
                                    "answered", "unanswered"}]
          /\ req \in [Conn -> Requests \cup {None}]
          /\ agent \in {"down", "idle", "polling", "running", "posting"}
          /\ conn \in Conn \cup {None}
          /\ job \in Command \cup {None}
          /\ agentToken \in Token /\ issued \in Token
          /\ faults \in 0 .. MaxFaults
          /\ ran \in SUBSET Command /\ reported \in SUBSET Command

Init == /\ mem = EmptyStore /\ disk = EmptyStore /\ up = FALSE
        /\ asked = [c \in Command |-> "new"]
        /\ req = [k \in Conn |-> None]
        /\ agent = "down" /\ conn = None /\ job = None
        /\ agentToken = 1 /\ issued = 1
        /\ faults = 0 /\ ran = {} /\ reported = {}

(***************************************************************************)
(* The store.  saveLocked writes all of it; until the next save that       *)
(* works, a change that could not be saved lives in memory only.           *)
(***************************************************************************)
Fault == faults < MaxFaults /\ faults' = faults + 1

Save(store, ok) == /\ mem' = store
                   /\ IF ok THEN disk' = store /\ UNCHANGED faults
                            ELSE UNCHANGED disk /\ Fault

\* A change that is undone in memory when it cannot be saved.
SaveOrUndo(store, ok) == IF ok THEN Save(store, TRUE) ELSE Save(mem, FALSE)

LastOf(s) == IF Len(s) > Window THEN SubSeq(s, Len(s) - Window + 1, Len(s)) ELSE s

Registered == mem.token # 0
-----------------------------------------------------------------------------
(***************************************************************************)
(* The bot: one handler per command.                                       *)
(***************************************************************************)
CheckRouter(c) == /\ up /\ Registered
                  /\ asked[c] = "new"
                  /\ asked' = [asked EXCEPT ![c] = "checked"]
                  /\ UNCHANGED <<mem, disk, up, req, issued, faults, agentVars, history>>

Enqueue(c, ok) ==
    /\ up
    /\ asked[c] = "checked"
    /\ Save([mem EXCEPT !.pending = Append(@, c)], ok)
    /\ asked' = [asked EXCEPT ![c] = IF ok THEN "waiting" ELSE "refused"]
    /\ UNCHANGED <<up, req, issued, agentVars, history>>

\* Mutant: whatever result came last is taken for this command's.
AnyResult(c) == mem.recent # <<>>

ResultFor(c) == \E i \in DOMAIN mem.recent : mem.recent[i] = c

AwaitResult(c) == /\ up
                  /\ asked[c] = "waiting"
                  /\ \/ ResultFor(c) /\ asked' = [asked EXCEPT ![c] = "answered"]
                     \/ asked' = [asked EXCEPT ![c] = "unanswered"]
                  /\ UNCHANGED <<mem, disk, up, req, issued, faults, agentVars, history>>

AddRouter(ok) == /\ up /\ ~ Registered
                 /\ issued <= MaxToken
                 /\ issued' = issued + 1
                 /\ SaveOrUndo([mem EXCEPT !.token = issued + 1], ok)
                 /\ UNCHANGED <<up, asked, req, agentVars, history>>

RemoveRouter(ok) ==
    /\ up /\ Registered
    /\ SaveOrUndo([mem EXCEPT !.token = 0, !.pending = <<>>, !.recent = <<>>], ok)
    /\ UNCHANGED <<up, asked, req, issued, agentVars, history>>
-----------------------------------------------------------------------------
(***************************************************************************)
(* The HTTP server: a request is authenticated, then handled; the registry *)
(* may change in between.                                                  *)
(***************************************************************************)
Reply(k, stage, cmd) == req' = [req EXCEPT ![k].stage = stage, ![k].cmd = cmd]

Authenticate(k) ==
    /\ up
    /\ req[k] # None /\ req[k].stage = "sent"
    /\ Reply(k, IF Registered /\ req[k].token = mem.token THEN "authed" ELSE "refused",
             req[k].cmd)
    /\ UNCHANGED <<serverVars, asked, issued, faults, agentVars, history>>

\* Mutant: the wrong end is cut off.
DequeuedLast == [mem EXCEPT !.pending = IF @ = <<>> THEN @ ELSE SubSeq(@, 1, Len(@) - 1)]

Dequeued == [mem EXCEPT !.pending = IF @ = <<>> THEN @ ELSE Tail(@)]
NextCommand == IF mem.pending = <<>> THEN None ELSE Head(mem.pending)

Dequeue(ok) == SaveOrUndo(Dequeued, ok)

\* Mutant: the command is handed out although its removal was undone.
HandlePollAnyway(k, ok) ==
    /\ up
    /\ req[k] # None /\ req[k].kind = "poll" /\ req[k].stage = "authed"
    /\ Dequeue(ok)
    /\ Reply(k, "answered", NextCommand)
    /\ UNCHANGED <<up, asked, issued, agentVars, history>>

HandlePoll(k, ok) ==
    /\ up
    /\ req[k] # None /\ req[k].kind = "poll" /\ req[k].stage = "authed"
    /\ Dequeue(ok)
    /\ IF ok THEN Reply(k, "answered", NextCommand) ELSE Reply(k, "refused", None)
    /\ UNCHANGED <<up, asked, issued, agentVars, history>>

RecordResult(c, ok) == Save([mem EXCEPT !.recent = LastOf(Append(@, c))], ok)

\* The body is longer than maxResultBytes: 400, and nothing is recorded.
RefuseResult(k) ==
    /\ up
    /\ req[k] # None /\ req[k].kind = "result" /\ req[k].stage = "authed"
    /\ req[k].cmd \in TooLong
    /\ Reply(k, "refused", req[k].cmd)
    /\ UNCHANGED <<serverVars, asked, issued, faults, agentVars, history>>

HandleResult(k, ok) ==
    /\ up
    /\ req[k] # None /\ req[k].kind = "result" /\ req[k].stage = "authed"
    /\ req[k].cmd \notin TooLong
    /\ RecordResult(req[k].cmd, ok)
    /\ Reply(k, IF ok THEN "answered" ELSE "refused", req[k].cmd)
    /\ UNCHANGED <<up, asked, issued, agentVars, history>>

\* A heartbeat, a new name and every change for another router save it all.
SetStatus == /\ up
             /\ Save(mem, TRUE)
             /\ UNCHANGED <<up, asked, req, issued, agentVars, history>>

\* Requests are cut off, the bot's handlers die.  An answer the agent still
\* gets counts as received before the crash.
ServerCrash ==
    /\ up /\ Fault
    /\ up' = FALSE
    /\ mem' = disk
    /\ req' = [k \in Conn |-> None]
    /\ asked' = [c \in Command |-> IF asked[c] = "checked" THEN "new"
                                  ELSE IF asked[c] = "waiting" THEN "unanswered"
                                  ELSE asked[c]]
    /\ UNCHANGED <<disk, issued, agentVars, history>>

\* Mutant: every start takes the token from config.json.
SeededAlways == IF mem.token # 0 THEN mem
                ELSE [mem EXCEPT !.seeded = TRUE, !.token = ConfigToken]

\* LoadStore, then SeedRoutersFromConfig; a start that cannot save exits.
Seeded == IF mem.seeded THEN mem
          ELSE [mem EXCEPT !.seeded = TRUE, !.token = IF @ = 0 THEN ConfigToken ELSE @]

ServerStart == /\ ~ up
               /\ up' = TRUE
               /\ mem' = Seeded /\ disk' = Seeded
               /\ UNCHANGED <<asked, req, issued, faults, agentVars, history>>
-----------------------------------------------------------------------------
(***************************************************************************)
(* The agent.  pollOnce posts the result it still holds, or else polls.    *)
(***************************************************************************)
Send(k, kind, cmd) ==
    /\ req[k] = None
    /\ req' = [req EXCEPT ![k] = [kind |-> kind, token |-> agentToken,
                                  cmd |-> cmd, stage |-> "sent"]]
    /\ conn' = k

Poll(k) == /\ agent = "idle" /\ job = None
           /\ Send(k, "poll", None)
           /\ agent' = "polling"
           /\ UNCHANGED <<serverVars, asked, job, agentToken, issued, faults, history>>

PostAgain(k) ==
    /\ agent = "idle" /\ job # None
    /\ Send(k, "result", job)
    /\ agent' = "posting"
    /\ UNCHANGED <<serverVars, asked, job, agentToken, issued, faults, history>>

\* Handle returned: the result is posted at once.
HandleDone(k) ==
    /\ agent = "running"
    /\ Send(k, "result", job)
    /\ agent' = "posting"
    /\ UNCHANGED <<serverVars, asked, job, agentToken, issued, faults, history>>

Received(stage) == conn # None /\ req[conn] # None /\ req[conn].stage = stage
HangUp == conn' = None /\ req' = [req EXCEPT ![conn] = None]

\* A command arrives and Handle is called with it, or there was none.
PollAnswered ==
    /\ agent = "polling" /\ Received("answered")
    /\ job' = req[conn].cmd
    /\ agent' = IF job' = None THEN "idle" ELSE "running"
    /\ ran' = ran \cup ({job'} \ {None})
    /\ HangUp
    /\ UNCHANGED <<serverVars, asked, agentToken, issued, faults, reported>>

\* Mutant: an accepted result is posted again and again.
ResultStaysUnposted ==
    /\ agent = "posting" /\ Received("answered")
    /\ UNCHANGED job
    /\ agent' = "idle"
    /\ reported' = reported \cup {job}
    /\ HangUp
    /\ UNCHANGED <<serverVars, asked, agentToken, issued, faults, ran>>

ResultAccepted ==
    /\ agent = "posting" /\ Received("answered")
    /\ job' = None
    /\ agent' = "idle"
    /\ reported' = reported \cup {job}
    /\ HangUp
    /\ UNCHANGED <<serverVars, asked, agentToken, issued, faults, ran>>

\* Refused (400, 401 or 500), or the server is not there.
RequestFailed ==
    /\ agent \in {"polling", "posting"}
    /\ Received("refused") \/ req[conn] = None \/ ~ up
    /\ HangUp
    /\ agent' = "idle"
    /\ UNCHANGED <<serverVars, asked, job, agentToken, issued, faults, history>>

\* pollFetchTimeout or resultTimeout: the request stays on its way.
GiveUp == /\ agent \in {"polling", "posting"}
          /\ Fault
          /\ conn' = None
          /\ agent' = "idle"
          /\ UNCHANGED <<serverVars, asked, req, job, agentToken, issued, history>>

\* A request or answer nobody waits for disappears.
Expire(k) == /\ req[k] # None /\ k # conn
             /\ req' = [req EXCEPT ![k] = None]
             /\ UNCHANGED <<serverVars, asked, issued, faults, agentVars, history>>

AgentCrash == /\ agent # "down" /\ Fault
              /\ agent' = "down" /\ conn' = None /\ job' = None
              /\ UNCHANGED <<serverVars, asked, req, agentToken, issued, history>>

\* The operator may have given it the token of a new registration.
AgentStart == /\ agent = "down"
              /\ agent' = "idle"
              /\ agentToken' \in {agentToken, issued}
              /\ UNCHANGED <<serverVars, asked, req, conn, job, issued, faults, history>>
-----------------------------------------------------------------------------
Bot == \/ \E c \in Command : \/ CheckRouter(c) \/ AwaitResult(c)
                             \/ \E ok \in BOOLEAN : Enqueue(c, ok)
       \/ \E ok \in BOOLEAN : AddRouter(ok) \/ RemoveRouter(ok)

Handlers == \E k \in Conn : \/ Authenticate(k) \/ RefuseResult(k)
                            \/ \E ok \in BOOLEAN : HandlePoll(k, ok) \/ HandleResult(k, ok)

Agent == \/ \E k \in Conn : Poll(k) \/ PostAgain(k) \/ HandleDone(k)
         \/ PollAnswered \/ ResultAccepted \/ RequestFailed \/ AgentStart

Next == \/ Bot \/ Handlers \/ Agent
        \/ SetStatus \/ ServerCrash \/ ServerStart
        \/ GiveUp \/ AgentCrash
        \/ \E k \in Conn : Expire(k)

Spec == Init /\ [][Next]_vars

(***************************************************************************)
(* The supervisor of the server and the daemon's init script restart them, *)
(* the handlers and the agent's ticker run, sockets close.  A save works   *)
(* unless a fault is spent on it.                                          *)
(***************************************************************************)
Fairness == /\ WF_vars(ServerStart) /\ WF_vars(AgentStart)
            /\ WF_vars(Handlers) /\ WF_vars(Agent)
            /\ \A k \in Conn : WF_vars(Expire(k))

LiveSpec == Spec /\ Fairness
-----------------------------------------------------------------------------
InMemory(c) == \E i \in DOMAIN mem.pending : mem.pending[i] = c

\* The answer to the agent's poll is on its way, with command c.
InHand(c) == agent = "polling" /\ Received("answered") /\ req[conn].cmd = c

StatusOf(c) ==
    IF c \in reported THEN "reported"
    ELSE IF job = c THEN IF agent = "running" THEN "running" ELSE "done"
    ELSE IF InHand(c) THEN "taken"
    ELSE IF InMemory(c) THEN "queued"
    ELSE IF asked[c] \in {"new", "checked"} THEN "new"
    ELSE "lost"

Delivery == INSTANCE CommandDelivery WITH
                status <- [c \in Command |-> StatusOf(c)],
                line <- mem.pending

\* Commands leave the queue in order, run at most once, and the next one is
\* not fetched before the last one's result is handed over or lost
\* (Dequeue, pollOnce), whatever crashes, fails to save or arrives late.
DeliveredAtMostOnce == Delivery!Spec

\* What is on disk is never ahead of memory: a restart cannot bring back a
\* command already handed out, nor a registration already revoked.
DiskBehind == /\ IsPrefix(disk.pending, mem.pending)
              /\ disk.token = mem.token

\* A router taken off the registry stays off, and an old token stays dead:
\* only AddRouter, with a token of its own, registers it again (BOT-03).
RevokedForGood ==
    [][mem.seeded /\ mem'.token # mem.token => mem'.token \in {0, issued + 1}]_vars

\* The bot shows as answered only a command whose Handle has returned (BOT-01).
AnswersAreTrue ==
    \A c \in Command : asked[c] = "answered" => c \in ran /\ StatusOf(c) # "running"

\* Without a crash, a failed save, a request given up or a removal, nothing is
\* ever lost between the bot and the router.
FirstRegistration == Registered /\ issued = IF ConfigToken = 0 THEN 2 ELSE 1
NothingLostWithoutFault ==
    faults = 0 /\ FirstRegistration => \A c \in Command : StatusOf(c) # "lost"

\* Once the agent and the server stay in touch, every queued command is run
\* and reported, or lost to a fault, or stands behind a result too long for
\* the server: a save that failed, an answer that got lost and a slow request
\* do not block the queue for ever (pollOnce, Run).
InTouch == up /\ agent # "down" /\ Registered /\ agentToken = mem.token
Clogged == job \in TooLong
EveryCommandSettles ==
    <>[]InTouch => \A c \in Command :
        StatusOf(c) = "queued" ~> Clogged \/ StatusOf(c) \in {"reported", "lost"}

\* agent.go (pollOnce): delivered or not, "new work waits for the next regular
\* tick".  Not so behind a result over maxResultBytes: it is refused at each
\* post, and no further command is fetched until the agent restarts.
NoResultBlocks ==
    <>[]InTouch => \A c \in Command :
        StatusOf(c) = "queued" ~> StatusOf(c) \in {"reported", "lost"}

\* queue.go: a restart of the control server cannot lose a command that is
\* queued and not yet delivered.
RestartKeepsQueued ==
    [][ServerCrash => \A c \in Command :
         asked[c] = "waiting" /\ StatusOf(c) \in {"queued", "taken"}
           => StatusOf(c)' = "queued"]_vars

\* telegram_menu.go: a command the operator was told is not queued is not run.
RefusedNeverRuns == \A c \in Command : asked[c] = "refused" => c \notin ran

\* registry.go, watch.go: a router added again starts afresh.
AddedAfresh ==
    [][issued' > issued /\ mem'.token # 0 => mem'.pending = <<>> /\ mem'.recent = <<>>]_vars
=============================================================================
