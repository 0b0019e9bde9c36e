--------------------------- MODULE BotControlProofs ---------------------------
(***************************************************************************)
(* The safety properties of the bot's two halves.                          *)
(*                                                                         *)
(* BotControl, for any commands, connections and number of faults: its     *)
(* types, what the store file holds, the registry, and that it implements  *)
(* CommandDelivery: whatever crashes, fails to save or arrives late,       *)
(* commands leave the queue in order and run at most once; and without a   *)
(* fault none is lost.                                                     *)
(*                                                                         *)
(* Menus, for any routers, lists, messages and number of taps: a command   *)
(* goes to the router its row is on and acts on the row that was shown,    *)
(* and an update is handled once in each life of the server.               *)
(***************************************************************************)
EXTENDS BotControl, Menus, SequenceTheorems, WellFoundedInduction, TLAPS

-----------------------------------------------------------------------------
(* The sequences the store is made of *)

\* A prefix, element by element.
LEMMA PrefixPointwise ==
    ASSUME NEW S, NEW s \in Seq(S), NEW t \in Seq(S)
    PROVE  IsPrefix(s, t) <=> Len(s) <= Len(t) /\ \A i \in 1 .. Len(s) : s[i] = t[i]
<1>1. ASSUME Len(s) <= Len(t) PROVE
        /\ SubSeq(s, 1, Len(s)) \in Seq(S) /\ Len(SubSeq(s, 1, Len(s))) = Len(s)
        /\ SubSeq(t, 1, Len(s)) \in Seq(S) /\ Len(SubSeq(t, 1, Len(s))) = Len(s)
        /\ \A i \in 1 .. Len(s) : SubSeq(s, 1, Len(s))[i] = s[i] /\ SubSeq(t, 1, Len(s))[i] = t[i]
  BY <1>1
<1>2. ASSUME Len(s) <= Len(t), \A i \in 1 .. Len(s) : s[i] = t[i]
      PROVE SubSeq(s, 1, Len(s)) = SubSeq(t, 1, Len(s))
  BY <1>1, <1>2, SeqEqual
<1> QED BY <1>1, <1>2 DEF IsPrefix

\* A sequence is a prefix of itself, and stays one of what grows at its end.
LEMMA PrefixGrows ==
    ASSUME NEW S, NEW s \in Seq(S), NEW t \in Seq(S)
    PROVE  /\ IsPrefix(s, s)
           /\ \A e \in S : IsPrefix(s, t) => IsPrefix(s, Append(t, e))
<1>1. IsPrefix(s, s)
  BY PrefixPointwise
<1>2. ASSUME NEW e \in S, IsPrefix(s, t) PROVE IsPrefix(s, Append(t, e))
  <2>1. Len(s) <= Len(t) /\ \A i \in 1 .. Len(s) : s[i] = t[i]
    BY <1>2, PrefixPointwise
  <2>2. /\ Append(t, e) \in Seq(S) /\ Len(Append(t, e)) = Len(t) + 1
        /\ \A i \in 1 .. Len(t) : Append(t, e)[i] = t[i]
    BY AppendProperties
  <2>3. Len(s) <= Len(Append(t, e)) /\ \A i \in 1 .. Len(s) : s[i] = Append(t, e)[i]
    BY <2>1, <2>2, LenProperties
  <2> QED BY <2>2, <2>3, PrefixPointwise
<1> QED BY <1>1, <1>2

\* The last Window results are results, and Window at most.
LEMMA LastOfType ==
    ASSUME NEW s \in Seq(Command)
    PROVE  LastOf(s) \in Seq(Command) /\ Len(LastOf(s)) <= Window
BY WindowAssumption DEF LastOf

-----------------------------------------------------------------------------
(* Types *)

\* What the types rest on: a result request carries a command, and an agent
\* that runs one or posts its result has one.
Carried == /\ \A k \in Conn : req[k] # None /\ req[k].kind = "result" => req[k].cmd \in Command
           /\ agent \in {"running", "posting"} => job # None
           /\ agent \in {"polling", "down"} => job = None

\* The type invariant in parts.
StoreType == mem \in Stores /\ disk \in Stores
ServerType == /\ up \in BOOLEAN
              /\ asked \in [Command -> {"new", "checked", "refused", "waiting",
                                        "answered", "unanswered"}]
              /\ issued \in Token
FaultType == faults \in 0 .. MaxFaults
RequestType == req \in [Conn -> Requests \cup {None}] /\ conn \in Conn \cup {None}
AgentType == /\ agent \in {"down", "idle", "polling", "running", "posting"}
             /\ job \in Command \cup {None}
             /\ agentToken \in Token
HistoryType == ran \in SUBSET Command /\ reported \in SUBSET Command

Typed == /\ StoreType /\ ServerType /\ FaultType /\ RequestType /\ AgentType /\ HistoryType
         /\ Carried

\* The parts are the type invariant.
LEMMA PartsAreTypeOK == Typed <=> TypeOK /\ Carried
BY DEF Typed, TypeOK, StoreType, ServerType, FaultType, RequestType, AgentType, HistoryType

\* Each change of the store makes a store.
LEMMA StoreChanges ==
    ASSUME mem \in Stores
    PROVE  /\ \A c \in Command : [mem EXCEPT !.pending = Append(@, c)] \in Stores
           /\ \A c \in Command : [mem EXCEPT !.recent = LastOf(Append(@, c))] \in Stores
           /\ \A t \in Token : [mem EXCEPT !.token = t] \in Stores
           /\ [mem EXCEPT !.token = 0, !.pending = <<>>, !.recent = <<>>] \in Stores
           /\ Dequeued \in Stores
           /\ Seeded \in Stores
<1> USE DEF Stores
<1>1. ASSUME NEW c \in Command
      PROVE  [mem EXCEPT !.pending = Append(@, c)] \in Stores
  OBVIOUS
<1>2. ASSUME NEW c \in Command
      PROVE  [mem EXCEPT !.recent = LastOf(Append(@, c))] \in Stores
  <2>1. Append(mem.recent, c) \in Seq(Command)
    OBVIOUS
  <2> QED BY <2>1, LastOfType
<1>3. ASSUME NEW t \in Token
      PROVE  [mem EXCEPT !.token = t] \in Stores
  OBVIOUS
<1>4. [mem EXCEPT !.token = 0, !.pending = <<>>, !.recent = <<>>] \in Stores
  <2>1. 0 \in Token /\ Len(<<>>) <= Window
    BY WindowAssumption, TokenAssumption DEF Token
  <2>2. <<>> \in Seq(Command)
    BY EmptySeq
  <2> QED BY <2>1, <2>2
<1>5. Dequeued \in Stores
  <2>1. (IF mem.pending = <<>> THEN mem.pending ELSE Tail(mem.pending)) \in Seq(Command)
    BY HeadTailProperties
  <2> QED BY <2>1 DEF Dequeued
<1>6. Seeded \in Stores
  <2>1. ConfigToken \in Token
    BY TokenAssumption DEF Token
  <2> QED BY <2>1 DEF Seeded
<1> QED BY <1>1, <1>2, <1>3, <1>4, <1>5, <1>6

\* The server and the agent start with nothing.
LEMMA InitTyped == Init => Typed
<1> SUFFICES ASSUME Init PROVE Typed
  OBVIOUS
<1>1. StoreType
  BY WindowAssumption, TokenAssumption DEF Init, StoreType, Stores, EmptyStore, Token
<1>2. ServerType
  <2>1. 1 \in Token
    BY TokenAssumption DEF Token
  <2> QED BY <2>1 DEF Init, ServerType
<1>3. FaultType
  BY FaultAssumption DEF Init, FaultType
<1>4. RequestType /\ HistoryType
  BY DEF Init, RequestType, HistoryType
<1>5. AgentType
  BY TokenAssumption DEF Init, AgentType, Token
<1>6. Carried
  BY DEF Init, Carried
<1> QED BY <1>1, <1>2, <1>3, <1>4, <1>5, <1>6 DEF Typed

\* A save leaves stores behind, and spends at most one fault.
LEMMA SaveType ==
    ASSUME StoreType, FaultType, NEW store \in Stores, NEW ok,
           Save(store, ok) \/ SaveOrUndo(store, ok)
    PROVE  StoreType' /\ FaultType'
<1>1. StoreType'
  BY DEF StoreType, Save, SaveOrUndo
<1>2. UNCHANGED faults \/ Fault
  BY DEF Save, SaveOrUndo
<1>3. FaultType'
  BY <1>2, FaultAssumption DEF FaultType, Fault
<1> QED BY <1>1, <1>3

\* A reply changes the stage and the command of its request.
LEMMA ReplyType ==
    ASSUME RequestType, NEW k \in Conn, req[k] # None,
           NEW stage \in {"sent", "authed", "answered", "refused"},
           NEW cmd \in Command \cup {None}, Reply(k, stage, cmd)
    PROVE  /\ req' \in [Conn -> Requests \cup {None}]
           /\ req'[k] # None /\ req'[k].kind = req[k].kind /\ req'[k].cmd = cmd
           /\ req'[k].stage = stage
           /\ \A l \in Conn \ {k} : req'[l] = req[l]
           /\ \A l \in Conn : req'[l] # None => req[l] # None /\ req'[l].kind = req[l].kind
<1>1. /\ req'[k] = [kind |-> req[k].kind, token |-> req[k].token,
                    cmd |-> cmd, stage |-> stage]
      /\ \A l \in Conn \ {k} : req'[l] = req[l]
      /\ req' \in [Conn -> Requests \cup {None}]
  BY DEF RequestType, Reply, Requests
<1>2. req'[k] \in Requests
  BY <1>1 DEF RequestType, Requests
<1> QED BY <1>1, <1>2, NoneAssumption

\* Every step keeps the types (queue.go, registry.go, server.go, agent.go).
LEMMA NextTyped == Typed /\ [Next]_vars => Typed'
<1> SUFFICES ASSUME Typed, [Next]_vars PROVE Typed'
  OBVIOUS
<1> USE DEF Typed, StoreType, ServerType, RequestType, AgentType, HistoryType, serverVars,
            agentVars, history
<1>f. Fault => FaultType'
  BY FaultAssumption DEF Fault, FaultType
<1>u. UNCHANGED faults => FaultType'
  BY DEF FaultType
<1>1. ASSUME NEW c \in Command, CheckRouter(c) \/ AwaitResult(c) PROVE Typed'
  BY <1>1, <1>u DEF CheckRouter, AwaitResult, Carried
<1>2. ASSUME NEW c \in Command, NEW ok \in BOOLEAN, Enqueue(c, ok) PROVE Typed'
  <2>1. StoreType' /\ FaultType'
    BY <1>2, SaveType, StoreChanges DEF Enqueue
  <2> QED BY <1>2, <2>1 DEF Enqueue, Carried
<1>3. ASSUME NEW ok \in BOOLEAN, AddRouter(ok) PROVE Typed'
  <2>1. issued + 1 \in Token
    BY <1>3, TokenAssumption DEF AddRouter, Token
  <2>2. StoreType' /\ FaultType'
    BY <1>3, <2>1, SaveType, StoreChanges DEF AddRouter
  <2> QED BY <1>3, <2>1, <2>2 DEF AddRouter, Carried
<1>4. ASSUME NEW ok \in BOOLEAN, RemoveRouter(ok) PROVE Typed'
  <2>1. StoreType' /\ FaultType'
    BY <1>4, SaveType, StoreChanges DEF RemoveRouter
  <2> QED BY <1>4, <2>1 DEF RemoveRouter, Carried
<1>5. ASSUME NEW k \in Conn, Authenticate(k) PROVE Typed'
  <2>1. PICK stage \in {"authed", "refused"} : Reply(k, stage, req[k].cmd)
    BY <1>5 DEF Authenticate
  <2>2. req[k] # None /\ req[k].cmd \in Command \cup {None}
    BY <1>5 DEF Authenticate, Requests
  <2>3. conn' = conn /\ req' \in [Conn -> Requests \cup {None}]
    BY <1>5, <2>1, <2>2, ReplyType DEF Authenticate
  <2>4. \A l \in Conn : req'[l] # None =>
          req[l] # None /\ req'[l].kind = req[l].kind /\ req'[l].cmd = req[l].cmd
    <3>1. req'[k].cmd = req[k].cmd
      BY <2>1, <2>2, ReplyType
    <3> QED BY <2>1, <2>2, <3>1, ReplyType
  <2> QED BY <1>5, <1>u, <2>3, <2>4 DEF Authenticate, Carried
<1>6. ASSUME NEW k \in Conn, NEW ok \in BOOLEAN, HandlePoll(k, ok) PROVE Typed'
  <2>1. StoreType' /\ FaultType'
    BY <1>6, SaveType, StoreChanges DEF HandlePoll, Dequeue
  <2>2. NextCommand \in Command \cup {None}
    BY HeadTailProperties DEF NextCommand, Stores
  <2> QED BY <1>6, <2>1, <2>2 DEF HandlePoll, Reply, Requests, Carried
<1>7. ASSUME NEW k \in Conn, NEW ok \in BOOLEAN, HandleResult(k, ok) PROVE Typed'
  <2>1. req[k].cmd \in Command
    BY <1>7 DEF HandleResult, Carried
  <2>2. StoreType' /\ FaultType'
    BY <1>7, <2>1, SaveType, StoreChanges DEF HandleResult, RecordResult
  <2>3. PICK stage \in {"answered", "refused"} : Reply(k, stage, req[k].cmd)
    BY <1>7 DEF HandleResult
  <2>4. conn' = conn /\ req' \in [Conn -> Requests \cup {None}]
    BY <1>7, <2>1, <2>3, ReplyType DEF HandleResult
  <2>5. \A l \in Conn : req'[l] # None =>
          req[l] # None /\ req'[l].kind = req[l].kind /\ req'[l].cmd = req[l].cmd
    <3>1. req[k] # None /\ req'[k].cmd = req[k].cmd
      BY <1>7, <2>1, <2>3, ReplyType DEF HandleResult
    <3> QED BY <2>1, <2>3, <3>1, ReplyType
  <2> QED BY <1>7, <2>2, <2>4, <2>5 DEF HandleResult, Carried
<1>7a. ASSUME NEW k \in Conn, RefuseResult(k) PROVE Typed'
  <2>1. req[k] # None /\ req[k].cmd \in Command \cup {None} /\ Reply(k, "refused", req[k].cmd)
    BY <1>7a DEF RefuseResult, Requests
  <2>2. PICK stage \in {"answered", "refused"} : Reply(k, stage, req[k].cmd)
    BY <2>1
  <2>3. conn' = conn /\ req' \in [Conn -> Requests \cup {None}]
    BY <1>7a, <2>1, <2>2, ReplyType DEF RefuseResult
  <2>4. \A l \in Conn : req'[l] # None =>
          req[l] # None /\ req'[l].kind = req[l].kind /\ req'[l].cmd = req[l].cmd
    <3>1. req'[k].cmd = req[k].cmd
      BY <2>1, <2>2, ReplyType
    <3> QED BY <2>1, <2>2, <3>1, ReplyType
  <2> QED BY <1>7a, <1>u, <2>3, <2>4 DEF RefuseResult, Carried
<1>8. ASSUME SetStatus PROVE Typed'
  <2>1. StoreType' /\ FaultType'
    BY <1>8, SaveType DEF SetStatus
  <2> QED BY <1>8, <2>1 DEF SetStatus, Carried
<1>9. ASSUME ServerCrash PROVE Typed'
  BY <1>9, <1>f DEF ServerCrash, Carried
<1>10. ASSUME ServerStart PROVE Typed'
  BY <1>10, <1>u, StoreChanges DEF ServerStart, Carried
<1>11. ASSUME NEW k \in Conn, Poll(k) \/ PostAgain(k) \/ HandleDone(k) PROVE Typed'
  BY <1>11, <1>u DEF Poll, PostAgain, HandleDone, Send, Requests, Carried
<1>12. ASSUME PollAnswered PROVE Typed'
  BY <1>12, <1>u DEF PollAnswered, Received, HangUp, Requests, Carried
<1>13. ASSUME ResultAccepted PROVE Typed'
  BY <1>13, <1>u DEF ResultAccepted, Received, HangUp, Requests, Carried
<1>14. ASSUME RequestFailed \/ GiveUp PROVE Typed'
  BY <1>14, <1>f, <1>u DEF RequestFailed, GiveUp, HangUp, Requests, Carried
<1>15. ASSUME NEW k \in Conn, Expire(k) PROVE Typed'
  BY <1>15, <1>u DEF Expire, Requests, Carried
<1>16. ASSUME AgentCrash \/ AgentStart PROVE Typed'
  BY <1>16, <1>f, <1>u DEF AgentCrash, AgentStart, Carried
<1>17. ASSUME UNCHANGED vars PROVE Typed'
  BY <1>17, <1>u DEF vars, Carried
<1> QED
  BY <1>1, <1>2, <1>3, <1>4, <1>5, <1>6, <1>7, <1>7a, <1>8, <1>9, <1>10, <1>11, <1>12, <1>13,
     <1>14, <1>15, <1>16, <1>17 DEF Next, Bot, Handlers, Agent

\* The types hold in every state.
LEMMA AlwaysTyped == Spec => []Typed
BY InitTyped, NextTyped, PTL DEF Spec

\* Every store, request, step and history stays in range, for any commands,
\* connections and faults.
THEOREM TypeCorrect == Spec => []TypeOK
BY AlwaysTyped, PartsAreTypeOK, PTL

-----------------------------------------------------------------------------
(* The store file *)

\* What saving does to memory and disk: the file has all of it, or what it had.
LEMMA SaveEffect ==
    ASSUME NEW store \in Stores, NEW ok \in BOOLEAN, Save(store, ok)
    PROVE  mem' = store /\ (disk' = store \/ disk' = disk)
BY DEF Save

LEMMA SaveOrUndoEffect ==
    ASSUME NEW store \in Stores, NEW ok \in BOOLEAN, SaveOrUndo(store, ok)
    PROVE  \/ mem' = store /\ disk' = store
           \/ mem' = mem /\ (disk' = mem \/ disk' = disk)
BY DEF SaveOrUndo, Save

\* A failed save leaves memory ahead of the file, never the file ahead of memory.
LEMMA NextDiskBehind == Typed /\ DiskBehind /\ [Next]_vars => DiskBehind'
<1> SUFFICES ASSUME Typed, DiskBehind, [Next]_vars PROVE DiskBehind'
  OBVIOUS
<1> USE DEF DiskBehind, serverVars
<1>m. mem \in Stores /\ disk \in Stores
  BY DEF Typed, StoreType
<1>p. mem.pending \in Seq(Command) /\ disk.pending \in Seq(Command)
  BY <1>m DEF Stores
<1>s. ASSUME disk' = mem', mem' \in Stores PROVE DiskBehind'
  <2>1. mem'.pending \in Seq(Command)
    BY <1>s DEF Stores
  <2> QED BY <1>s, <2>1, PrefixGrows
<1>b. ASSUME mem' = mem, disk' = disk PROVE DiskBehind'
  BY <1>b
<1>o. ASSUME NEW store \in Stores, NEW ok \in BOOLEAN, SaveOrUndo(store, ok) PROVE DiskBehind'
  <2>1. CASE mem' = store /\ disk' = store
    BY <1>s, <2>1
  <2>2. CASE mem' = mem /\ disk' = mem
    BY <1>m, <1>s, <2>2
  <2>3. CASE mem' = mem /\ disk' = disk
    BY <1>b, <2>3
  <2> QED BY <1>o, <2>1, <2>2, <2>3, SaveOrUndoEffect
<1>1. ASSUME NEW c \in Command, NEW ok \in BOOLEAN, Enqueue(c, ok) PROVE DiskBehind'
  <2> DEFINE store == [mem EXCEPT !.pending = Append(@, c)]
  <2>1. store \in Stores /\ store.pending = Append(mem.pending, c) /\ store.token = mem.token
    BY <1>m, StoreChanges DEF Stores
  <2>2. mem' = store /\ (disk' = store \/ disk' = disk)
    BY <1>1, <2>1, SaveEffect DEF Enqueue
  <2>3. CASE disk' = store
    BY <1>s, <2>1, <2>2, <2>3
  <2>4. CASE disk' = disk
    BY <1>p, <2>1, <2>2, <2>4, PrefixGrows
  <2> QED BY <2>2, <2>3, <2>4
<1>2. ASSUME NEW k \in Conn, NEW ok \in BOOLEAN, HandleResult(k, ok) PROVE DiskBehind'
  <2> DEFINE store == [mem EXCEPT !.recent = LastOf(Append(@, req[k].cmd))]
  <2>0. req[k].cmd \in Command
    BY <1>2 DEF HandleResult, Typed, Carried
  <2>1. store \in Stores /\ store.pending = mem.pending /\ store.token = mem.token
    BY <1>m, <2>0, StoreChanges DEF Stores
  <2>2. mem' = store /\ (disk' = store \/ disk' = disk)
    BY <1>2, <2>1, SaveEffect DEF HandleResult, RecordResult
  <2>3. CASE disk' = store
    BY <1>s, <2>1, <2>2, <2>3
  <2>4. CASE disk' = disk
    BY <2>1, <2>2, <2>4
  <2> QED BY <2>2, <2>3, <2>4
<1>3. ASSUME NEW ok \in BOOLEAN, AddRouter(ok) PROVE DiskBehind'
  <2>1. issued + 1 \in Token
    BY <1>3, TokenAssumption DEF AddRouter, Token, Typed, ServerType
  <2> QED BY <1>3, <1>m, <1>o, <2>1, StoreChanges DEF AddRouter
<1>4. ASSUME NEW ok \in BOOLEAN, RemoveRouter(ok) PROVE DiskBehind'
  BY <1>4, <1>m, <1>o, StoreChanges DEF RemoveRouter
<1>5. ASSUME NEW k \in Conn, NEW ok \in BOOLEAN, HandlePoll(k, ok) PROVE DiskBehind'
  BY <1>5, <1>m, <1>o, StoreChanges DEF HandlePoll, Dequeue
<1>6. ASSUME SetStatus PROVE DiskBehind'
  BY <1>6, <1>m, <1>s DEF SetStatus, Save
<1>7. ASSUME ServerCrash PROVE DiskBehind'
  BY <1>7, <1>m, <1>s DEF ServerCrash
<1>8. ASSUME ServerStart PROVE DiskBehind'
  BY <1>8, <1>m, <1>s, StoreChanges DEF ServerStart
<1>9. ASSUME NEW c \in Command, CheckRouter(c) \/ AwaitResult(c) PROVE DiskBehind'
  BY <1>9, <1>b DEF CheckRouter, AwaitResult
<1>10. ASSUME NEW k \in Conn, Authenticate(k) \/ RefuseResult(k) \/ Poll(k) \/ PostAgain(k)
                                \/ HandleDone(k) \/ Expire(k)
       PROVE DiskBehind'
  BY <1>10, <1>b DEF Authenticate, RefuseResult, Poll, PostAgain, HandleDone, Expire
<1>11. ASSUME PollAnswered \/ ResultAccepted \/ RequestFailed \/ AgentStart \/ GiveUp \/ AgentCrash
       PROVE DiskBehind'
  BY <1>11, <1>b DEF PollAnswered, ResultAccepted, RequestFailed, AgentStart, GiveUp, AgentCrash
<1>12. ASSUME UNCHANGED vars PROVE DiskBehind'
  BY <1>12, <1>b DEF vars
<1> QED
  BY <1>1, <1>2, <1>3, <1>4, <1>5, <1>6, <1>7, <1>8, <1>9, <1>10, <1>11, <1>12
     DEF Next, Bot, Handlers, Agent

\* For any number of commands and faults: what is on disk is never ahead of
\* memory, so a restart cannot bring back a command already handed out.
THEOREM DiskNeverAhead == Spec => []DiskBehind
<1>1. Init => DiskBehind
  <2>1. <<>> \in Seq(Command)
    BY EmptySeq
  <2>2. IsPrefix(<<>>, <<>>)
    BY <2>1, PrefixGrows
  <2> QED BY <2>2 DEF Init, DiskBehind, EmptyStore
<1> QED BY <1>1, NextDiskBehind, AlwaysTyped, PTL DEF Spec

\* For any number of restarts and registrations: only AddRouter registers a
\* router that a start of the server has already seen, and with a new token.
THEOREM RemovedStaysRemoved == Spec => RevokedForGood
<1> DEFINE A == mem.seeded /\ mem'.token # mem.token => mem'.token \in {0, issued + 1}
<1>1. ASSUME Typed, DiskBehind, [Next]_vars PROVE [A]_vars
  <2> SUFFICES ASSUME mem.seeded, mem'.token # mem.token PROVE mem'.token \in {0, issued + 1}
    OBVIOUS
  <2>m. mem \in Stores /\ disk \in Stores
    BY <1>1 DEF Typed, StoreType
  <2>1. ASSUME NEW ok \in BOOLEAN, AddRouter(ok) PROVE mem'.token = issued + 1
    BY <2>m, <2>1 DEF AddRouter, SaveOrUndo, Save, Stores
  <2>2. ASSUME NEW ok \in BOOLEAN, RemoveRouter(ok) PROVE mem'.token = 0
    BY <2>m, <2>2 DEF RemoveRouter, SaveOrUndo, Save, Stores
  <2>3. ASSUME NEW c \in Command, NEW ok \in BOOLEAN PROVE ~ Enqueue(c, ok)
    BY <2>m DEF Enqueue, Save, Stores
  <2>4. ASSUME NEW k \in Conn, NEW ok \in BOOLEAN PROVE ~ HandlePoll(k, ok) /\ ~ HandleResult(k, ok)
    BY <2>m DEF HandlePoll, Dequeue, Dequeued, SaveOrUndo, HandleResult, RecordResult, Save, Stores
  <2>5. ~ SetStatus /\ ~ ServerCrash /\ ~ ServerStart
    BY <1>1, <2>m DEF SetStatus, Save, ServerCrash, DiskBehind, ServerStart, Seeded
  <2>6. mem' # mem
    OBVIOUS
  <2>7. ASSUME NEW c \in Command PROVE ~ CheckRouter(c) /\ ~ AwaitResult(c)
    BY <2>6 DEF CheckRouter, AwaitResult
  <2>8. ASSUME NEW k \in Conn
        PROVE ~ (Authenticate(k) \/ RefuseResult(k) \/ Poll(k) \/ PostAgain(k)
                 \/ HandleDone(k) \/ Expire(k))
    BY <2>6 DEF Authenticate, RefuseResult, Poll, PostAgain, HandleDone, Expire, serverVars
  <2>9. ~ (PollAnswered \/ ResultAccepted \/ RequestFailed \/ AgentStart \/ GiveUp \/ AgentCrash)
    BY <2>6 DEF PollAnswered, ResultAccepted, RequestFailed, AgentStart, GiveUp, AgentCrash,
                serverVars
  <2>10. ~ UNCHANGED vars
    BY <2>6 DEF vars
  <2> QED
    BY <1>1, <2>1, <2>2, <2>3, <2>4, <2>5, <2>7, <2>8, <2>9, <2>10 DEF Next, Bot, Handlers, Agent
<1> QED BY <1>1, AlwaysTyped, DiskNeverAhead, PTL DEF Spec, RevokedForGood

-----------------------------------------------------------------------------
(* The steps of CommandDelivery, command by command *)

\* Nothing moves.
LEMMA StutterStep ==
    ASSUME mem'.pending = mem.pending, \A c \in Command : StatusOf(c)' = StatusOf(c)
    PROVE  UNCHANGED Delivery!deliveryVars
BY DEF Delivery!deliveryVars

\* One command moves on.
LEMMA MoveStep ==
    ASSUME mem'.pending = mem.pending, NEW c \in Command, NEW to, StatusOf(c)' = to,
           \A d \in Command \ {c} : StatusOf(d)' = StatusOf(d)
    PROVE  Delivery!Move(c, StatusOf(c), to)
BY DEF Delivery!Move

\* One command joins the line.
LEMMA QueueStep ==
    ASSUME NEW c \in Command, StatusOf(c) = "new", StatusOf(c)' = "queued",
           \A d \in Command \ {c} : StatusOf(d)' = StatusOf(d),
           mem'.pending = Append(mem.pending, c)
    PROVE  Delivery!Queue(c)
BY DEF Delivery!Queue

\* The first of the line is taken.
LEMMA TakeStep ==
    ASSUME NEW c \in Command, mem.pending # <<>>, c = Head(mem.pending),
           mem'.pending = Tail(mem.pending), StatusOf(c)' = "taken",
           \A d \in Command \ {c} : StatusOf(d)' = StatusOf(d),
           \A d \in Command : StatusOf(d) \notin {"taken", "running", "done"}
    PROVE  Delivery!Take
BY DEF Delivery!Take, Delivery!Busy

\* Commands S are lost, and m to n of the line are left.
LEMMA LoseStep ==
    ASSUME NEW S \in SUBSET Command,
           NEW m \in 1 .. Len(mem.pending) + 1, NEW n \in 0 .. Len(mem.pending),
           \A c \in S : /\ StatusOf(c) \in {"queued", "taken", "running", "done"}
                        /\ StatusOf(c)' = "lost",
           \A c \in Command \ S : StatusOf(c)' = StatusOf(c),
           \A i \in 1 .. Len(mem.pending) : mem.pending[i] \in S <=> i \notin m .. n,
           mem'.pending = SubSeq(mem.pending, m, n)
    PROVE  Delivery!Next
<1>1. Delivery!Lose(S, m, n)
  BY DEF Delivery!Lose
<1> QED BY <1>1 DEF Delivery!Next

-----------------------------------------------------------------------------
(* What keeps a command from being in two places *)

\* The queue holds a command once.
Unique == \A i, j \in 1 .. Len(mem.pending) : mem.pending[i] = mem.pending[j] => i = j

\* The agent waits on a connection while it polls or posts, for an answer of
\* that kind, and what it has to report has been run and not reported.
Phases == /\ conn # None <=> agent \in {"polling", "posting"}
          /\ conn # None /\ req[conn] # None
               => req[conn].kind = IF agent = "polling" THEN "poll" ELSE "result"
          /\ reported \subseteq ran
          /\ job # None => job \in ran \ reported

\* What the bot has still to put in the queue is nowhere else.
Fresh == \A c \in Command : asked[c] \in {"new", "checked"}
            => ~ InMemory(c) /\ ~ InHand(c) /\ c \notin ran

\* What is in the queue is not on its way, and neither has been run.
Apart == \A c \in Command : /\ InMemory(c) => ~ InHand(c)
                            /\ InMemory(c) \/ InHand(c) => c \notin ran

Sound == Unique /\ Phases /\ Fresh /\ Apart

Refined == Delivery!Next \/ UNCHANGED Delivery!deliveryVars

\* Where no command appears and none is run, they stay apart.
LEMMA StaysSound ==
    ASSUME Sound, Unique', Phases', UNCHANGED ran,
           \A c \in Command : InMemory(c)' => InMemory(c),
           \A c \in Command : InHand(c)' => InHand(c),
           \A c \in Command : asked'[c] \in {"new", "checked"} => asked[c] \in {"new", "checked"}
    PROVE  Sound'
BY DEF Sound, Fresh, Apart

\* Where nothing comes or goes, every status stays.
LEMMA StatusStays ==
    ASSUME NEW c \in Command, InMemory(c)' <=> InMemory(c), InHand(c)' <=> InHand(c),
           UNCHANGED <<job, reported>>, agent' = "running" <=> agent = "running",
           asked'[c] \in {"new", "checked"} <=> asked[c] \in {"new", "checked"}
    PROVE  StatusOf(c)' = StatusOf(c)
BY DEF StatusOf

\* The queue unchanged holds the same commands.
LEMMA SameLine ==
    ASSUME mem'.pending = mem.pending
    PROVE  /\ \A c \in Command : InMemory(c)' <=> InMemory(c)
           /\ Unique => Unique'
BY DEF InMemory, Unique

\* Requests and agent unchanged, the same answer is on its way.
LEMMA SameHand ==
    ASSUME UNCHANGED <<req, agent, conn>>
    PROVE  \A c \in Command : InHand(c)' <=> InHand(c)
BY DEF InHand, Received

\* Initially nothing is anywhere.
LEMMA InitSound == Init => Sound /\ Delivery!Init
<1> SUFFICES ASSUME Init PROVE Sound /\ Delivery!Init
  OBVIOUS
<1>1. mem.pending = <<>> /\ Len(mem.pending) = 0
  BY DEF Init, EmptyStore
<1>2. \A c \in Command : ~ InMemory(c) /\ ~ InHand(c)
  BY <1>1 DEF Init, InMemory, InHand, EmptyStore
<1>3. Sound
  BY <1>1, <1>2 DEF Init, Sound, Unique, Phases, Fresh, Apart
<1>4. \A c \in Command : StatusOf(c) = "new"
  BY <1>2, NoneAssumption DEF Init, StatusOf
<1> QED BY <1>1, <1>3, <1>4 DEF Delivery!Init

\* Steps of the bot and the server that move no command.
LEMMA QuietStep ==
    ASSUME Sound, mem'.pending = mem.pending, UNCHANGED <<req, agentVars, history>>,
           \A c \in Command : asked'[c] \in {"new", "checked"} <=> asked[c] \in {"new", "checked"}
    PROVE  Sound' /\ Refined
<1>1. UNCHANGED <<req, agent, conn, job, reported, ran>>
  BY DEF agentVars, history
<1>2. \A c \in Command : (InMemory(c)' <=> InMemory(c)) /\ (InHand(c)' <=> InHand(c))
  BY <1>1, SameLine, SameHand
<1>3. Unique'
  BY SameLine DEF Sound
<1>4. Phases'
  BY <1>1 DEF Sound, Phases
<1>5. Sound'
  BY <1>1, <1>2, <1>3, <1>4, StaysSound
<1>6. \A c \in Command : StatusOf(c)' = StatusOf(c)
  BY <1>1, <1>2, StatusStays
<1> QED BY <1>5, <1>6, StutterStep DEF Refined

-----------------------------------------------------------------------------
(* The bot and the store *)

\* Where asked[c] takes one step, whether a command is still to be queued.
LEMMA AskedStep ==
    ASSUME ServerType, NEW c \in Command, NEW after, asked' = [asked EXCEPT ![c] = after]
    PROVE  asked'[c] = after /\ \A d \in Command \ {c} : asked'[d] = asked[d]
BY DEF ServerType

\* A question, an answer, a registration and a save move no command.
LEMMA BotRefines ==
    ASSUME Typed, Sound
    PROVE  /\ \A c \in Command : CheckRouter(c) \/ AwaitResult(c) => Sound' /\ Refined
           /\ \A ok \in BOOLEAN : AddRouter(ok) => Sound' /\ Refined
           /\ SetStatus \/ ServerStart => Sound' /\ Refined
<1>m. mem \in Stores /\ ServerType
  BY DEF Typed, StoreType
<1>1. ASSUME NEW c \in Command, CheckRouter(c) \/ AwaitResult(c) PROVE Sound' /\ Refined
  <2>1. UNCHANGED <<mem, req, agentVars, history>>
    BY <1>1 DEF CheckRouter, AwaitResult
  <2>2. \/ asked[c] = "new" /\ asked' = [asked EXCEPT ![c] = "checked"]
        \/ asked[c] = "waiting" /\ asked' = [asked EXCEPT ![c] = "answered"]
        \/ asked[c] = "waiting" /\ asked' = [asked EXCEPT ![c] = "unanswered"]
    BY <1>1 DEF CheckRouter, AwaitResult
  <2>4. \A d \in Command : asked'[d] \in {"new", "checked"} <=> asked[d] \in {"new", "checked"}
    BY <1>m, <2>2, AskedStep
  <2> QED BY <2>1, <2>4, QuietStep
<1>2. ASSUME NEW ok \in BOOLEAN, AddRouter(ok) PROVE Sound' /\ Refined
  <2>1. mem'.pending = mem.pending
    BY <1>2, <1>m DEF AddRouter, SaveOrUndo, Save, Stores
  <2>2. UNCHANGED <<asked, req, agentVars, history>>
    BY <1>2 DEF AddRouter
  <2> QED BY <2>1, <2>2, QuietStep
<1>3. ASSUME SetStatus \/ ServerStart PROVE Sound' /\ Refined
  <2>1. mem'.pending = mem.pending
    BY <1>3, <1>m DEF SetStatus, Save, ServerStart, Seeded, Stores
  <2>2. UNCHANGED <<asked, req, agentVars, history>>
    BY <1>3 DEF SetStatus, ServerStart
  <2> QED BY <2>1, <2>2, QuietStep
<1> QED BY <1>1, <1>2, <1>3

\* A new command joins the line, whether it could be saved or not.
LEMMA EnqueueRefines ==
    ASSUME Typed, Sound, NEW c \in Command, NEW ok \in BOOLEAN, Enqueue(c, ok)
    PROVE  Sound' /\ Refined
<1> DEFINE p == mem.pending
<1>m. mem \in Stores /\ ServerType /\ p \in Seq(Command)
  BY DEF Typed, StoreType, Stores
<1>1. mem'.pending = Append(p, c)
  BY <1>m DEF Enqueue, Save, Stores
<1>2. UNCHANGED <<req, agent, conn, job, ran, reported>>
  BY DEF Enqueue, agentVars, history
<1>3. asked[c] = "checked" /\ asked'[c] \in {"waiting", "refused"}
  BY <1>m, AskedStep DEF Enqueue
<1>4. \A d \in Command \ {c} : asked'[d] = asked[d]
  BY <1>m, AskedStep DEF Enqueue
<1>5. ~ InMemory(c) /\ ~ InHand(c) /\ c \notin ran /\ job # c /\ c \notin reported
  <2>1. ~ InMemory(c) /\ ~ InHand(c) /\ c \notin ran
    BY <1>3 DEF Sound, Fresh
  <2> QED BY <2>1, NoneAssumption DEF Sound, Phases
<1>6. /\ Len(mem'.pending) = Len(p) + 1 /\ DOMAIN mem'.pending = 1 .. Len(p) + 1
      /\ \A i \in 1 .. Len(p) : mem'.pending[i] = p[i]
      /\ mem'.pending[Len(p) + 1] = c
      /\ Len(p) \in Nat /\ DOMAIN p = 1 .. Len(p)
  BY <1>1, <1>m, AppendProperties, LenProperties
<1>7. \A d \in Command : InMemory(d)' <=> InMemory(d) \/ d = c
  <2>1. ASSUME NEW d \in Command, InMemory(d) PROVE InMemory(d)'
    BY <1>6, <2>1 DEF InMemory
  <2>2. InMemory(c)'
    BY <1>6 DEF InMemory
  <2>3. ASSUME NEW d \in Command, d # c, InMemory(d)' PROVE InMemory(d)
    BY <1>6, <2>3 DEF InMemory
  <2> QED BY <2>1, <2>2, <2>3
<1>8. \A d \in Command : InHand(d)' <=> InHand(d)
  BY <1>2, SameHand
<1>9. Unique'
  <2>1. \A i \in 1 .. Len(p) : p[i] # c
    BY <1>5, <1>6 DEF InMemory
  <2> QED BY <1>6, <2>1 DEF Sound, Unique
<1>10. Phases'
  BY <1>2 DEF Sound, Phases
<1>11. Fresh' /\ Apart'
  BY <1>2, <1>3, <1>4, <1>5, <1>7, <1>8 DEF Sound, Fresh, Apart
<1>12. StatusOf(c) = "new" /\ StatusOf(c)' = "queued"
  BY <1>2, <1>3, <1>5, <1>7, <1>8 DEF StatusOf
<1>13. \A d \in Command \ {c} : StatusOf(d)' = StatusOf(d)
  BY <1>2, <1>4, <1>7, <1>8, StatusStays
<1>14. Delivery!Queue(c)
  BY <1>1, <1>12, <1>13, QueueStep
<1> QED BY <1>9, <1>10, <1>11, <1>14 DEF Sound, Refined, Delivery!Next

\* What is in the queue of a sound state is queued, and nothing else.
LEMMA QueuedStatus ==
    ASSUME Sound, NEW c \in Command, InMemory(c)
    PROVE  /\ StatusOf(c) = "queued" /\ job # c /\ c \notin reported /\ ~ InHand(c)
           /\ asked[c] \notin {"new", "checked"}
<1>1. ~ InHand(c) /\ c \notin ran
  BY DEF Sound, Apart
<1>2. job # c /\ c \notin reported
  BY <1>1, NoneAssumption DEF Sound, Phases
<1> QED BY <1>1, <1>2 DEF StatusOf, Sound, Fresh

\* A removed router loses its queue, unless that could not be saved.
LEMMA RemoveRefines ==
    ASSUME Typed, Sound, NEW ok \in BOOLEAN, RemoveRouter(ok)
    PROVE  Sound' /\ Refined
<1> DEFINE p == mem.pending
<1>m. mem \in Stores /\ p \in Seq(Command)
  BY DEF Typed, StoreType, Stores
<1>1. UNCHANGED <<asked, req, agentVars, history>>
  BY DEF RemoveRouter
<1>2. CASE mem'.pending = p
  BY <1>1, <1>2, QuietStep
<1>3. CASE mem'.pending = <<>>
  <2>1. UNCHANGED <<req, agent, conn, job, ran, reported>>
    BY <1>1 DEF agentVars, history
  <2>2. Len(mem'.pending) = 0 /\ \A c \in Command : ~ InMemory(c)'
    BY <1>3 DEF InMemory
  <2>3. \A c \in Command : InHand(c)' <=> InHand(c)
    BY <2>1, SameHand
  <2>4. Unique' /\ Phases'
    BY <2>1, <2>2 DEF Sound, Unique, Phases
  <2>5. Sound'
    BY <1>1, <2>1, <2>2, <2>3, <2>4, StaysSound
  <2> DEFINE S == {c \in Command : InMemory(c)}
  <2>6. \A c \in S : StatusOf(c) = "queued" /\ StatusOf(c)' = "lost"
    BY <1>1, <2>1, <2>2, <2>3, QueuedStatus DEF StatusOf
  <2>7. \A c \in Command \ S : StatusOf(c)' = StatusOf(c)
    BY <1>1, <2>1, <2>2, <2>3, StatusStays
  <2>8. \A i \in 1 .. Len(p) : p[i] \in S
    BY <1>m, LenProperties, ElementOfSeq DEF InMemory
  <2>9. mem'.pending = SubSeq(p, 1, 0) /\ Len(p) \in Nat
    BY <1>3, <1>m, SubSeqEmpty, LenProperties
  <2>10. Delivery!Next
    <3>1. 1 \in 1 .. Len(p) + 1 /\ 0 \in 0 .. Len(p)
      BY <2>9
    <3>2. \A i \in 1 .. Len(p) : p[i] \in S <=> i \notin 1 .. 0
      BY <2>8
    <3> HIDE DEF S
    <3>3. S \in SUBSET Command
      BY DEF S
    <3> QED BY <2>6, <2>7, <2>9, <3>1, <3>2, <3>3, LoseStep
  <2> QED BY <2>5, <2>10 DEF Refined
<1> QED BY <1>2, <1>3, <1>m DEF RemoveRouter, SaveOrUndo, Save, Stores

-----------------------------------------------------------------------------
(* The HTTP server *)

\* A reply to a request the agent waits for is in hand when it is answered;
\* one nobody waits for changes nothing for it.
LEMMA ReplyInHand ==
    ASSUME Typed, NEW k \in Conn, req[k] # None,
           NEW stage \in {"authed", "answered", "refused"},
           NEW cmd \in Command \cup {None}, Reply(k, stage, cmd), UNCHANGED <<agent, conn>>
    PROVE  /\ k # conn \/ agent # "polling" => \A c \in Command : InHand(c)' <=> InHand(c)
           /\ k = conn /\ stage # "answered" => \A c \in Command : ~ InHand(c)'
           /\ k = conn /\ agent = "polling" /\ stage = "answered"
                => \A c \in Command : InHand(c)' <=> c = cmd
           /\ req' \in [Conn -> Requests \cup {None}]
           /\ \A l \in Conn : req'[l] # None => req[l] # None /\ req'[l].kind = req[l].kind
<1>t. RequestType
  BY DEF Typed
<1>1. /\ req' \in [Conn -> Requests \cup {None}]
      /\ req'[k].stage = stage /\ req'[k].cmd = cmd
      /\ \A l \in Conn \ {k} : req'[l] = req[l]
      /\ \A l \in Conn : req'[l] # None => req[l] # None /\ req'[l].kind = req[l].kind
  BY <1>t, ReplyType
<1>2. req'[k] # None
  BY <1>t, NoneAssumption DEF RequestType, Reply, Requests
<1>3. conn \in Conn \cup {None} /\ conn' = conn /\ agent' = agent
  BY <1>t DEF RequestType
<1>4. k # conn \/ agent # "polling" => \A c \in Command : InHand(c)' <=> InHand(c)
  BY <1>1, <1>3 DEF InHand, Received
<1>5. k = conn /\ stage # "answered" => \A c \in Command : ~ InHand(c)'
  BY <1>1, <1>3 DEF InHand, Received
<1>6. k = conn /\ agent = "polling" /\ stage = "answered"
        => \A c \in Command : InHand(c)' <=> c = cmd
  BY <1>1, <1>2, <1>3, NoneAssumption DEF InHand, Received
<1> QED BY <1>1, <1>4, <1>5, <1>6

\* A request that is authenticated, refused, or not answered with a command.
LEMMA QuietReply ==
    ASSUME Typed, Sound, mem'.pending = mem.pending, UNCHANGED <<asked, agentVars, history>>,
           NEW k \in Conn, req[k] # None, NEW stage \in {"authed", "answered", "refused"},
           NEW cmd \in Command \cup {None}, Reply(k, stage, cmd),
           k = conn /\ agent = "polling" => stage # "answered" /\ req[k].stage # "answered"
    PROVE  Sound' /\ Refined
<1>1. UNCHANGED <<agent, conn, job, ran, reported>>
  BY DEF agentVars, history
<1>2. \A c \in Command : InHand(c)' <=> InHand(c)
  <2>1. CASE k # conn \/ agent # "polling"
    BY <1>1, <2>1, ReplyInHand
  <2>2. CASE k = conn /\ agent = "polling"
    BY <1>1, <2>2, ReplyInHand DEF InHand, Received
  <2> QED BY <2>1, <2>2
<1>3. \A c \in Command : InMemory(c)' <=> InMemory(c)
  BY SameLine
<1>4. Unique'
  BY SameLine DEF Sound
<1>5. Phases'
  <2>1. conn \in Conn \cup {None}
    BY DEF Typed, RequestType
  <2>2. \A l \in Conn : req'[l] # None => req[l] # None /\ req'[l].kind = req[l].kind
    BY <1>1, ReplyInHand
  <2> QED BY <1>1, <2>1, <2>2 DEF Sound, Phases
<1>6. Sound'
  BY <1>1, <1>2, <1>3, <1>4, <1>5, StaysSound
<1>7. \A c \in Command : StatusOf(c)' = StatusOf(c)
  BY <1>1, <1>2, <1>3, StatusStays
<1> QED BY <1>6, <1>7, StutterStep DEF Refined

\* Authentication and results move no command.
LEMMA RequestRefines ==
    ASSUME Typed, Sound, NEW k \in Conn
    PROVE  /\ Authenticate(k) => Sound' /\ Refined
           /\ RefuseResult(k) => Sound' /\ Refined
           /\ \A ok \in BOOLEAN : HandleResult(k, ok) => Sound' /\ Refined
<1>m. mem \in Stores /\ RequestType
  BY DEF Typed, StoreType
<1>1. ASSUME Authenticate(k) PROVE Sound' /\ Refined
  <2>1. /\ req[k] # None /\ req[k].stage = "sent"
        /\ mem' = mem /\ UNCHANGED <<asked, agentVars, history>>
    BY <1>1 DEF Authenticate, serverVars
  <2>2. req[k].cmd \in Command \cup {None}
    BY <1>m, <2>1 DEF RequestType, Requests
  <2>3. PICK stage \in {"authed", "refused"} : Reply(k, stage, req[k].cmd)
    BY <1>1 DEF Authenticate
  <2> QED BY <2>1, <2>2, <2>3, QuietReply
<1>1a. ASSUME RefuseResult(k) PROVE Sound' /\ Refined
  <2>1. /\ req[k] # None /\ req[k].kind = "result" /\ Reply(k, "refused", req[k].cmd)
        /\ mem' = mem /\ UNCHANGED <<asked, agentVars, history>>
    BY <1>1a DEF RefuseResult, serverVars
  <2>2. req[k].cmd \in Command \cup {None}
    BY <1>m, <2>1 DEF RequestType, Requests
  <2>3. PICK stage \in {"answered", "refused"} : Reply(k, stage, req[k].cmd)
    BY <2>1
  <2>4. ~ (k = conn /\ agent = "polling")
    BY <2>1, NoneAssumption DEF Sound, Phases
  <2> QED BY <2>1, <2>2, <2>3, <2>4, QuietReply
<1>2. ASSUME NEW ok \in BOOLEAN, HandleResult(k, ok) PROVE Sound' /\ Refined
  <2>1. /\ req[k] # None /\ req[k].kind = "result"
        /\ UNCHANGED <<asked, agentVars, history>>
    BY <1>2 DEF HandleResult
  <2>2. req[k].cmd \in Command \cup {None}
    BY <1>m, <2>1 DEF RequestType, Requests
  <2>3. mem'.pending = mem.pending
    BY <1>2, <1>m DEF HandleResult, RecordResult, Save, Stores
  <2>4. ~ (k = conn /\ agent = "polling")
    BY <2>1, NoneAssumption DEF Sound, Phases
  <2>5. PICK stage \in {"answered", "refused"} : Reply(k, stage, req[k].cmd)
    BY <1>2 DEF HandleResult
  <2> QED BY <2>1, <2>2, <2>3, <2>4, <2>5, QuietReply
<1> QED BY <1>1, <1>1a, <1>2

\* A poll takes the first command of the line, or loses it when the agent has
\* given that poll up.
LEMMA PollRefines ==
    ASSUME Typed, Sound, NEW k \in Conn, NEW ok \in BOOLEAN, HandlePoll(k, ok)
    PROVE  Sound' /\ Refined
<1> DEFINE p == mem.pending
<1>m. mem \in Stores /\ RequestType /\ p \in Seq(Command) /\ Len(p) \in Nat
  BY LenProperties DEF Typed, StoreType, Stores
<1>k. /\ req[k] # None /\ req[k].kind = "poll" /\ req[k].stage = "authed"
      /\ UNCHANGED <<asked, agentVars, history>>
  BY DEF HandlePoll
<1>1. CASE ~ ok
  <2>1. mem'.pending = p /\ Reply(k, "refused", None)
    BY <1>1 DEF HandlePoll, Dequeue, SaveOrUndo, Save
  <2> QED BY <1>k, <2>1, QuietReply
<1>2. CASE ok /\ p = <<>>
  <2>1. mem'.pending = p /\ Reply(k, "answered", None)
    BY <1>2, <1>m DEF HandlePoll, Dequeue, Dequeued, NextCommand, SaveOrUndo, Save, Stores
  <2>2. UNCHANGED <<agent, conn, job, ran, reported>>
    BY <1>k DEF agentVars, history
  <2>3. \A c \in Command : InHand(c)' <=> InHand(c)
    <3>1. CASE k # conn \/ agent # "polling"
      BY <1>k, <2>1, <2>2, <3>1, ReplyInHand
    <3>2. CASE k = conn /\ agent = "polling"
      BY <1>k, <2>1, <2>2, <3>2, ReplyInHand, NoneAssumption DEF InHand, Received
    <3> QED BY <3>1, <3>2
  <2>4. Phases'
    <3>1. conn \in Conn \cup {None}
      BY <1>m DEF RequestType
    <3>2. \A l \in Conn : req'[l] # None => req[l] # None /\ req'[l].kind = req[l].kind
      BY <1>k, <2>1, <2>2, ReplyInHand
    <3> QED BY <2>2, <3>1, <3>2 DEF Sound, Phases
  <2>5. Sound'
    BY <1>k, <2>1, <2>2, <2>3, <2>4, SameLine, StaysSound DEF Sound
  <2>6. \A c \in Command : StatusOf(c)' = StatusOf(c)
    BY <1>k, <2>1, <2>2, <2>3, SameLine, StatusStays
  <2> QED BY <2>1, <2>5, <2>6, StutterStep DEF Refined
<1>3. CASE ok /\ p # <<>>
  <2>0. PICK h \in Command : h = Head(p)
    BY <1>3, <1>m, HeadTailProperties
  <2>1. mem'.pending = Tail(p) /\ Reply(k, "answered", h)
    BY <1>3, <1>m, <2>0 DEF HandlePoll, Dequeue, Dequeued, NextCommand, SaveOrUndo, Save, Stores
  <2>2. UNCHANGED <<agent, conn, job, ran, reported>>
    BY <1>k DEF agentVars, history
  <2>3. h \in Command /\ h = p[1] /\ Len(p) >= 1
    BY <1>3, <1>m, <2>0, HeadTailProperties
  <2>4. /\ Len(mem'.pending) = Len(p) - 1 /\ DOMAIN mem'.pending = 1 .. Len(p) - 1
        /\ \A i \in 1 .. Len(p) - 1 : mem'.pending[i] = p[i + 1]
        /\ DOMAIN p = 1 .. Len(p)
    BY <1>3, <1>m, <2>1, HeadTailProperties, LenProperties
  <2>5. \A c \in Command : InMemory(c)' <=> InMemory(c) /\ c # h
    <3>1. ASSUME NEW c \in Command, InMemory(c)' PROVE InMemory(c) /\ c # h
      <4>1. PICK i \in 1 .. Len(p) - 1 : p[i + 1] = c
        BY <2>4, <3>1 DEF InMemory
      <4>2. i + 1 \in 1 .. Len(p) /\ 1 \in 1 .. Len(p) /\ i + 1 # 1
        BY <1>m, <2>3
      <4> QED BY <2>3, <2>4, <4>1, <4>2 DEF InMemory, Sound, Unique
    <3>2. ASSUME NEW c \in Command, InMemory(c), c # h PROVE InMemory(c)'
      <4>1. PICK i \in 1 .. Len(p) : p[i] = c
        BY <2>4, <3>2 DEF InMemory
      <4>2. i # 1 /\ i - 1 \in 1 .. Len(p) - 1 /\ (i - 1) + 1 = i
        BY <1>m, <2>3, <3>2, <4>1
      <4> QED BY <2>4, <4>1, <4>2 DEF InMemory
    <3> QED BY <3>1, <3>2
  <2>6. Unique'
    BY <1>m, <2>4 DEF Sound, Unique
  <2>7. Phases'
    <3>1. conn \in Conn \cup {None}
      BY <1>m DEF RequestType
    <3>2. \A l \in Conn : req'[l] # None => req[l] # None /\ req'[l].kind = req[l].kind
      BY <1>k, <2>1, <2>2, <2>3, ReplyInHand
    <3> QED BY <2>2, <3>1, <3>2 DEF Sound, Phases
  <2>8. InMemory(h)
    <3>1. 1 \in DOMAIN p
      BY <1>m, <2>3, <2>4
    <3> QED BY <2>3, <3>1 DEF InMemory
  <2>9. /\ StatusOf(h) = "queued" /\ job # h /\ h \notin reported /\ h \notin ran
        /\ asked[h] \notin {"new", "checked"} /\ ~ InHand(h)
    BY <2>3, <2>8, QueuedStatus DEF Sound, Apart
  <2> HIDE DEF p
  <2>10. CASE k = conn /\ agent = "polling"
    <3>1. \A c \in Command : ~ InHand(c)
      BY <1>k, <2>10 DEF InHand, Received
    <3>2. \A c \in Command : InHand(c)' <=> c = h
      BY <1>k, <2>1, <2>2, <2>3, <2>10, ReplyInHand
    <3>3. Fresh' /\ Apart'
      BY <1>k, <2>2, <2>5, <2>9, <3>1, <3>2 DEF Sound, Fresh, Apart
    <3>4. StatusOf(h)' = "taken"
      BY <2>2, <2>3, <2>9, <3>2 DEF StatusOf
    <3>5. \A c \in Command \ {h} : StatusOf(c)' = StatusOf(c)
      BY <1>k, <2>2, <2>5, <3>1, <3>2, StatusStays
    <3>6. job = None
      BY <2>10 DEF Typed, Carried
    <3>7. \A c \in Command : StatusOf(c) \notin {"taken", "running", "done"}
      BY <3>1, <3>6, NoneAssumption DEF StatusOf
    <3>8. Delivery!Take
      BY <1>3, <2>0, <2>1, <3>4, <3>5, <3>7, TakeStep DEF p
    <3> QED BY <2>6, <2>7, <3>3, <3>8 DEF Sound, Refined, Delivery!Next
  <2>11. CASE ~ (k = conn /\ agent = "polling")
    <3>1. \A c \in Command : InHand(c)' <=> InHand(c)
      BY <1>k, <2>1, <2>2, <2>3, <2>11, ReplyInHand
    <3>2. Sound'
      BY <1>k, <2>2, <2>5, <2>6, <2>7, <3>1, StaysSound
    <3>3. StatusOf(h)' = "lost"
      BY <1>k, <2>2, <2>3, <2>5, <2>9, <3>1 DEF StatusOf
    <3>4. \A c \in Command \ {h} : StatusOf(c)' = StatusOf(c)
      BY <1>k, <2>2, <2>5, <3>1, StatusStays
    <3>5. \A i \in 1 .. Len(p) : p[i] \in {h} <=> i \notin 2 .. Len(p)
      BY <1>m, <2>3 DEF Sound, Unique, p
    <3>6. mem'.pending = SubSeq(p, 2, Len(p))
      BY <1>3, <1>m, <2>1, TailIsSubSeq DEF p
    <3>7. 2 \in 1 .. Len(p) + 1 /\ Len(p) \in 0 .. Len(p)
      BY <1>m, <2>3
    <3>8. Delivery!Next
      <4>1. PICK S \in SUBSET Command : S = {h}
        BY <2>3
      <4>2. \A c \in S : StatusOf(c) = "queued" /\ StatusOf(c)' = "lost"
        BY <2>9, <3>3, <4>1
      <4>3. \A c \in Command \ S : StatusOf(c)' = StatusOf(c)
        BY <3>4, <4>1
      <4>4. \A i \in 1 .. Len(p) : p[i] \in S <=> i \notin 2 .. Len(p)
        BY <3>5, <4>1
      <4> QED BY <3>6, <3>7, <4>2, <4>3, <4>4, LoseStep DEF p
    <3> QED BY <3>2, <3>8 DEF Refined
  <2> QED BY <2>10, <2>11
<1> QED BY <1>1, <1>2, <1>3

\* A crash loses what was not on disk yet, and the answer on its way.
LEMMA CrashRefines ==
    ASSUME Typed, DiskBehind, Sound, ServerCrash
    PROVE  Sound' /\ Refined
<1> DEFINE p == mem.pending
           q == disk.pending
<1>m. /\ p \in Seq(Command) /\ q \in Seq(Command) /\ Len(p) \in Nat /\ Len(q) \in Nat
      /\ DOMAIN p = 1 .. Len(p) /\ DOMAIN q = 1 .. Len(q)
  BY LenProperties DEF Typed, StoreType, Stores
<1>1. Len(q) <= Len(p) /\ \A i \in 1 .. Len(q) : q[i] = p[i]
  BY <1>m, PrefixPointwise DEF DiskBehind
<1>2. mem'.pending = q
  BY DEF ServerCrash
<1>3. UNCHANGED <<agent, conn, job, ran, reported>>
  BY DEF ServerCrash, agentVars, history
<1>4. \A c \in Command : asked'[c] \in {"new", "checked"} <=> asked[c] \in {"new", "checked"}
  BY DEF ServerCrash
<1>5. \A k \in Conn : req'[k] = None
  BY DEF ServerCrash
<1>6. \A c \in Command : ~ InHand(c)'
  BY <1>3, <1>5 DEF InHand, Received, Typed, RequestType
<1>7. \A c \in Command : InMemory(c)' => InMemory(c)
  BY <1>m, <1>1, <1>2 DEF InMemory
<1>8. \A i \in 1 .. Len(p) : p[i] \in Command /\ InMemory(p[i])
  BY <1>m, ElementOfSeq DEF InMemory
<1>9. Unique'
  BY <1>m, <1>1, <1>2 DEF Sound, Unique
<1>10. Phases'
  BY <1>3, <1>5 DEF Sound, Phases, Typed, RequestType
<1>11. Sound'
  BY <1>3, <1>4, <1>6, <1>7, <1>9, <1>10, StaysSound
<1>12. PICK S \in SUBSET Command :
          \A c \in Command : c \in S <=> InHand(c) \/ (InMemory(c) /\ \A i \in 1 .. Len(q) : q[i] # c)
  <2> DEFINE S == {c \in Command : InHand(c) \/ (InMemory(c) /\ \A i \in 1 .. Len(q) : q[i] # c)}
  <2>1. \A c \in Command : c \in S <=> InHand(c) \/ (InMemory(c) /\ \A i \in 1 .. Len(q) : q[i] # c)
    OBVIOUS
  <2> HIDE DEF S
  <2>2. S \in SUBSET Command
    BY DEF S
  <2> QED BY <2>1, <2>2
<1>13. \A c \in Command : InMemory(c)' <=> \E i \in 1 .. Len(q) : q[i] = c
  BY <1>m, <1>2 DEF InMemory
<1>14. \A i \in 1 .. Len(p) : p[i] \in S <=> i \notin 1 .. Len(q)
  <2> SUFFICES ASSUME NEW i \in 1 .. Len(p) PROVE p[i] \in S <=> i \notin 1 .. Len(q)
    OBVIOUS
  <2>1. p[i] \in S <=> \A j \in 1 .. Len(q) : q[j] # p[i]
    BY <1>8, <1>12 DEF Sound, Apart
  <2> QED BY <1>m, <1>1, <2>1 DEF Sound, Unique
<1>15. ASSUME NEW c \in S
       PROVE  StatusOf(c) \in {"queued", "taken"} /\ StatusOf(c)' = "lost"
  <2>1. c \in Command /\ ~ InHand(c)' /\ ~ InMemory(c)'
    <3>1. c \in Command /\ ~ InHand(c)'
      BY <1>6
    <3>2. InMemory(c)' => FALSE
      BY <1>7, <1>12, <1>13 DEF Sound, Apart
    <3> QED BY <3>1, <3>2
  <2>2. CASE InMemory(c)
    BY <1>3, <1>4, <2>1, <2>2, QueuedStatus DEF StatusOf
  <2>3. CASE InHand(c)
    <3>1. c \notin ran /\ c \notin reported /\ asked[c] \notin {"new", "checked"}
      BY <2>1, <2>3 DEF Sound, Apart, Fresh, Phases
    <3>2. job # c
      BY <2>1, <3>1, NoneAssumption DEF Sound, Phases
    <3> QED BY <1>3, <1>4, <2>1, <2>3, <3>1, <3>2 DEF StatusOf
  <2> QED BY <1>12, <2>1, <2>2, <2>3
<1>16. \A c \in Command \ S : StatusOf(c)' = StatusOf(c)
  <2> SUFFICES ASSUME NEW c \in Command \ S PROVE StatusOf(c)' = StatusOf(c)
    OBVIOUS
  <2>1. ~ InHand(c) /\ (InMemory(c)' <=> InMemory(c))
    BY <1>7, <1>12, <1>13
  <2> QED BY <1>3, <1>4, <1>6, <2>1, StatusStays
<1>17. mem'.pending = SubSeq(p, 1, Len(q))
  BY <1>m, <1>1, <1>2, SubSeqFull DEF DiskBehind, IsPrefix
<1>18. 1 \in 1 .. Len(p) + 1 /\ Len(q) \in 0 .. Len(p)
  BY <1>m, <1>1
<1>19. Delivery!Next
  <2>1. PICK n \in 0 .. Len(p) : n = Len(q)
    BY <1>18
  <2>2. \A i \in 1 .. Len(p) : p[i] \in S <=> i \notin 1 .. n
    BY <1>14, <2>1
  <2> QED BY <1>15, <1>16, <1>17, <1>18, <2>1, <2>2, LoseStep
<1> QED BY <1>11, <1>19 DEF Refined

-----------------------------------------------------------------------------
(* The agent *)

\* Polling, posting, giving up and restarting: an answer on its way or a
\* command in the agent's hands may be lost, and nothing else happens.
LEMMA DropStep ==
    ASSUME Typed, Sound, mem'.pending = mem.pending, UNCHANGED <<asked, history>>, Phases',
           \A c \in Command : InHand(c)' => InHand(c),
           job' \in {job, None},
           job' = job => (agent' = "running" <=> agent = "running")
    PROVE  Sound' /\ Refined
<1> DEFINE p == mem.pending
<1>m. p \in Seq(Command) /\ Len(p) \in Nat
  BY LenProperties DEF Typed, StoreType, Stores
<1>h. UNCHANGED <<ran, reported>>
  BY DEF history
<1>1. \A c \in Command : InMemory(c)' <=> InMemory(c)
  BY SameLine
<1>2. Sound'
  BY <1>h, <1>1, SameLine, StaysSound DEF Sound
<1>3. PICK S \in SUBSET Command :
         \A c \in Command : c \in S <=> (InHand(c) /\ ~ InHand(c)') \/ (job = c /\ job' # c)
  <2> DEFINE S == {c \in Command : (InHand(c) /\ ~ InHand(c)') \/ (job = c /\ job' # c)}
  <2>1. \A c \in Command : c \in S <=> (InHand(c) /\ ~ InHand(c)') \/ (job = c /\ job' # c)
    OBVIOUS
  <2> HIDE DEF S
  <2>2. S \in SUBSET Command
    BY DEF S
  <2> QED BY <2>1, <2>2
<1>4. ASSUME NEW c \in S
      PROVE  StatusOf(c) \in {"taken", "running", "done"} /\ StatusOf(c)' = "lost" /\ ~ InMemory(c)
  <2>1. c \in Command
    OBVIOUS
  <2>2. ~ InMemory(c) /\ asked[c] \notin {"new", "checked"} /\ c \notin reported
    <3>1. CASE InHand(c)
      BY <2>1, <3>1 DEF Sound, Apart, Fresh, Phases
    <3>2. CASE job = c
      BY <2>1, <3>2, NoneAssumption DEF Sound, Apart, Fresh, Phases
    <3> QED BY <1>3, <2>1, <3>1, <3>2
  <2>3. job' # c /\ ~ InHand(c)'
    <3>1. CASE InHand(c) /\ ~ InHand(c)'
      <4>1. job # c
        BY <2>1, <3>1, NoneAssumption DEF Sound, Apart, Phases
      <4> QED BY <2>1, <3>1, <4>1, NoneAssumption
    <3>2. CASE job = c /\ job' # c
      <4>1. ~ InHand(c)
        BY <2>1, <3>2, NoneAssumption DEF Sound, Apart, Phases
      <4> QED BY <2>1, <3>2, <4>1
    <3> QED BY <1>3, <2>1, <3>1, <3>2
  <2>4. StatusOf(c)' = "lost"
    BY <1>h, <1>1, <2>1, <2>2, <2>3 DEF StatusOf
  <2>5. StatusOf(c) \in {"taken", "running", "done"}
    BY <1>3, <2>1, <2>2 DEF StatusOf
  <2> QED BY <2>2, <2>4, <2>5
<1>5. \A c \in Command \ S : StatusOf(c)' = StatusOf(c)
  <2> SUFFICES ASSUME NEW c \in Command \ S PROVE StatusOf(c)' = StatusOf(c)
    OBVIOUS
  <2>1. InHand(c)' <=> InHand(c)
    BY <1>3
  <2>2. (job' = c <=> job = c) /\ (job = c => job' = job)
    BY <1>3, NoneAssumption
  <2> QED BY <1>h, <1>1, <2>1, <2>2 DEF StatusOf
<1>6. \A i \in 1 .. Len(p) : p[i] \in S <=> i \notin 1 .. Len(p)
  BY <1>m, <1>4, LenProperties DEF InMemory
<1>7. mem'.pending = SubSeq(p, 1, Len(p))
  BY <1>m, SubSeqFull
<1>8. Delivery!Next
  <2>1. 1 \in 1 .. Len(p) + 1
    BY <1>m
  <2>2. PICK n \in 0 .. Len(p) : n = Len(p)
    BY <1>m
  <2>3. \A i \in 1 .. Len(p) : p[i] \in S <=> i \notin 1 .. n
    BY <1>6, <2>2
  <2> QED BY <1>4, <1>5, <1>7, <2>1, <2>2, <2>3, LoseStep
<1> QED BY <1>2, <1>8 DEF Refined

\* A request sent is not answered yet.
LEMMA SendEffect ==
    ASSUME RequestType, NEW k \in Conn, NEW kind, NEW cmd, Send(k, kind, cmd)
    PROVE  conn' = k /\ req'[k].stage = "sent" /\ req'[k].kind = kind
BY DEF RequestType, Send

\* A request of the agent's, given up on, or closed, is nobody's.
LEMMA AgentDrops ==
    ASSUME Typed, Sound
    PROVE  /\ \A k \in Conn : Poll(k) \/ PostAgain(k) \/ Expire(k) => Sound' /\ Refined
           /\ RequestFailed \/ GiveUp \/ AgentCrash \/ AgentStart => Sound' /\ Refined
<1>m. RequestType
  BY DEF Typed
<1>p. Phases
  BY DEF Sound
<1>1. ASSUME NEW k \in Conn, Poll(k) \/ PostAgain(k) PROVE Sound' /\ Refined
  <2>1. /\ UNCHANGED <<mem, asked, job, ran, reported>>
        /\ agent = "idle" /\ agent' \in {"polling", "posting"}
    BY <1>1 DEF Poll, PostAgain, serverVars, history
  <2>2. conn' = k /\ req'[k].stage = "sent"
        /\ req'[k].kind = IF agent' = "polling" THEN "poll" ELSE "result"
    BY <1>1, <1>m, SendEffect DEF Poll, PostAgain
  <2>3. \A c \in Command : ~ InHand(c)'
    BY <2>2 DEF InHand, Received
  <2>4. Phases'
    BY <1>p, <2>1, <2>2, NoneAssumption DEF Phases
  <2> QED BY <2>1, <2>3, <2>4, DropStep DEF history
<1>2. ASSUME NEW k \in Conn, Expire(k) PROVE Sound' /\ Refined
  <2>1. /\ UNCHANGED <<mem, asked, agent, conn, job, ran, reported>>
        /\ k # conn /\ \A l \in Conn \ {k} : req'[l] = req[l]
    BY <1>2, <1>m DEF Expire, serverVars, agentVars, history, RequestType
  <2>2. conn # None => req'[conn] = req[conn]
    BY <1>m, <2>1 DEF RequestType
  <2>3. \A c \in Command : InHand(c)' => InHand(c)
    BY <2>1, <2>2 DEF InHand, Received
  <2>4. Phases'
    BY <1>p, <2>1, <2>2 DEF Phases
  <2> QED BY <2>1, <2>3, <2>4, DropStep DEF history
<1>3. ASSUME RequestFailed \/ GiveUp \/ AgentCrash \/ AgentStart PROVE Sound' /\ Refined
  <2>1. /\ UNCHANGED <<mem, asked, ran, reported>>
        /\ agent' \in {"idle", "down"} /\ job' \in {job, None}
    BY <1>3 DEF RequestFailed, GiveUp, AgentCrash, AgentStart, serverVars, history
  <2>2. job' = job => (agent' = "running" <=> agent = "running")
    BY <1>3 DEF RequestFailed, GiveUp, AgentCrash, AgentStart, Typed, Carried
  <2>3. conn' = None
    BY <1>3, <1>p DEF RequestFailed, HangUp, GiveUp, AgentCrash, AgentStart, Phases
  <2>4. \A c \in Command : ~ InHand(c)'
    BY <2>1 DEF InHand
  <2>5. Phases'
    BY <1>p, <2>1, <2>3 DEF Phases
  <2> QED BY <2>1, <2>2, <2>4, <2>5, DropStep DEF history
<1> QED BY <1>1, <1>2, <1>3

\* The command of an answered poll is run.
LEMMA RunRefines ==
    ASSUME Typed, Sound, PollAnswered
    PROVE  Sound' /\ Refined
<1>1. /\ agent = "polling" /\ agent' # "polling" /\ conn' = None
      /\ mem' = mem /\ UNCHANGED <<asked, reported>>
      /\ job' = req[conn].cmd /\ job = None /\ ran' = ran \cup ({job'} \ {None})
      /\ agent' = IF job' = None THEN "idle" ELSE "running"
  BY DEF PollAnswered, HangUp, serverVars, Typed, Carried
<1>2. \A c \in Command : InHand(c) <=> c = job'
  BY <1>1 DEF PollAnswered, InHand
<1>3. \A c \in Command : ~ InHand(c)'
  BY <1>1 DEF InHand
<1>4. \A c \in Command : InMemory(c)' <=> InMemory(c)
  BY <1>1, SameLine
<1>5. job' \in Command \cup {None}
  BY <1>1, NoneAssumption DEF Typed, RequestType, Requests, PollAnswered, Received
<1>6. CASE job' = None
  <2>1. UNCHANGED <<asked, history>> /\ agent' = "idle"
    BY <1>1, <1>6 DEF history
  <2>2. Phases'
    BY <1>1, <1>6 DEF Sound, Phases
  <2> QED BY <1>1, <1>3, <1>6, <2>1, <2>2, DropStep
<1>7. ASSUME NEW c \in Command, c = job' PROVE Sound' /\ Refined
  <2>1. InHand(c) /\ c # None
    BY <1>2, <1>7, NoneAssumption
  <2>2. c \notin ran /\ ~ InMemory(c) /\ asked[c] \notin {"new", "checked"} /\ c \notin reported
    BY <2>1 DEF Sound, Apart, Fresh, Phases
  <2>3. ran' = ran \cup {c}
    BY <1>1, <1>7, <2>1
  <2>4. Unique' /\ Phases'
    BY <1>1, <1>7, <2>1, <2>2, <2>3, SameLine DEF Sound, Phases
  <2>5. Fresh' /\ Apart'
    BY <1>1, <1>3, <1>4, <2>2, <2>3 DEF Sound, Fresh, Apart
  <2>6. StatusOf(c) = "taken"
    BY <1>1, <2>1, <2>2 DEF StatusOf
  <2>7. StatusOf(c)' = "running"
    BY <1>1, <1>7, <2>1, <2>2 DEF StatusOf
  <2>8. \A d \in Command \ {c} : StatusOf(d)' = StatusOf(d)
    BY <1>1, <1>2, <1>3, <1>4, <1>7, NoneAssumption DEF StatusOf
  <2>9. Delivery!Run(c)
    BY <1>1, <2>6, <2>7, <2>8, MoveStep DEF Delivery!Run
  <2> QED BY <2>4, <2>5, <2>9 DEF Sound, Refined, Delivery!Next
<1> QED BY <1>5, <1>6, <1>7

\* A command that has been run is done, and once its result is accepted,
\* reported.
LEMMA ResultRefines ==
    ASSUME Typed, Sound
    PROVE  /\ \A k \in Conn : HandleDone(k) => Sound' /\ Refined
           /\ ResultAccepted => Sound' /\ Refined
<1>m. RequestType /\ job \in Command \cup {None}
  BY DEF Typed, AgentType
<1>1. ASSUME NEW k \in Conn, HandleDone(k) PROVE Sound' /\ Refined
  <2>1. /\ agent = "running" /\ agent' = "posting"
        /\ mem' = mem /\ UNCHANGED <<asked, job, ran, reported>>
    BY <1>1 DEF HandleDone, serverVars, history
  <2>2. \A c \in Command : ~ InHand(c) /\ ~ InHand(c)'
    BY <2>1 DEF InHand
  <2>3. \A c \in Command : InMemory(c)' <=> InMemory(c)
    BY <2>1, SameLine
  <2>4. conn' = k /\ req'[k].kind = "result"
    BY <1>1, <1>m, SendEffect DEF HandleDone
  <2>5. Phases'
    BY <2>1, <2>4, NoneAssumption DEF Sound, Phases
  <2>6. Sound'
    BY <2>1, <2>2, <2>3, <2>5, SameLine, StaysSound DEF Sound
  <2>7. PICK c \in Command : c = job
    BY <1>m, <2>1 DEF Typed, Carried
  <2>8. c \notin reported
    BY <2>7, NoneAssumption DEF Sound, Phases
  <2>9. StatusOf(c) = "running" /\ StatusOf(c)' = "done"
    BY <2>1, <2>7, <2>8 DEF StatusOf
  <2>10. \A d \in Command \ {c} : StatusOf(d)' = StatusOf(d)
    BY <2>1, <2>2, <2>3, <2>7 DEF StatusOf
  <2>11. Delivery!Complete(c)
    BY <2>1, <2>9, <2>10, MoveStep DEF Delivery!Complete
  <2> QED BY <2>6, <2>11 DEF Refined, Delivery!Next
<1>2. ASSUME ResultAccepted PROVE Sound' /\ Refined
  <2>1. /\ agent = "posting" /\ agent' = "idle" /\ conn' = None /\ job' = None
        /\ mem' = mem /\ UNCHANGED <<asked, ran>>
        /\ reported' = reported \cup {job}
    BY <1>2 DEF ResultAccepted, HangUp, serverVars
  <2>2. \A c \in Command : ~ InHand(c) /\ ~ InHand(c)'
    BY <2>1 DEF InHand
  <2>3. \A c \in Command : InMemory(c)' <=> InMemory(c)
    BY <2>1, SameLine
  <2>4. PICK c \in Command : c = job
    BY <1>m, <2>1 DEF Typed, Carried
  <2>5. c \in ran /\ c \notin reported
    BY <2>4, NoneAssumption DEF Sound, Phases
  <2>6. Phases'
    BY <2>1, <2>4, <2>5 DEF Sound, Phases
  <2>7. Sound'
    BY <2>1, <2>2, <2>3, <2>6, SameLine, StaysSound DEF Sound
  <2>8. StatusOf(c) = "done" /\ StatusOf(c)' = "reported"
    BY <2>1, <2>4, <2>5 DEF StatusOf
  <2>9. \A d \in Command \ {c} : StatusOf(d)' = StatusOf(d)
    BY <2>1, <2>2, <2>3, <2>4, NoneAssumption DEF StatusOf
  <2>10. Delivery!Report(c)
    BY <2>1, <2>8, <2>9, MoveStep DEF Delivery!Report
  <2> QED BY <2>7, <2>10 DEF Refined, Delivery!Next
<1> QED BY <1>1, <1>2

-----------------------------------------------------------------------------
(* The refinement *)

\* Every step keeps the commands apart and is a step of CommandDelivery, or
\* none.
LEMMA NextRefines == Typed /\ DiskBehind /\ Sound /\ [Next]_vars => Sound' /\ Refined
<1> SUFFICES ASSUME Typed, DiskBehind, Sound, [Next]_vars PROVE Sound' /\ Refined
  OBVIOUS
<1>1. CASE Bot
  BY <1>1, BotRefines, EnqueueRefines, RemoveRefines DEF Bot
<1>2. CASE Handlers
  BY <1>2, RequestRefines, PollRefines DEF Handlers
<1>3. CASE Agent
  BY <1>3, AgentDrops, RunRefines, ResultRefines DEF Agent
<1>4. CASE SetStatus \/ ServerCrash \/ ServerStart
  BY <1>4, BotRefines, CrashRefines
<1>5. CASE GiveUp \/ AgentCrash \/ \E k \in Conn : Expire(k)
  BY <1>5, AgentDrops
<1>6. CASE UNCHANGED vars
  <2>1. UNCHANGED <<mem, asked, req, agentVars, history>>
    BY <1>6 DEF vars, agentVars, history
  <2> QED BY <2>1, QuietStep
<1> QED BY <1>1, <1>2, <1>3, <1>4, <1>5, <1>6 DEF Next

\* For any commands, connections, tokens and number of faults: commands leave
\* the queue in order, each is run at most once, and the next is not fetched
\* before the last one's result is handed over or lost (Dequeue, pollOnce).
THEOREM CommandsDeliveredAtMostOnce == Spec => DeliveredAtMostOnce
<1>1. Init => Sound /\ Delivery!Init
  BY InitSound
<1>2. Typed /\ DiskBehind /\ Sound /\ [Next]_vars
        => Sound' /\ [Delivery!Next]_(Delivery!deliveryVars)
  BY NextRefines DEF Refined
<1> QED BY <1>1, <1>2, AlwaysTyped, DiskNeverAhead, PTL
        DEF Spec, DeliveredAtMostOnce, Delivery!Spec

-----------------------------------------------------------------------------
(* What the bot tells the operator *)

Records(store, c) == \E i \in DOMAIN store.recent : store.recent[i] = c

\* Word of a result for c is on its way to the operator, or there.
Told(c) == \/ Records(mem, c) \/ Records(disk, c)
           \/ \E k \in Conn : req[k] # None /\ req[k].kind = "result" /\ req[k].cmd = c
           \/ asked[c] = "answered"

Truthful == \A c \in Command : Told(c) => c \in ran /\ ~ (agent = "running" /\ job = c)

\* The results kept are some of those there were, and the new one.
LEMMA RecordsLast ==
    ASSUME NEW s \in Seq(Command), NEW c \in Command, NEW d \in Command,
           NEW i \in DOMAIN LastOf(Append(s, c)), LastOf(Append(s, c))[i] = d
    PROVE  d = c \/ \E j \in DOMAIN s : s[j] = d
<1> DEFINE t == Append(s, c)
<1>1. /\ t \in Seq(Command) /\ Len(t) = Len(s) + 1 /\ t[Len(s) + 1] = c
      /\ \A j \in 1 .. Len(s) : t[j] = s[j]
      /\ Len(s) \in Nat /\ DOMAIN s = 1 .. Len(s) /\ DOMAIN t = 1 .. Len(t)
  BY AppendProperties, LenProperties
<1>2. \E j \in 1 .. Len(t) : t[j] = d
  <2>1. CASE Len(t) <= Window
    BY <1>1, <2>1, WindowAssumption DEF LastOf
  <2>2. CASE Len(t) > Window
    <3> DEFINE m == Len(t) - Window + 1
    <3>0. m \in 1 .. Len(t) /\ Len(t) - m + 1 = Window
      BY <1>1, <2>2, WindowAssumption
    <3>1. LastOf(t) = SubSeq(t, m, Len(t))
      BY <1>1, <2>2, WindowAssumption DEF LastOf
    <3> HIDE DEF t, m
    <3>2. \A j \in m .. Len(t) : t[j] \in Command
      BY <1>1, <3>0, ElementOfSeq
    <3>3. /\ SubSeq(t, m, Len(t)) \in Seq(Command) /\ Len(SubSeq(t, m, Len(t))) = Window
          /\ \A j \in 1 .. Window : SubSeq(t, m, Len(t))[j] = t[m + j - 1]
      BY <1>1, <3>0, <3>2, SubSeqProperties
    <3>4. i \in 1 .. Window /\ d = t[m + i - 1]
      BY <3>1, <3>3, LenProperties DEF t
    <3>5. m + i - 1 \in 1 .. Len(t)
      BY <1>1, <3>0, <3>4, WindowAssumption
    <3> QED BY <3>4, <3>5
  <2> QED BY <1>1, <2>1, <2>2, WindowAssumption
<1> HIDE DEF t
<1>3. PICK j \in 1 .. Len(t) : t[j] = d
  BY <1>2
<1>4. j = Len(s) + 1 \/ j \in 1 .. Len(s)
  BY <1>1, <1>3
<1> QED BY <1>1, <1>3, <1>4

\* Where nothing new is told and nothing new runs, what is told stays true.
LEMMA NothingTold ==
    ASSUME Truthful, \A c \in Command : Told(c)' => Told(c), ran \subseteq ran',
           agent' = "running" => agent = "running" /\ job' = job
    PROVE  Truthful'
BY DEF Truthful

\* A save adds no result but those of what it saves.
LEMMA SaveTells ==
    ASSUME NEW store \in Stores, NEW ok \in BOOLEAN, Save(store, ok) \/ SaveOrUndo(store, ok),
           NEW c \in Command, Records(mem, c)' \/ Records(disk, c)'
    PROVE  Records(mem, c) \/ Records(disk, c) \/ Records(store, c)
<1>1. mem' \in {mem, store} /\ disk' \in {mem, disk, store}
  BY SaveEffect, SaveOrUndoEffect
<1> QED BY <1>1 DEF Records

\* Every step tells the operator only of commands whose Handle has returned.
LEMMA NextTruthful == Typed /\ Sound /\ Truthful /\ [Next]_vars => Truthful'
<1> SUFFICES ASSUME Typed, Sound, Truthful, [Next]_vars PROVE Truthful'
  OBVIOUS
<1>m. /\ mem \in Stores /\ disk \in Stores /\ ServerType /\ RequestType
      /\ job \in Command \cup {None}
  BY DEF Typed, StoreType, AgentType
<1>r. ASSUME UNCHANGED req, UNCHANGED <<agentVars, history>>,
             \A c \in Command : asked'[c] = "answered" => asked[c] = "answered" \/ Records(mem, c),
             \A c \in Command : Records(mem, c)' \/ Records(disk, c)' => Told(c)
      PROVE  Truthful'
  <2>1. \A c \in Command : Told(c)' => Told(c)
    BY <1>r DEF Told
  <2>2. UNCHANGED <<agent, job, ran>>
    BY <1>r DEF agentVars, history
  <2> QED BY <2>1, <2>2, NothingTold
<1>1. ASSUME NEW c \in Command, CheckRouter(c) \/ AwaitResult(c) PROVE Truthful'
  <2>1. \/ asked' = [asked EXCEPT ![c] = "checked"]
        \/ asked' = [asked EXCEPT ![c] = "unanswered"]
        \/ asked' = [asked EXCEPT ![c] = "answered"] /\ Records(mem, c)
    BY <1>1 DEF CheckRouter, AwaitResult, ResultFor, Records
  <2>2. \A d \in Command : asked'[d] = "answered" => asked[d] = "answered" \/ Records(mem, d)
    BY <1>m, <2>1, AskedStep
  <2>3. UNCHANGED <<mem, disk, req, agentVars, history>>
    BY <1>1 DEF CheckRouter, AwaitResult
  <2>4. \A d \in Command : Records(mem, d)' \/ Records(disk, d)' => Told(d)
    BY <2>3 DEF Records, Told
  <2> QED BY <1>r, <2>2, <2>3, <2>4
<1>2. ASSUME NEW c \in Command, NEW ok \in BOOLEAN, Enqueue(c, ok) PROVE Truthful'
  <2> DEFINE store == [mem EXCEPT !.pending = Append(@, c)]
  <2>1. store \in Stores /\ store.recent = mem.recent
    BY <1>m, StoreChanges DEF Stores
  <2>2. \A d \in Command : Records(mem, d)' \/ Records(disk, d)' => Told(d)
    BY <1>2, <2>1, SaveTells DEF Enqueue, Records, Told
  <2>3. \A d \in Command : asked'[d] = "answered" => asked[d] = "answered"
    <3>1. asked'[c] # "answered"
      BY <1>2, <1>m, AskedStep DEF Enqueue
    <3> QED BY <1>2, <1>m, <3>1, AskedStep DEF Enqueue
  <2>4. UNCHANGED <<req, agentVars, history>>
    BY <1>2 DEF Enqueue
  <2> QED BY <1>r, <2>2, <2>3, <2>4
<1>3. ASSUME NEW ok \in BOOLEAN, AddRouter(ok) PROVE Truthful'
  <2> DEFINE store == [mem EXCEPT !.token = issued + 1]
  <2>0. issued + 1 \in Token
    BY <1>3, <1>m, TokenAssumption DEF AddRouter, Token, ServerType
  <2>1. store \in Stores /\ store.recent = mem.recent
    BY <1>m, <2>0, StoreChanges DEF Stores
  <2>2. \A d \in Command : Records(mem, d)' \/ Records(disk, d)' => Told(d)
    <3>1. SaveOrUndo(store, ok)
      BY <1>3 DEF AddRouter
    <3>2. \A d \in Command : Records(store, d) => Records(mem, d)
      BY <2>1 DEF Records
    <3> HIDE DEF store
    <3> QED BY <2>1, <3>1, <3>2, SaveTells DEF Told
  <2> QED BY <1>3, <1>r, <2>2 DEF AddRouter
<1>4. ASSUME NEW ok \in BOOLEAN, RemoveRouter(ok) PROVE Truthful'
  <2> DEFINE store == [mem EXCEPT !.token = 0, !.pending = <<>>, !.recent = <<>>]
  <2>1. store \in Stores /\ store.recent = <<>>
    BY <1>m, StoreChanges DEF Stores
  <2>2. \A d \in Command : Records(mem, d)' \/ Records(disk, d)' => Told(d)
    <3>1. SaveOrUndo(store, ok)
      BY <1>4 DEF RemoveRouter
    <3>2. \A d \in Command : Records(store, d) => FALSE
      BY <2>1 DEF Records
    <3> HIDE DEF store
    <3> QED BY <2>1, <3>1, <3>2, SaveTells DEF Told
  <2> QED BY <1>4, <1>r, <2>2 DEF RemoveRouter
<1>5. ASSUME SetStatus PROVE Truthful'
  <2>1. \A d \in Command : Records(mem, d)' \/ Records(disk, d)' => Told(d)
    BY <1>5 DEF SetStatus, Save, Records, Told
  <2> QED BY <1>5, <1>r, <2>1 DEF SetStatus
<1>6. ASSUME ServerStart PROVE Truthful'
  <2>1. mem' = Seeded /\ disk' = Seeded /\ Seeded.recent = mem.recent
    BY <1>6, <1>m DEF ServerStart, Seeded, Stores
  <2>2. \A d \in Command : Records(mem, d)' \/ Records(disk, d)' => Told(d)
    BY <2>1 DEF Records, Told
  <2> QED BY <1>6, <1>r, <2>2 DEF ServerStart
<1>7. ASSUME ServerCrash PROVE Truthful'
  <2>1. \A c \in Command : asked'[c] = "answered" => asked[c] = "answered"
    BY <1>7 DEF ServerCrash
  <2>2. \A k \in Conn : req'[k] = None
    BY <1>7 DEF ServerCrash
  <2>3. \A c \in Command : Told(c)' => Told(c)
    BY <1>7, <2>1, <2>2 DEF ServerCrash, Told, Records
  <2>4. UNCHANGED <<agent, job, ran>>
    BY <1>7 DEF ServerCrash, agentVars, history
  <2> QED BY <2>3, <2>4, NothingTold
<1>8. ASSUME NEW k \in Conn, Authenticate(k) PROVE Truthful'
  <2>1. req[k] # None /\ mem' = mem /\ disk' = disk /\ UNCHANGED <<asked, agent, job, ran>>
    BY <1>8 DEF Authenticate, serverVars, agentVars, history
  <2>2. PICK stage \in {"authed", "refused"} : Reply(k, stage, req[k].cmd)
    BY <1>8 DEF Authenticate
  <2>3. req[k].cmd \in Command \cup {None}
    BY <1>m, <2>1 DEF RequestType, Requests
  <2>4. req'[k].kind = req[k].kind /\ req'[k].cmd = req[k].cmd
        /\ \A l \in Conn \ {k} : req'[l] = req[l]
    BY <1>m, <2>1, <2>2, <2>3, ReplyType
  <2>5. \A c \in Command : Told(c)' => Told(c)
    BY <2>1, <2>4 DEF Told, Records
  <2> QED BY <2>1, <2>5, NothingTold
<1>8a. ASSUME NEW k \in Conn, RefuseResult(k) PROVE Truthful'
  <2>1. /\ req[k] # None /\ Reply(k, "refused", req[k].cmd)
        /\ mem' = mem /\ disk' = disk /\ UNCHANGED <<asked, agent, job, ran>>
    BY <1>8a DEF RefuseResult, serverVars, agentVars, history
  <2>2. PICK stage \in {"answered", "refused"} : Reply(k, stage, req[k].cmd)
    BY <2>1
  <2>3. req[k].cmd \in Command \cup {None}
    BY <1>m, <2>1 DEF RequestType, Requests
  <2>4. req'[k].kind = req[k].kind /\ req'[k].cmd = req[k].cmd
        /\ \A l \in Conn \ {k} : req'[l] = req[l]
    BY <1>m, <2>1, <2>2, <2>3, ReplyType
  <2>5. \A c \in Command : Told(c)' => Told(c)
    BY <2>1, <2>4 DEF Told, Records
  <2> QED BY <2>1, <2>5, NothingTold
<1>9. ASSUME NEW k \in Conn, NEW ok \in BOOLEAN, HandlePoll(k, ok) PROVE Truthful'
  <2>1. req[k] # None /\ req[k].kind = "poll" /\ UNCHANGED <<asked, agent, job, ran>>
    BY <1>9 DEF HandlePoll, agentVars, history
  <2>2. Dequeued \in Stores /\ Dequeued.recent = mem.recent
    BY <1>m, StoreChanges DEF Dequeued, Stores
  <2>3. \A d \in Command : Records(mem, d)' \/ Records(disk, d)' => Told(d)
    BY <1>9, <2>2, SaveTells DEF HandlePoll, Dequeue, Records, Told
  <2>4. NextCommand \in Command \cup {None}
    BY <1>m, HeadTailProperties DEF NextCommand, Stores
  <2>5. PICK stage \in {"answered", "refused"}, cmd \in Command \cup {None} : Reply(k, stage, cmd)
    BY <1>9, <2>4 DEF HandlePoll
  <2>6. req'[k].kind = "poll" /\ \A l \in Conn \ {k} : req'[l] = req[l]
    BY <1>m, <2>1, <2>5, ReplyType
  <2>7. \A c \in Command : Told(c)' => Told(c)
    BY <2>1, <2>3, <2>6 DEF Told
  <2> QED BY <2>1, <2>7, NothingTold
<1>10. ASSUME NEW k \in Conn, NEW ok \in BOOLEAN, HandleResult(k, ok) PROVE Truthful'
  <2>1. req[k] # None /\ req[k].kind = "result" /\ UNCHANGED <<asked, agent, job, ran>>
    BY <1>10 DEF HandleResult, agentVars, history
  <2>2. PICK c \in Command : c = req[k].cmd
    BY <2>1 DEF Typed, Carried
  <2> DEFINE store == [mem EXCEPT !.recent = LastOf(Append(@, c))]
  <2>3. store \in Stores /\ store.recent = LastOf(Append(mem.recent, c))
    BY <1>m, StoreChanges DEF Stores
  <2>4. mem.recent \in Seq(Command)
    BY <1>m DEF Stores
  <2>5. \A d \in Command : Records(store, d) => d = c \/ Records(mem, d)
    BY <2>3, <2>4, RecordsLast DEF Records
  <2>6. Told(c)
    BY <2>1, <2>2 DEF Told
  <2> HIDE DEF store
  <2>7. Save(store, ok)
    BY <1>10, <2>2 DEF HandleResult, RecordResult, store
  <2>8. \A d \in Command : Records(mem, d)' \/ Records(disk, d)' => Told(d)
    BY <2>3, <2>5, <2>6, <2>7, SaveTells DEF Told
  <2>9. PICK stage \in {"answered", "refused"} : Reply(k, stage, c)
    BY <1>10, <2>2 DEF HandleResult
  <2>10. req'[k].cmd = c /\ \A l \in Conn \ {k} : req'[l] = req[l]
    BY <1>m, <2>1, <2>9, ReplyType
  <2>11. \A d \in Command : Told(d)' => Told(d)
    BY <2>1, <2>6, <2>8, <2>10 DEF Told
  <2> QED BY <2>1, <2>11, NothingTold
<1>11. ASSUME NEW k \in Conn, Poll(k) PROVE Truthful'
  <2>1. UNCHANGED <<mem, disk, asked, job, ran>> /\ agent' = "polling"
    BY <1>11 DEF Poll, serverVars, history
  <2>2. req'[k].kind = "poll" /\ \A l \in Conn \ {k} : req'[l] = req[l]
    BY <1>11, <1>m DEF Poll, Send, RequestType
  <2>3. \A c \in Command : Told(c)' => Told(c)
    BY <2>1, <2>2 DEF Told, Records
  <2> QED BY <2>1, <2>3, NothingTold
<1>12. ASSUME NEW k \in Conn, PostAgain(k) \/ HandleDone(k) PROVE Truthful'
  <2>1. UNCHANGED <<mem, disk, asked, job, ran>> /\ agent' = "posting" /\ job # None
    BY <1>12 DEF PostAgain, HandleDone, serverVars, history, Typed, Carried
  <2>2. req'[k].cmd = job /\ \A l \in Conn \ {k} : req'[l] = req[l]
    BY <1>12, <1>m DEF PostAgain, HandleDone, Send, RequestType
  <2>3. \A c \in Command : Told(c)' => Told(c) \/ c = job
    BY <2>1, <2>2 DEF Told, Records
  <2>4. job \in ran
    BY <2>1 DEF Sound, Phases
  <2> QED BY <2>1, <2>3, <2>4 DEF Truthful
<1>13. ASSUME PollAnswered PROVE Truthful'
  <2>1. UNCHANGED <<mem, disk, asked>> /\ ran' = ran \cup ({job'} \ {None})
    BY <1>13 DEF PollAnswered, serverVars
  <2>2. \A l \in Conn : req'[l] # None => req'[l] = req[l]
    BY <1>13, <1>m DEF PollAnswered, Received, HangUp, RequestType
  <2>3. \A c \in Command : Told(c)' => Told(c)
    BY <2>1, <2>2 DEF Told, Records
  <2>4. \A c \in Command : c = job' => c \notin ran
    BY <1>13 DEF PollAnswered, InHand, Sound, Apart
  <2> QED BY <2>1, <2>3, <2>4 DEF Truthful
<1>14. ASSUME ResultAccepted \/ RequestFailed PROVE Truthful'
  <2>1. UNCHANGED <<mem, disk, asked, ran>> /\ agent' = "idle"
    BY <1>14 DEF ResultAccepted, RequestFailed, serverVars, history
  <2>2. \A l \in Conn : req'[l] # None => req'[l] = req[l]
    BY <1>14, <1>m DEF ResultAccepted, RequestFailed, HangUp, RequestType
  <2>3. \A c \in Command : Told(c)' => Told(c)
    BY <2>1, <2>2 DEF Told, Records
  <2> QED BY <2>1, <2>3, NothingTold
<1>15. ASSUME NEW k \in Conn, Expire(k) PROVE Truthful'
  <2>1. UNCHANGED <<mem, disk, asked, agent, job, ran>>
    BY <1>15 DEF Expire, serverVars, agentVars, history
  <2>2. \A l \in Conn : req'[l] # None => req'[l] = req[l]
    BY <1>15, <1>m DEF Expire, RequestType
  <2>3. \A c \in Command : Told(c)' => Told(c)
    BY <2>1, <2>2 DEF Told, Records
  <2> QED BY <2>1, <2>3, NothingTold
<1>16. ASSUME GiveUp \/ AgentCrash \/ AgentStart PROVE Truthful'
  <2>1. UNCHANGED <<mem, disk, asked, req, ran>> /\ agent' \in {"idle", "down"}
    BY <1>16 DEF GiveUp, AgentCrash, AgentStart, serverVars, history
  <2>2. \A c \in Command : Told(c)' => Told(c)
    BY <2>1 DEF Told, Records
  <2> QED BY <2>1, <2>2, NothingTold
<1>17. ASSUME UNCHANGED vars PROVE Truthful'
  BY <1>17 DEF vars, Truthful, Told, Records
<1> QED
  BY <1>1, <1>2, <1>3, <1>4, <1>5, <1>6, <1>7, <1>8, <1>8a, <1>9, <1>10, <1>11, <1>12, <1>13,
     <1>14, <1>15, <1>16, <1>17 DEF Next, Bot, Handlers, Agent

\* The bot shows as answered only a command whose Handle has returned, however
\* results of several commands overtake each other (awaitResult, RecordResult).
THEOREM AnswersAreTrueAlways == Spec => []AnswersAreTrue
<1>1. Init => Truthful
  BY DEF Init, Truthful, Told, Records, EmptyStore
<1>2. Typed /\ Sound /\ Truthful => AnswersAreTrue
  BY DEF Truthful, Told, AnswersAreTrue, StatusOf, Sound, Phases
<1>3. Typed /\ DiskBehind /\ Sound /\ [Next]_vars => Sound'
  BY NextRefines
<1> QED BY <1>1, <1>2, <1>3, InitSound, NextTruthful, AlwaysTyped, DiskNeverAhead, PTL DEF Spec

-----------------------------------------------------------------------------
(* What is lost without a fault *)

\* Nobody has been registered yet whom a first registration could follow.
Early == ~ mem.seeded \/ (ConfigToken = 0 /\ issued = 1)

\* A command that has not come to nothing: with the bot, in the queue, on its
\* way, with the agent, or reported.
Held(c) == \/ asked[c] \in {"new", "checked"} \/ InMemory(c) \/ InHand(c)
           \/ job = c \/ c \in reported

\* While nothing has failed the server has been started once, no command was
\* asked for before the first registration, each request is one the agent
\* waits for, and until a removal no command has come to nothing.
Intact == /\ up <=> mem.seeded
          /\ issued # 0
          /\ ConfigToken = 0 /\ issued = 1 => ~ Registered
          /\ Early => \A c \in Command : asked[c] = "new"
          /\ \A k \in Conn : req[k] # None => k = conn
          /\ FirstRegistration => \A c \in Command : Held(c)

IntactSoFar == faults = 0 => Intact

\* Nothing held is lost.
LEMMA HeldNotLost == \A c \in Command : Held(c) => StatusOf(c) # "lost"
BY DEF Held, StatusOf

\* The faults of a behaviour are never taken back.
LEMMA FaultsGrow == Typed /\ Next => faults' = faults \/ Fault
<1> SUFFICES ASSUME Typed, Next PROVE faults' = faults \/ Fault
  OBVIOUS
<1>1. CASE Bot \/ SetStatus
  BY <1>1 DEF Bot, SetStatus, CheckRouter, AwaitResult, Enqueue, AddRouter, RemoveRouter,
              SaveOrUndo, Save
<1>2. CASE Handlers
  BY <1>2 DEF Handlers, Authenticate, RefuseResult, HandlePoll, HandleResult, Dequeue, RecordResult,
              SaveOrUndo, Save
<1>3. CASE Agent \/ GiveUp \/ AgentCrash \/ \E k \in Conn : Expire(k)
  BY <1>3 DEF Agent, Poll, PostAgain, HandleDone, PollAnswered, ResultAccepted,
              RequestFailed, AgentStart, GiveUp, AgentCrash, Expire
<1>4. CASE ServerCrash \/ ServerStart
  BY <1>4 DEF ServerCrash, ServerStart
<1> QED BY <1>1, <1>2, <1>3, <1>4 DEF Next

\* A step by which the registration stays, no request is left over and what
\* is held stays held.
LEMMA IntactStays ==
    ASSUME Intact, UNCHANGED <<up, issued>>,
           mem'.seeded = mem.seeded, mem'.token = mem.token,
           Early => UNCHANGED asked,
           \A k \in Conn : req'[k] # None => k = conn',
           \A c \in Command : Held(c) => Held(c)'
    PROVE  Intact'
BY DEF Intact, Early, FirstRegistration, Registered

\* What the bot and the store do without a fault.
LEMMA BotIntact ==
    ASSUME Typed, Intact, ~ Fault
    PROVE  /\ \A c \in Command : CheckRouter(c) \/ AwaitResult(c) => Intact'
           /\ \A c \in Command, ok \in BOOLEAN : Enqueue(c, ok) => Intact'
           /\ \A ok \in BOOLEAN : AddRouter(ok) \/ RemoveRouter(ok) => Intact'
           /\ SetStatus \/ ServerStart => Intact'
<1>m. mem \in Stores /\ ServerType /\ issued \in Nat /\ mem.pending \in Seq(Command)
  BY TokenAssumption DEF Typed, StoreType, ServerType, Stores, Token
<1>0. ASSUME mem' = mem, UNCHANGED <<up, issued, req, agentVars, history>>,
             Early => UNCHANGED asked,
             \A c \in Command : asked[c] \in {"new", "checked"} => asked'[c] \in {"new", "checked"}
      PROVE  Intact'
  <2>1. UNCHANGED <<agent, conn, job, reported>>
    BY <1>0 DEF agentVars, history
  <2>2. \A c \in Command : (InHand(c)' <=> InHand(c)) /\ (InMemory(c)' <=> InMemory(c))
    BY <1>0, <2>1, SameHand, SameLine
  <2>3. \A c \in Command : Held(c) => Held(c)'
    BY <1>0, <2>1, <2>2 DEF Held
  <2>4. \A k \in Conn : req'[k] # None => k = conn'
    BY <1>0, <2>1 DEF Intact
  <2> QED BY <1>0, <2>3, <2>4, IntactStays
<1>1. ASSUME NEW c \in Command, CheckRouter(c) PROVE Intact'
  <2>1. ~ Early
    BY <1>1 DEF CheckRouter, Intact, Early
  <2>2. \A d \in Command : asked[d] \in {"new", "checked"} => asked'[d] \in {"new", "checked"}
    BY <1>1, <1>m, AskedStep DEF CheckRouter
  <2> QED BY <1>0, <1>1, <2>1, <2>2 DEF CheckRouter
<1>2. ASSUME NEW c \in Command, AwaitResult(c) PROVE Intact'
  <2>1. ~ Early
    BY <1>2 DEF AwaitResult, Intact
  <2>2. \A d \in Command : asked[d] \in {"new", "checked"} => asked'[d] \in {"new", "checked"}
    BY <1>2, <1>m, AskedStep DEF AwaitResult
  <2> QED BY <1>0, <1>2, <2>1, <2>2 DEF AwaitResult
<1>3. ASSUME NEW c \in Command, NEW ok \in BOOLEAN, Enqueue(c, ok) PROVE Intact'
  <2>1. mem' = [mem EXCEPT !.pending = Append(@, c)]
    BY <1>3 DEF Enqueue, Save
  <2>2. /\ mem'.pending = Append(mem.pending, c)
        /\ mem'.seeded = mem.seeded /\ mem'.token = mem.token
    BY <2>1, <1>m DEF Stores
  <2>3. UNCHANGED <<up, issued, req, agent, conn, job, reported>>
    BY <1>3 DEF Enqueue, agentVars, history
  <2>4. asked[c] = "checked" /\ \A d \in Command \ {c} : asked'[d] = asked[d]
    BY <1>3, <1>m, AskedStep DEF Enqueue
  <2>5. ~ Early
    BY <2>4 DEF Intact
  <2>6. InMemory(c)' /\ \A d \in Command : InMemory(d) => InMemory(d)'
    <3>1. /\ DOMAIN mem'.pending = 1 .. Len(mem.pending) + 1
          /\ \A i \in 1 .. Len(mem.pending) : mem'.pending[i] = mem.pending[i]
          /\ mem'.pending[Len(mem.pending) + 1] = c
          /\ Len(mem.pending) \in Nat /\ DOMAIN mem.pending = 1 .. Len(mem.pending)
      BY <2>2, <1>m, AppendProperties, LenProperties
    <3> QED BY <3>1 DEF InMemory
  <2>7. \A d \in Command : Held(d) => Held(d)'
    BY <2>3, <2>4, <2>6, SameHand DEF Held
  <2>8. \A k \in Conn : req'[k] # None => k = conn'
    BY <2>3 DEF Intact
  <2> QED BY <2>2, <2>3, <2>5, <2>7, <2>8, IntactStays
<1>4. ASSUME NEW ok \in BOOLEAN, AddRouter(ok) PROVE Intact'
  <2>1. mem' = [mem EXCEPT !.token = issued + 1]
    BY <1>4 DEF AddRouter, SaveOrUndo, Save
  <2>2. /\ mem'.pending = mem.pending /\ mem'.seeded = mem.seeded
        /\ mem'.token = issued + 1
    BY <2>1, <1>m DEF Stores
  <2>3. /\ UNCHANGED <<up, asked, req, agent, conn, job, reported>> /\ up
        /\ issued' = issued + 1
    BY <1>4 DEF AddRouter, agentVars, history
  <2>4. mem'.seeded /\ issued' # 1 /\ issued' # 0
    BY <2>2, <2>3, <1>m DEF Intact
  <2>5. ASSUME FirstRegistration' PROVE \A c \in Command : Held(c)'
    <3>1. ConfigToken = 0 /\ issued = 1
      BY <2>3, <2>4, <2>5, <1>m DEF FirstRegistration
    <3> QED BY <2>3, <3>1 DEF Intact, Early, Held
  <2> QED BY <2>2, <2>3, <2>4, <2>5 DEF Intact, Early
<1>5. ASSUME NEW ok \in BOOLEAN, RemoveRouter(ok) PROVE Intact'
  <2>1. mem' = [mem EXCEPT !.token = 0, !.pending = <<>>, !.recent = <<>>]
    BY <1>5 DEF RemoveRouter, SaveOrUndo, Save
  <2>2. mem'.token = 0 /\ mem'.seeded = mem.seeded
    BY <2>1, <1>m DEF Stores
  <2>3. UNCHANGED <<up, issued, asked, req, conn>>
    BY <1>5 DEF RemoveRouter, agentVars
  <2> QED BY <2>2, <2>3 DEF Intact, Early, FirstRegistration, Registered
<1>6. ASSUME SetStatus PROVE Intact'
  <2>1. mem' = mem /\ UNCHANGED <<up, issued, asked, req, agentVars, history>>
    BY <1>6 DEF SetStatus, Save
  <2> QED BY <1>0, <2>1
<1>7. ASSUME ServerStart PROVE Intact'
  <2>1. ~ up /\ up' /\ mem' = Seeded /\ UNCHANGED <<issued, asked, req, conn>>
    BY <1>7 DEF ServerStart, agentVars
  <2>2. ~ mem.seeded /\ \A c \in Command : asked[c] = "new"
    BY <2>1 DEF Intact, Early
  <2>3. mem'.seeded /\ mem'.token = IF mem.token = 0 THEN ConfigToken ELSE mem.token
    BY <2>1, <2>2, <1>m DEF Seeded, Stores
  <2> QED BY <2>1, <2>2, <2>3 DEF Intact, Early, FirstRegistration, Registered, Held
<1> QED BY <1>1, <1>2, <1>3, <1>4, <1>5, <1>6, <1>7

\* What the requests' handlers do without a fault: the request is the agent's.
LEMMA RequestIntact ==
    ASSUME Typed, Sound, Intact, ~ Fault, NEW k \in Conn
    PROVE  /\ Authenticate(k) \/ Expire(k) => Intact'
           /\ RefuseResult(k) => Intact'
           /\ \A ok \in BOOLEAN : HandlePoll(k, ok) \/ HandleResult(k, ok) => Intact'
<1>m. mem \in Stores /\ RequestType /\ mem.pending \in Seq(Command)
  BY DEF Typed, StoreType, Stores
<1>0. ASSUME NEW stage \in {"authed", "answered", "refused"}, NEW cmd \in Command \cup {None},
             req[k] # None, Reply(k, stage, cmd),
             UNCHANGED <<up, asked, issued, agentVars, history>>,
             mem'.seeded = mem.seeded, mem'.token = mem.token,
             \A c \in Command : Held(c) => Held(c)'
      PROVE  Intact'
  <2>1. UNCHANGED <<agent, conn>>
    BY <1>0 DEF agentVars
  <2>2. \A l \in Conn : req'[l] # None => l = conn'
    BY <1>0, <2>1, ReplyInHand DEF Intact
  <2> QED BY <1>0, <2>2, IntactStays
<1>1. ASSUME Authenticate(k) PROVE Intact'
  <2>1. PICK stage \in {"authed", "refused"} : Reply(k, stage, req[k].cmd)
    BY <1>1 DEF Authenticate
  <2>2. /\ req[k] # None /\ req[k].stage = "sent" /\ mem' = mem
        /\ UNCHANGED <<up, asked, issued, agentVars, history>>
    BY <1>1 DEF Authenticate, serverVars
  <2>3. k = conn /\ req[k].cmd \in Command \cup {None}
    BY <2>2, <1>m DEF Intact, RequestType, Requests
  <2>4. \A c \in Command : ~ InHand(c)
    BY <2>2, <2>3 DEF InHand, Received
  <2>5. \A c \in Command : Held(c) => Held(c)'
    BY <2>2, <2>4, SameLine DEF Held, agentVars, history
  <2> QED BY <1>0, <2>1, <2>2, <2>3, <2>5
<1>1a. ASSUME RefuseResult(k) PROVE Intact'
  <2>1. /\ Reply(k, "refused", req[k].cmd) /\ req[k] # None /\ req[k].kind = "result"
        /\ mem' = mem /\ UNCHANGED <<up, asked, issued, agentVars, history>>
    BY <1>1a DEF RefuseResult, serverVars
  <2>2. k # conn \/ agent # "polling"
    BY <2>1, NoneAssumption DEF Sound, Phases
  <2>3. req[k].cmd \in Command \cup {None} /\ UNCHANGED <<agent, conn, job, reported>>
    BY <2>1, <1>m DEF RequestType, Requests, agentVars, history
  <2>4. \A c \in Command : InHand(c)' <=> InHand(c)
    BY <2>1, <2>2, <2>3, ReplyInHand
  <2>5. \A c \in Command : Held(c) => Held(c)'
    BY <2>1, <2>3, <2>4, SameLine DEF Held
  <2> QED BY <1>0, <2>1, <2>3, <2>5
<1>2. ASSUME Expire(k) PROVE Intact'
  BY <1>2 DEF Expire, Intact
<1>3. ASSUME NEW ok \in BOOLEAN, HandlePoll(k, ok) PROVE Intact'
  <2>1. ok /\ mem' = Dequeued
    BY <1>3 DEF HandlePoll, Dequeue, SaveOrUndo, Save
  <2>2. /\ Reply(k, "answered", NextCommand) /\ req[k] # None /\ req[k].kind = "poll"
        /\ req[k].stage = "authed"
        /\ UNCHANGED <<up, asked, issued, agentVars, history>>
    BY <1>3, <2>1 DEF HandlePoll
  <2>3. k = conn /\ agent = "polling"
    BY <2>2, NoneAssumption DEF Intact, Sound, Phases
  <2>4. UNCHANGED <<agent, conn, job, reported>>
    BY <2>2 DEF agentVars, history
  <2>5. mem'.seeded = mem.seeded /\ mem'.token = mem.token
    BY <2>1, <1>m DEF Dequeued, Stores
  <2>6. NextCommand \in Command \cup {None}
    BY <1>m, HeadTailProperties DEF NextCommand
  <2>7. \A c \in Command : InHand(c)' <=> c = NextCommand
    BY <2>2, <2>3, <2>4, <2>6, ReplyInHand
  <2>8. \A c \in Command : ~ InHand(c)
    BY <2>2, <2>3 DEF InHand, Received
  <2>9. ASSUME NEW c \in Command, InMemory(c), c # NextCommand PROVE InMemory(c)'
    <3> DEFINE p == mem.pending
    <3>1. PICK i \in 1 .. Len(p) : p[i] = c
      BY <1>m, <2>9, LenProperties DEF InMemory
    <3>2. p # <<>> /\ Len(p) \in Nat
      BY <1>m, <3>1, LenProperties
    <3>3. c # p[1] /\ mem'.pending = Tail(p)
      BY <1>m, <2>1, <2>9, <3>2, HeadTailProperties DEF NextCommand, Dequeued, Stores
    <3>4. /\ Len(Tail(p)) = Len(p) - 1 /\ DOMAIN Tail(p) = 1 .. Len(p) - 1
          /\ \A j \in 1 .. Len(p) - 1 : Tail(p)[j] = p[j + 1]
      BY <1>m, <3>2, HeadTailProperties, LenProperties
    <3>5. i - 1 \in 1 .. Len(p) - 1 /\ (i - 1) + 1 = i
      BY <3>1, <3>2, <3>3
    <3> QED BY <3>1, <3>3, <3>4, <3>5 DEF InMemory
  <2>10. \A c \in Command : Held(c) => Held(c)'
    BY <2>2, <2>4, <2>7, <2>8, <2>9 DEF Held
  <2> QED BY <1>0, <2>2, <2>5, <2>6, <2>10
<1>4. ASSUME NEW ok \in BOOLEAN, HandleResult(k, ok) PROVE Intact'
  <2>1. ok /\ mem' = [mem EXCEPT !.recent = LastOf(Append(@, req[k].cmd))]
    BY <1>4 DEF HandleResult, RecordResult, Save
  <2>2. /\ Reply(k, "answered", req[k].cmd) /\ req[k] # None /\ req[k].kind = "result"
        /\ UNCHANGED <<up, asked, issued, agentVars, history>>
    BY <1>4, <2>1 DEF HandleResult
  <2>3. /\ mem'.pending = mem.pending /\ mem'.seeded = mem.seeded
        /\ mem'.token = mem.token
    BY <2>1, <1>m DEF Stores
  <2>4. k # conn \/ agent # "polling"
    BY <2>2, NoneAssumption DEF Sound, Phases
  <2>5. req[k].cmd \in Command \cup {None} /\ UNCHANGED <<agent, conn, job, reported>>
    BY <2>2, <1>m DEF RequestType, Requests, agentVars, history
  <2>6. \A c \in Command : InHand(c)' <=> InHand(c)
    BY <2>2, <2>4, <2>5, ReplyInHand
  <2>7. \A c \in Command : Held(c) => Held(c)'
    BY <2>2, <2>3, <2>5, <2>6, SameLine DEF Held
  <2> QED BY <1>0, <2>2, <2>3, <2>5, <2>7
<1> QED BY <1>1, <1>1a, <1>2, <1>3, <1>4

\* What the agent does without a fault.
LEMMA AgentIntact ==
    ASSUME Typed, Sound, Intact, Agent
    PROVE  Intact'
<1>m. RequestType /\ job \in Command \cup {None}
  BY DEF Typed, AgentType
<1>0. mem' = mem /\ UNCHANGED <<up, issued, asked>>
  BY DEF Agent, Poll, PostAgain, HandleDone, PollAnswered, ResultAccepted, RequestFailed,
         AgentStart, serverVars
<1>h. \A c \in Command : InMemory(c)' <=> InMemory(c)
  BY <1>0, SameLine
<1>s. ASSUME \A k \in Conn : req'[k] # None => k = conn',
             \A c \in Command : Held(c) => Held(c)'
      PROVE  Intact'
  BY <1>0, <1>s, IntactStays
<1>1. ASSUME NEW k \in Conn, Poll(k) \/ PostAgain(k) \/ HandleDone(k) PROVE Intact'
  <2>1. /\ agent \in {"idle", "running"} /\ UNCHANGED <<job, reported>>
        /\ conn' = k /\ \A l \in Conn \ {k} : req'[l] = req[l]
    BY <1>1, <1>m DEF Poll, PostAgain, HandleDone, Send, history, RequestType
  <2>2. conn = None
    BY <2>1 DEF Sound, Phases
  <2>3. \A l \in Conn : req'[l] # None => l = conn'
    BY <2>1, <2>2, NoneAssumption DEF Intact
  <2>4. \A c \in Command : Held(c) => Held(c)'
    BY <1>0, <1>h, <2>1 DEF Held, InHand
  <2> QED BY <1>s, <2>3, <2>4
<1>2. ASSUME HangUp, conn # None PROVE \A l \in Conn : req'[l] # None => l = conn'
  BY <1>2, <1>m DEF HangUp, RequestType, Intact
<1>3. ASSUME PollAnswered PROVE Intact'
  <2>1. /\ HangUp /\ conn # None /\ job' = req[conn].cmd /\ reported' = reported
        /\ agent = "polling" /\ job = None
    BY <1>3 DEF PollAnswered, Received, Typed, Carried
  <2>2. \A c \in Command : Held(c) => Held(c)'
    BY <1>0, <1>h, <2>1, NoneAssumption DEF Held, InHand
  <2> QED BY <1>2, <1>s, <2>1, <2>2
<1>4. ASSUME ResultAccepted PROVE Intact'
  <2>1. HangUp /\ conn # None /\ agent = "posting" /\ reported' = reported \cup {job}
    BY <1>4 DEF ResultAccepted, Received
  <2>2. \A c \in Command : Held(c) => Held(c)'
    BY <1>0, <1>h, <2>1 DEF Held, InHand
  <2> QED BY <1>2, <1>s, <2>1, <2>2
<1>5. ASSUME RequestFailed PROVE Intact'
  <2>1. /\ HangUp /\ agent \in {"polling", "posting"} /\ UNCHANGED <<job, reported>>
        /\ Received("refused") \/ req[conn] = None \/ ~ up
    BY <1>5 DEF RequestFailed, history
  <2>2. conn # None
    BY <2>1 DEF Sound, Phases
  <2>3. ASSUME NEW c \in Command, Held(c) PROVE Held(c)'
    <3>1. CASE ~ up
      BY <1>0, <3>1 DEF Intact, Early, Held
    <3>2. CASE up
      <4>1. ~ InHand(c)
        BY <2>1, <3>2 DEF InHand, Received
      <4> QED BY <1>0, <1>h, <2>1, <2>3, <4>1 DEF Held
    <3> QED BY <3>1, <3>2
  <2> QED BY <1>2, <1>s, <2>1, <2>2, <2>3
<1>6. ASSUME AgentStart PROVE Intact'
  <2>1. agent = "down" /\ UNCHANGED <<req, conn, job, reported>>
    BY <1>6 DEF AgentStart, history
  <2>2. \A c \in Command : Held(c) => Held(c)'
    BY <1>0, <1>h, <2>1 DEF Held, InHand
  <2> QED BY <1>s, <2>1, <2>2 DEF Intact
<1> QED BY <1>1, <1>3, <1>4, <1>5, <1>6 DEF Agent

\* While nothing has failed, a step leaves everything intact.
LEMMA NextIntact == Typed /\ Sound /\ IntactSoFar /\ [Next]_vars => IntactSoFar'
<1> SUFFICES ASSUME Typed, Sound, faults = 0 => Intact, [Next]_vars, faults' = 0
             PROVE  Intact'
  BY DEF IntactSoFar
<1>1. CASE Next
  <2>1. faults \in Nat
    BY FaultAssumption DEF Typed, FaultType
  <2>2. faults' = faults \/ Fault
    BY <1>1, FaultsGrow
  <2>3. Intact /\ ~ Fault
    BY <2>1, <2>2 DEF Fault
  <2>4. ~ ServerCrash /\ ~ GiveUp /\ ~ AgentCrash
    BY <2>3 DEF ServerCrash, GiveUp, AgentCrash
  <2>5. CASE Bot \/ SetStatus \/ ServerStart
    BY <2>3, <2>5, BotIntact DEF Bot
  <2>6. CASE Handlers \/ \E k \in Conn : Expire(k)
    BY <2>3, <2>6, RequestIntact DEF Handlers
  <2>7. CASE Agent
    BY <2>3, <2>7, AgentIntact
  <2> QED BY <1>1, <2>4, <2>5, <2>6, <2>7 DEF Next
<1>2. CASE UNCHANGED vars
  BY <1>2 DEF vars, Intact, Early, FirstRegistration, Registered, Held, InMemory, InHand,
              Received
<1> QED BY <1>1, <1>2

\* Without a crash, a failed save, a request given up or a removal, every
\* command the bot was told is queued is in the queue, on its way, with the
\* agent or reported (Enqueue, Dequeue, pollOnce), for any commands and tokens.
THEOREM NothingIsLostWithoutFault == Spec => []NothingLostWithoutFault
<1>1. Init => IntactSoFar
  BY TokenAssumption DEF Init, IntactSoFar, Intact, Early, FirstRegistration, Registered,
                         Held, EmptyStore
<1>2. Intact => (FirstRegistration => \A c \in Command : StatusOf(c) # "lost")
  BY HeldNotLost DEF Intact
<1>3. IntactSoFar => NothingLostWithoutFault
  BY <1>2 DEF IntactSoFar, NothingLostWithoutFault
<1>4. Typed /\ DiskBehind /\ Sound /\ [Next]_vars => Sound'
  BY NextRefines
<1> QED BY <1>1, <1>3, <1>4, InitSound, NextIntact, AlwaysTyped, DiskNeverAhead, PTL DEF Spec

-----------------------------------------------------------------------------
(* The bot's screens and dialogs (Menus), for any routers, kinds of list,      *)
(* contents, messages and number of taps.                                      *)
(*                                                                             *)
(* MenuSound is their inductive invariant.  Its core is Linked and FreshTaps:  *)
(* a command that somebody waits for names a job that waits, at that router    *)
(* and for that list, and no two name the same one; the job of a tap not       *)
(* handled yet does not exist.  Commands of a restarted server or of a job     *)
(* that gave up name none, so no late answer reaches the wrong job, and what   *)
(* a job stores as the list of a router holds that router's rows only.         *)
(*                                                                             *)
(* Truth rests on it: what is drawn from a cached list (a screen, a button     *)
(* pressed and not handled yet, a list stored and not drawn yet) is true of    *)
(* that list until another replaces it.                                        *)

Item == Router \X Name
RowsOn(r) == Seq({r} \X Name)
Place == Router \cup {""}
Screens == {"routes", "presets", "redirected", "excluded", "dns", ""}
RowVerb == {"remove", "change", "install", "exclude", "include"}
CacheVerb == RowVerb \cup {"page", "card", "confirm", "entries", "iface", "apply"}
ListVerb == CacheVerb \cup {"open", "update"}
OtherVerb == {"ask", "delete", "name", "source", "id", "slash", "text", "file"}
Waiting == {"act", "plain", "list", "answer"}

\* What an update, a screen, a dialog, a command for router r and a job of router r are.
UpdateRecord == [id : Tap, times : Nat, verb : ListVerb \cup OtherVerb, msg : Message, kind : Kind \cup {""},
                 router : Place, idx : Nat, seen : Seq(Item), own : BOOLEAN, del : BOOLEAN,
                 cancel : BOOLEAN, valid : BOOLEAN]
ScreenRecord == [view : {"plain", "list", "card", "confirm"}, kind : Kind \cup {""}, router : Place,
                 idx : Nat, items : Seq(Item), own : BOOLEAN]
DialogRecord == [step : {"", "entries", "iface", "name", "source", "id", "title"}, router : Place,
                 item : Item \cup {NoItem}, del : BOOLEAN]
CommandOn(r) == [for : 0 .. MaxTaps, act : RowVerb \cup {"names", "read", "add", "apply", "update"},
                 kind : Screens, arg : RowsOn(r), seen : Seq(Item), own : BOOLEAN]
JobOn(r) == [stage : Waiting \cup {"", "store", "edit"}, msg : Message \cup {""}, router : {r},
             kind : Kind \cup {""}, opens : BOOLEAN, got : {"waits", "ok", "failed", "nothing"},
             items : RowsOn(r), other : RowsOn(r) \cup {Unknown}, own : BOOLEAN]

\* What ties the fields of each to one another.
UpdateSound(u) ==
    /\ u.verb \in ListVerb => u.kind \in Kind
    /\ u.router \notin Router => u.verb = "slash" /\ u.cancel
    /\ u.verb = "apply" => u.kind = "dns"
    /\ u.verb \in {"card", "confirm"} => u.kind \notin {"excluded", "dns"}
    /\ u.own => u.kind \in Kind /\ u.router \in Router
ScreenSound(s) ==
    /\ s.kind # "" => s.router \in Router /\ s.view # "plain"
    /\ s.kind \in {"excluded", "dns"} => s.view = "list"
    /\ s.own => s.kind # ""
DialogSound ==
    /\ wizard.step # "" => wizard.router \in Router
    /\ wizard.step \in {"entries", "iface"} => wizard.item \in {wizard.router} \X Name
CommandSound(c) ==
    /\ c.act \in RowVerb \cup {"add"} => c.arg # <<>>
    /\ c.act = "names" => c.kind \in Kind
JobSound(s) ==
    /\ s.stage # "" => s.router \in Router
    /\ s.stage \in {"act", "list", "store", "edit"} => s.kind \in Kind
    /\ s.stage = "store" => s.kind \in Adaptive
    /\ s.own => s.stage = "edit"

\* The parts of the invariant: what each variable holds.
Shaped(f) == f = [k \in Kind |-> [r \in Router |-> f[k][r]]]
WorldTyped ==
    /\ registered \subseteq Router /\ online \subseteq Router /\ offers \subseteq Kind \X Router
    /\ asides \in Nat /\ restarts \in Nat
    /\ Shaped(has) /\ \A k \in Kind, r \in Router : has[k][r] \in RowsOn(r)
CacheTyped == Shaped(cached) /\ \A k \in Kind, r \in Router : cached[k][r] \in RowsOn(r) \cup {Unknown}
ScreensTyped == /\ screen \in [Message -> ScreenRecord]
                /\ \A m \in Message : ScreenSound(screen[m])
DialogTyped == wizard \in DialogRecord /\ DialogSound
InboxTyped ==
    /\ inbox \in Seq(UpdateRecord)
    /\ tapped \in 0 .. MaxTaps /\ done \in Nat /\ fetched \in Nat /\ done <= fetched /\ fetched <= Len(inbox)
    /\ \A i \in DOMAIN inbox : UpdateSound(inbox[i]) /\ inbox[i].id <= tapped
    /\ \A i, k \in DOMAIN inbox : i < k => inbox[i].id < inbox[k].id
JobsTyped ==
    /\ DOMAIN jobs = Tap
    /\ \A j \in Tap : jobs[j] \in JobOn(jobs[j].router) /\ JobSound(jobs[j])
QueueTyped ==
    /\ queue = [r \in Router |-> queue[r]]
    /\ \A r \in Router : queue[r] \in Seq(CommandOn(r)) /\ \A i \in DOMAIN queue[r] : CommandSound(queue[r][i])
\* Command c of router r has a job s that waits for it.
Answers(s, r, c) == /\ s.got = "waits" /\ s.router = r /\ s.stage \in Waiting
                    /\ c.act = "names" => s.kind = c.kind
Linked ==
    \A r \in Router : \A i \in DOMAIN queue[r] :
        LET c == queue[r][i] IN
        c.for # 0 => /\ Answers(jobs[c.for], r, c)
                     /\ \A k \in DOMAIN queue[r] : queue[r][k].for = c.for => k = i
\* Taps to come and updates not handled yet have no job.
FreshTaps ==
    /\ \A j \in Tap : j > tapped => jobs[j] = NoJob
    /\ \A i \in DOMAIN inbox : i > done => jobs[inbox[i].id] = NoJob
    /\ loop \in 0 .. MaxTaps
    /\ loop # 0 => jobs[loop].stage = "answer"

\* What a screen, an update or a job says of a cached list.
TrueScreen(list, s) == IF s.view = "list" THEN s.items = list
                       ELSE s.idx \in DOMAIN list /\ s.items = <<list[s.idx]>>
TrueUpdate(list, u) ==
    /\ u.verb \in RowVerb => list = Unknown \/ u.idx \notin DOMAIN list \/ u.seen = <<list[u.idx]>>
    /\ u.verb = "apply" => list \in {Unknown, u.seen}
ScreenTrue(s) == s.own => TrueScreen(cached[s.kind][s.router], s)
UpdateTrue(u) == u.own => TrueUpdate(cached[u.kind][u.router], u)
JobTrue(s) == s.own => s.items = cached[s.kind][s.router]
AllTrue ==
    /\ \A m \in Message : ScreenTrue(screen[m])
    /\ \A i \in DOMAIN inbox : UpdateTrue(inbox[i])
    /\ \A j \in Tap : JobTrue(jobs[j])
\* The updates not handled since the last restart were handled before each at most once.
Counted == \A i \in DOMAIN inbox : inbox[i].times <= restarts + (IF i <= done THEN 1 ELSE 0)

MenuSound == /\ WorldTyped /\ CacheTyped /\ ScreensTyped /\ DialogTyped /\ InboxTyped
             /\ JobsTyped /\ QueueTyped /\ Linked /\ FreshTaps

Below == {ss \in Nat \X Nat : ss[1] < ss[2]}

\* What CHOOSE finds for Min; RemoveFirst, the code's removal of a row, rests on it.
LEMMA MinIsLeast ==
    ASSUME NEW S \in SUBSET Nat, S # {}
    PROVE  Min(S) \in S
<1>1. IsWellFoundedOn(Below, Nat)
  <2>1. Below = OpToRel(<, Nat)
    BY DEF Below, OpToRel
  <2> QED BY <2>1, NatLessThanWellFounded
<1>2. PICK n \in S : \A m \in S : ~ (<<m, n>> \in Below)
  BY <1>1, WFMin
<1>3. ASSUME NEW m \in S PROVE n <= m
  <2>1. m \in Nat /\ n \in Nat /\ ~ (<<m, n>> \in Below)
    BY <1>2
  <2>2. ~ (m < n)
    BY <2>1 DEF Below
  <2> QED BY <2>1, <2>2
<1> QED BY <1>3 DEF Min

-----------------------------------------------------------------------------
LEMMA TapBounds ==
    /\ 0 \in 0 .. MaxTaps
    /\ \A x \in 0 .. MaxTaps : x # 0 => x \in Tap
    /\ \A x \in Tap : x \in 0 .. MaxTaps /\ x # 0
BY BoundAssumption DEF Tap

LEMMA Unranked ==
    ASSUME NEW r \in Router
    PROVE  RowsOn(r) \subseteq Seq(Item) /\ <<>> \in RowsOn(r)
<1>1. {r} \X Name \subseteq Item
  BY DEF Item
<1> QED BY <1>1, SeqMonotonic, EmptySeq DEF RowsOn

LEMMA OnRows ==
    ASSUME NEW r, NEW names \in Seq(Name)
    PROVE  On(r, names) \in RowsOn(r)
<1>1. Len(names) \in Nat /\ DOMAIN names = 1 .. Len(names)
  BY LenProperties
<1>2. \A i \in 1 .. Len(names) : names[i] \in Name
  BY ElementOfSeq
<1>3. On(r, names) \in [1 .. Len(names) -> {r} \X Name]
  BY <1>1, <1>2 DEF On
<1> QED BY <1>1, <1>3, IsASeq DEF RowsOn

LEMMA WithoutRows ==
    ASSUME NEW r, NEW s \in RowsOn(r), NEW it
    PROVE  Without(s, it) \in RowsOn(r)
<1> DEFINE I == {i \in 1 .. Len(s) : s[i] = it}
<1>0. Len(s) \in Nat
  BY LenProperties DEF RowsOn
<1>1. CASE I = {}
  <2>1. ~ (\E i \in 1 .. Len(s) : s[i] = it)
    BY <1>1
  <2> QED BY <2>1 DEF Without, RemoveFirst
<1>2. CASE I # {}
  <2>1. \E i \in 1 .. Len(s) : s[i] = it
    BY <1>2
  <2>2. Without(s, it) = RemoveAt(s, Min(I))
    BY <1>2, <2>1 DEF Without, RemoveFirst, SelectInSeq
  <2>3. Min(I) \in I
    BY <1>2, MinIsLeast
  <2>4. PICK n \in 1 .. Len(s) : n = Min(I)
    BY <2>3
  <2>5. SubSeq(s, 1, n - 1) \in RowsOn(r) /\ SubSeq(s, n + 1, Len(s)) \in RowsOn(r)
    BY <1>0, SubSeqProperties DEF RowsOn
  <2> QED BY <2>2, <2>4, <2>5, ConcatProperties DEF RemoveAt, RowsOn
<1> QED BY <1>1, <1>2

LEMMA WithRows ==
    ASSUME NEW r, NEW s \in RowsOn(r), NEW it \in {r} \X Name
    PROVE  With(s, it) \in RowsOn(r)
BY AppendProperties DEF With, RowsOn

LEMMA ItemOfRows ==
    ASSUME CacheTyped, NEW k \in Kind, NEW r \in Router, NEW i
    PROVE  MenuItem(k, r, i) # NoItem =>
              /\ MenuItem(k, r, i) \in {r} \X Name
              /\ cached[k][r] # Unknown /\ i \in DOMAIN cached[k][r] /\ i \in Nat
              /\ MenuItem(k, r, i) = cached[k][r][i]
<1> SUFFICES ASSUME MenuItem(k, r, i) # NoItem
             PROVE  /\ MenuItem(k, r, i) \in {r} \X Name
                    /\ cached[k][r] # Unknown /\ i \in DOMAIN cached[k][r] /\ i \in Nat
                    /\ MenuItem(k, r, i) = cached[k][r][i]
  OBVIOUS
<1>1. /\ cached[k][r] # Unknown /\ i \in DOMAIN cached[k][r]
      /\ MenuItem(k, r, i) = cached[k][r][i]
  BY DEF MenuItem
<1>2. cached[k][r] \in Seq({r} \X Name)
  BY <1>1 DEF CacheTyped, RowsOn
<1>3. DOMAIN cached[k][r] = 1 .. Len(cached[k][r]) /\ Len(cached[k][r]) \in Nat
  BY <1>2, LenProperties
<1>4. cached[k][r][i] \in {r} \X Name
  BY <1>1, <1>2, <1>3, ElementOfSeq
<1> QED BY <1>1, <1>3, <1>4

LEMMA RowOfRows ==
    ASSUME CacheTyped, NEW u, u.kind \in Kind, u.router \in Router
    PROVE  Row(u) \in RowsOn(u.router)
<1>1. CASE MenuItem(u.kind, u.router, u.idx) = NoItem
  BY <1>1, Unranked DEF Row
<1>2. CASE MenuItem(u.kind, u.router, u.idx) # NoItem
  <2>1. PICK it \in {u.router} \X Name : it = MenuItem(u.kind, u.router, u.idx)
    BY <1>2, ItemOfRows
  <2>2. Row(u) = <<it>>
    BY <1>2, <2>1 DEF Row
  <2> QED BY <2>2 DEF RowsOn
<1> QED BY <1>1, <1>2

LEMMA MenuSet ==
    ASSUME CacheTyped, NEW k \in Kind, NEW r \in Router, NEW items \in RowsOn(r),
           NEW other \in RowsOn(r) \cup {Unknown}, cached' = SetMenu(k, r, items, other)
    PROVE  CacheTyped' /\ cached'[k][r] = items
<1> DEFINE New(q, x) ==
       CASE k = "dns" -> IF q = "dns" /\ x = r THEN items ELSE cached[q][x]
         [] k # "dns" /\ k \in Adaptive -> IF q \notin Adaptive THEN cached[q][x]
                              ELSE IF x # r THEN Unknown
                              ELSE IF q = k THEN items ELSE other
         [] k # "dns" /\ k \notin Adaptive -> IF q # k THEN cached[q][x]
                                 ELSE IF x # r THEN Unknown ELSE items
<1>0. cached = [q \in Kind |-> [x \in Router |-> cached[q][x]]]
  BY DEF CacheTyped, Shaped
<1> HIDE DEF New
<1>1. SetMenu(k, r, items, other) = [q \in Kind |-> [x \in Router |-> New(q, x)]]
  <2>1. CASE k = "dns"
    <3>1. SetMenu(k, r, items, other) = [cached EXCEPT !["dns"][r] = items]
      BY <2>1 DEF SetMenu, Adaptive
    <3>2. [cached EXCEPT !["dns"][r] = items] = [q \in Kind |-> [x \in Router |-> New(q, x)]]
      BY <2>1, <1>0 DEF New
    <3> QED BY <3>1, <3>2
  <2>2. CASE k # "dns" /\ k \in Adaptive
    <3>1. SetMenu(k, r, items, other) =
            [q \in Kind |-> IF q = k THEN [x \in Router |-> IF x = r THEN items ELSE Unknown]
                            ELSE IF q \in Adaptive
                            THEN [x \in Router |-> IF x = r THEN other ELSE Unknown]
                            ELSE cached[q]]
      BY <2>2 DEF SetMenu
    <3> QED BY <2>2, <3>1, <1>0 DEF New
  <2>3. CASE k # "dns" /\ k \notin Adaptive
    <3>1. SetMenu(k, r, items, other) =
             [cached EXCEPT ![k] = [x \in Router |-> IF x = r THEN items ELSE Unknown]]
      BY <2>3 DEF SetMenu
    <3> QED BY <2>3, <3>1, <1>0 DEF New
  <2> QED BY <2>1, <2>2, <2>3
<1>2. \A q \in Kind, x \in Router : New(q, x) \in RowsOn(x) \cup {Unknown}
  BY DEF New, CacheTyped
<1>3. New(k, r) = items
  BY DEF New
<1> QED BY <1>1, <1>2, <1>3 DEF CacheTyped, Shaped

-----------------------------------------------------------------------------
(* Commands and those who wait for them *)

Unasked(j) == \A r \in Router : \A i \in DOMAIN queue[r] : queue[r][i].for # j

\* Nothing is under way for a task that does not wait.
LEMMA IdleUnasked ==
    ASSUME Linked, NEW j \in Tap,
           jobs[j] = NoJob \/ jobs[j].got # "waits" \/ jobs[j].stage \notin Waiting
    PROVE  Unasked(j)
<1>1. j # 0
  BY DEF Tap
<1>2. NoJob.stage \notin Waiting
  BY DEF NoJob, Waiting
<1>3. \A r \in Router : \A i \in DOMAIN queue[r] :
        queue[r][i].for # 0 => Answers(jobs[queue[r][i].for], r, queue[r][i])
  BY DEF Linked
<1> QED BY <1>1, <1>2, <1>3 DEF Unasked, Answers

QueueSound == JobsTyped /\ QueueTyped /\ Linked

\* One more command, and what its task is now.
LEMMA AskedSound ==
    ASSUME QueueSound, NEW j \in Tap, Unasked(j), NEW r \in Router,
           NEW c \in CommandOn(r), CommandSound(c), c.for \in {0, j},
           NEW s, s \in JobOn(s.router), JobSound(s), c.for = j => Answers(s, r, c),
           queue' = [queue EXCEPT ![r] = Append(@, c)],
           DOMAIN jobs' = Tap, jobs'[j] = s, \A i \in Tap : i # j => jobs'[i] = jobs[i]
    PROVE  QueueSound'
<1>1. /\ DOMAIN jobs' = Tap /\ jobs'[j] = s
      /\ \A i \in Tap : i # j => jobs'[i] = jobs[i]
  OBVIOUS
<1>2. JobsTyped'
  BY <1>1 DEF QueueSound, JobsTyped
<1>3. /\ queue' = [x \in Router |-> queue'[x]] /\ queue'[r] = Append(queue[r], c)
      /\ \A x \in Router : x # r => queue'[x] = queue[x]
      /\ \A x \in Router : queue[x] \in Seq(CommandOn(x))
  BY DEF QueueSound, QueueTyped
<1> DEFINE n == Len(queue[r])
<1>4. /\ n \in Nat /\ DOMAIN queue[r] = 1 .. n /\ DOMAIN queue'[r] = 1 .. (n + 1)
      /\ queue'[r] \in Seq(CommandOn(r)) /\ queue'[r][n + 1] = c
      /\ \A i \in 1 .. n : queue'[r][i] = queue[r][i]
  BY <1>3, AppendProperties, LenProperties
<1> HIDE DEF n
<1>5. QueueTyped'
  <2>1. ASSUME NEW x \in Router, NEW i \in DOMAIN queue'[x] PROVE CommandSound(queue'[x][i])
    <3>1. CASE x # r
      BY <1>3, <2>1, <3>1 DEF QueueSound, QueueTyped
    <3>2. CASE x = r /\ i \in 1 .. n
      BY <1>4, <3>2 DEF QueueSound, QueueTyped
    <3>3. CASE x = r /\ i = n + 1
      BY <1>4, <3>3
    <3> QED BY <1>4, <2>1, <3>1, <3>2, <3>3
  <2>2. \A x \in Router : queue'[x] \in Seq(CommandOn(x))
    BY <1>3, <1>4
  <2> QED BY <1>3, <2>1, <2>2 DEF QueueTyped
<1>6. \A x \in Router : \A i \in DOMAIN queue[x] :
         /\ queue[x][i].for # j
         /\ queue[x][i].for # 0 => queue[x][i].for \in Tap
         /\ queue[x][i].for # 0 => jobs'[queue[x][i].for] = jobs[queue[x][i].for]
  <2>1. ASSUME NEW x \in Router, NEW i \in DOMAIN queue[x]
        PROVE queue[x][i].for # j /\ queue[x][i].for \in 0 .. MaxTaps
    <3>1. queue[x] \in Seq(CommandOn(x)) /\ DOMAIN queue[x] = 1 .. Len(queue[x])
      BY <1>3, LenProperties
    <3>2. queue[x][i] \in CommandOn(x)
      BY <2>1, <3>1, ElementOfSeq
    <3> QED BY <2>1, <3>2 DEF CommandOn, Unasked
  <2>2. \A f \in 0 .. MaxTaps : f # 0 => f \in Tap
    BY BoundAssumption DEF Tap
  <2> QED BY <1>1, <2>1, <2>2
<1>7. Linked'
  <2>1. ASSUME NEW x \in Router, NEW i \in DOMAIN queue'[x], queue'[x][i].for # 0
        PROVE  /\ Answers(jobs'[queue'[x][i].for], x, queue'[x][i])
               /\ \A k \in DOMAIN queue'[x] : queue'[x][k].for = queue'[x][i].for => k = i
    <3>1. CASE x # r
      BY <1>3, <1>6, <2>1, <3>1 DEF QueueSound, Linked
    <3>2. CASE x = r /\ i \in 1 .. n
      <4>1. /\ Answers(jobs[queue[r][i].for], r, queue[r][i])
            /\ \A k \in 1 .. n : queue[r][k].for = queue[r][i].for => k = i
        BY <1>4, <2>1, <3>2 DEF QueueSound, Linked
      <4>2. queue'[r][n + 1].for # queue'[r][i].for
        BY <1>4, <1>6, <2>1, <3>2
      <4>3. queue'[x][i] = queue[r][i] /\ jobs'[queue[r][i].for] = jobs[queue[r][i].for]
        BY <1>4, <1>6, <2>1, <3>2
      <4>4. ASSUME NEW k \in DOMAIN queue'[x], queue'[x][k].for = queue'[x][i].for PROVE k = i
        BY <1>4, <3>2, <4>1, <4>2, <4>3, <4>4
      <4> QED BY <3>2, <4>1, <4>3, <4>4
    <3>3. CASE x = r /\ i = n + 1
      <4>1. c.for = j /\ queue'[x][i] = c
        BY <1>4, <2>1, <3>3
      <4>2. \A k \in 1 .. n : queue'[r][k].for # j
        BY <1>4, <1>6
      <4> QED BY <1>1, <1>4, <2>1, <3>3, <4>1, <4>2
    <3> QED BY <1>4, <2>1, <3>1, <3>2, <3>3
  <2> QED BY <2>1 DEF Linked
<1> QED BY <1>2, <1>5, <1>7 DEF QueueSound

\* A change of the cached lists takes no more than the word that what was drawn is theirs.
Disowned(s, t) == \/ t = s
                  \/ s.own /\ \E b \in BOOLEAN : t = [s EXCEPT !.own = b]

LEMMA DisownIs == ASSUME NEW s PROVE Disowned(s, Disown(s))
<1>1. PICK b \in BOOLEAN : b = Keeps(s.kind, s.router)
  BY DEF Keeps
<1>2. Disown(s) = IF s.own THEN [s EXCEPT !.own = b] ELSE s
  BY <1>1 DEF Disown
<1> QED BY <1>2 DEF Disowned

\* The jobs nothing is under way for go on.
LEMMA MovedSound ==
    ASSUME QueueSound, NEW j \in Tap, Unasked(j), UNCHANGED queue, DOMAIN jobs' = Tap,
           \A i \in Tap : i # j => Disowned(jobs[i], jobs'[i]),
           jobs'[j] \in JobOn(jobs'[j].router), JobSound(jobs'[j])
    PROVE  QueueSound'
<1>1. ASSUME NEW i \in Tap, i # j
      PROVE  /\ jobs'[i] \in JobOn(jobs'[i].router) /\ JobSound(jobs'[i])
             /\ jobs'[i].got = jobs[i].got /\ jobs'[i].router = jobs[i].router
             /\ jobs'[i].stage = jobs[i].stage /\ jobs'[i].kind = jobs[i].kind
  <2>1. jobs[i] \in JobOn(jobs[i].router) /\ JobSound(jobs[i])
    BY DEF QueueSound, JobsTyped
  <2>2. CASE jobs'[i] = jobs[i]
    BY <2>1, <2>2
  <2>3. ASSUME NEW b \in BOOLEAN, jobs[i].own, jobs'[i] = [jobs[i] EXCEPT !.own = b]
        PROVE  /\ jobs'[i] \in JobOn(jobs'[i].router) /\ JobSound(jobs'[i])
               /\ jobs'[i].got = jobs[i].got /\ jobs'[i].router = jobs[i].router
               /\ jobs'[i].stage = jobs[i].stage /\ jobs'[i].kind = jobs[i].kind
    <3>1. /\ jobs'[i].got = jobs[i].got /\ jobs'[i].router = jobs[i].router
          /\ jobs'[i].stage = jobs[i].stage /\ jobs'[i].kind = jobs[i].kind
          /\ jobs'[i] \in JobOn(jobs[i].router)
      BY <2>1, <2>3 DEF JobOn
    <3>2. jobs[i].stage = "edit"
      BY <2>1, <2>3 DEF JobSound
    <3> QED BY <2>1, <3>1, <3>2 DEF JobSound
  <2> QED BY <1>1, <2>2, <2>3 DEF Disowned
<1>2. JobsTyped'
  BY <1>1 DEF JobsTyped
<1>3. QueueTyped'
  BY DEF QueueSound, QueueTyped
<1>4. Linked'
  <2>1. ASSUME NEW r \in Router, NEW i \in DOMAIN queue[r], queue[r][i].for # 0
        PROVE  Answers(jobs'[queue[r][i].for], r, queue[r][i])
    <3>1. queue[r][i] \in CommandOn(r)
      BY ElementOfSeq, LenProperties DEF QueueSound, QueueTyped
    <3>2. queue[r][i].for \in Tap /\ queue[r][i].for # j
      BY <2>1, <3>1, BoundAssumption DEF CommandOn, Tap, Unasked
    <3>3. Answers(jobs[queue[r][i].for], r, queue[r][i])
      BY <2>1 DEF QueueSound, Linked
    <3> QED BY <1>1, <3>2, <3>3 DEF Answers
  <2> QED BY <2>1 DEF QueueSound, Linked
<1> QED BY <1>2, <1>3, <1>4 DEF QueueSound

LEMMA NoJobSound == NoJob \in JobOn(NoJob.router) /\ JobSound(NoJob)
<1>1. <<>> \in Seq({""} \X Name)
  BY EmptySeq
<1> QED BY <1>1 DEF NoJob, JobOn, JobSound, RowsOn

LEMMA DropSound ==
    ASSUME QueueSound, NEW j \in Tap, Unasked(j), Drop(j)
    PROVE  QueueSound'
<1>1. /\ UNCHANGED queue /\ DOMAIN jobs' = Tap /\ jobs'[j] = NoJob
      /\ \A i \in Tap : i # j => jobs'[i] = jobs[i]
  BY DEF Drop, QueueSound, JobsTyped
<1> QED BY <1>1, MovedSound, NoJobSound DEF Disowned

-----------------------------------------------------------------------------
(* What a tap or a text does *)

SpawnSound(u, act, arg, seen, task) ==
    LET c == MenuCommand(u.id, act, u.kind, arg, seen, u.own)
    IN  /\ c \in CommandOn(u.router) /\ CommandSound(c)
        /\ UpdateTrue(u) /\ u.own => arg = seen
        /\ task \in JobOn(u.router) /\ JobSound(task) /\ ~ task.own
        /\ Answers(task, u.router, c)

LEMMA Spawned ==
    ASSUME NEW u \in UpdateRecord, u.router \in Router,
           NEW act \in RowVerb \cup {"names", "read", "apply", "update"},
           NEW arg \in RowsOn(u.router), NEW seen \in Seq(Item),
           act \in RowVerb => arg # <<>>,
           UpdateTrue(u) /\ u.own => arg = seen,
           NEW stage \in {"list", "act", "plain"}, NEW opens \in BOOLEAN,
           stage # "plain" \/ act = "names" => u.kind \in Kind
    PROVE  SpawnSound(u, act, arg, seen, Job(u, stage, opens))
<1> DEFINE c == MenuCommand(u.id, act, u.kind, arg, seen, u.own)
           task == Job(u, stage, opens)
<1>1. /\ u.id \in 0 .. MaxTaps /\ u.kind \in Screens /\ u.kind \in Kind \cup {""} /\ u.own \in BOOLEAN
      /\ u.msg \in Message \cup {""}
  <2>1. u.id \in 1 .. MaxTaps /\ u.kind \in Kind \cup {""} /\ u.own \in BOOLEAN /\ u.msg \in Message
    BY DEF UpdateRecord, Tap
  <2>2. Kind \cup {""} \subseteq Screens
    BY KindAssumption DEF Screens
  <2>3. 1 .. MaxTaps \subseteq 0 .. MaxTaps
    BY BoundAssumption
  <2> QED BY <2>1, <2>2, <2>3
<1>2. c \in CommandOn(u.router)
  BY <1>1 DEF CommandOn, MenuCommand
<1>3. CommandSound(c)
  BY DEF CommandSound, MenuCommand, RowVerb
<1>4. /\ task \in JobOn(u.router) /\ ~ task.own /\ task.stage = stage /\ task.router = u.router
      /\ task.got = "waits" /\ task.kind = u.kind
  BY <1>1, Unranked DEF Job, NoJob, JobOn, Waiting
<1>5. JobSound(task)
  BY <1>4 DEF JobSound
<1>6. Answers(task, u.router, c)
  BY <1>4 DEF Answers, MenuCommand, Waiting
<1> QED BY <1>2, <1>3, <1>4, <1>5, <1>6 DEF SpawnSound

ShowsSound(u) ==
    /\ UNCHANGED <<cached, wizard, jobs, loop, queue>>
    /\ \E s \in ScreenRecord : ScreenSound(s) /\ ScreenTrue(s) /\ Show(u.msg, s)

Spawns(u) == \E act, arg, seen, task : SpawnSound(u, act, arg, seen, task) /\ Spawn(u, act, arg, seen, task)

TurnsDialog == DialogTyped' /\ UNCHANGED <<cached, jobs, loop, queue, screen>>

LEMMA PlainSound == Plain \in ScreenRecord /\ ScreenSound(Plain) /\ ~ Plain.own
BY EmptySeq DEF Plain, ScreenRecord, ScreenSound, Place

LEMMA ActOnEffect ==
    ASSUME CacheTyped, NEW u \in UpdateRecord, u.router \in Router, u.kind \in Kind,
           u.verb \in RowVerb \cup {"apply"}, NEW arg \in RowsOn(u.router), ActOn(u, arg),
           UpdateTrue(u) /\ u.own => arg \in {<<>>, u.seen}
    PROVE  Spawns(u) \/ ShowsSound(u)
<1>1. CASE arg = <<>>
  BY <1>1, PlainSound DEF ActOn, ShowsSound, bot, ScreenTrue
<1>2. CASE arg # <<>>
  <2>1. u.seen \in Seq(Item)
    BY DEF UpdateRecord
  <2>2. SpawnSound(u, u.verb, arg, u.seen, Job(u, "act", FALSE))
    BY <1>2, <2>1, Spawned
  <2> QED BY <1>2, <2>2 DEF ActOn, Spawns
<1> QED BY <1>1, <1>2

LEMMA CachedSound ==
    ASSUME CacheTyped, NEW u \in UpdateRecord, u.kind \in Kind, u.router \in Router
    PROVE  /\ cached[u.kind][u.router] # Unknown =>
                LET s == FromCache("list", u.kind, u.router, 0, cached[u.kind][u.router])
                IN  s \in ScreenRecord /\ ScreenSound(s) /\ ScreenTrue(s)
           /\ \A it, view :
                it = MenuItem(u.kind, u.router, u.idx) /\ it # NoItem
                   /\ view \in {"card", "confirm"} /\ u.kind \notin {"excluded", "dns"} =>
                LET s == FromCache(view, u.kind, u.router, u.idx, <<it>>)
                IN  s \in ScreenRecord /\ ScreenSound(s) /\ ScreenTrue(s)
<1>1. u.idx \in Nat /\ u.kind # "" /\ u.router \in Place
  BY KindAssumption DEF UpdateRecord, Place
<1>2. ASSUME cached[u.kind][u.router] # Unknown
      PROVE  LET s == FromCache("list", u.kind, u.router, 0, cached[u.kind][u.router])
             IN  s \in ScreenRecord /\ ScreenSound(s) /\ ScreenTrue(s)
  <2>1. cached[u.kind][u.router] \in Seq(Item)
    BY <1>2, Unranked DEF CacheTyped
  <2> QED BY <1>1, <2>1 DEF FromCache, ScreenRecord, ScreenSound, ScreenTrue, TrueScreen
<1>3. ASSUME NEW it, NEW view \in {"card", "confirm"}, u.kind \notin {"excluded", "dns"},
             it = MenuItem(u.kind, u.router, u.idx), it # NoItem
      PROVE  LET s == FromCache(view, u.kind, u.router, u.idx, <<it>>)
             IN  s \in ScreenRecord /\ ScreenSound(s) /\ ScreenTrue(s)
  <2>1. /\ it \in {u.router} \X Name /\ it = cached[u.kind][u.router][u.idx]
        /\ u.idx \in DOMAIN cached[u.kind][u.router]
    BY <1>3, ItemOfRows
  <2>2. it \in Item
    BY <2>1 DEF Item
  <2>3. <<it>> \in Seq(Item)
    BY <2>2
  <2> QED BY <1>1, <1>3, <2>1, <2>3 DEF FromCache, ScreenRecord, ScreenSound, ScreenTrue, TrueScreen
<1> QED BY <1>2, <1>3

LEMMA ButtonEffect ==
    ASSUME CacheTyped, DialogTyped, NEW u \in UpdateRecord, UpdateSound(u), Button(u)
    PROVE  Spawns(u) \/ ShowsSound(u) \/ TurnsDialog
<1>0. u.verb # "slash"
  BY DEF Button, OpenRoutes, OpenPresets, OpenAdaptive, OpenDNSTop, OpenList, Page, Card, RouteAction,
         InstallPreset, AdaptiveAction, ApplyTop, UpdatePresets, Ask, StartListDialog, StartDialog
<1>1. /\ u.router \in Router /\ (u.verb \in ListVerb => u.kind \in Kind)
      /\ u.idx \in Nat /\ u.del \in BOOLEAN /\ u.router \in Place
  BY <1>0 DEF UpdateSound, UpdateRecord, Place
<1>2. <<>> \in RowsOn(u.router) /\ <<>> \in Seq(Item)
  BY <1>1, Unranked
<1>3. CASE OpenList(u)
  <2>1. u.kind \in Kind
    BY <1>1, <1>3 DEF OpenList, ListVerb
  <2>2. SpawnSound(u, "names", <<>>, <<>>, Job(u, "list", TRUE))
    BY <1>1, <1>2, <2>1, Spawned DEF RowVerb
  <2> QED BY <1>3, <2>2 DEF OpenList, Spawns
<1>4. CASE Page(u)
  <2>1. u.kind \in Kind
    BY <1>1, <1>4 DEF Page, ListVerb, CacheVerb
  <2> QED BY <1>1, <1>4, <2>1, CachedSound, PlainSound DEF Page, ShowsSound, bot, ScreenTrue
<1>5. CASE Card(u)
  <2>1. u.kind \in Kind /\ u.kind \notin {"excluded", "dns"} /\ u.verb \in {"card", "confirm"}
    BY <1>1, <1>5 DEF Card, ListVerb, CacheVerb, UpdateSound
  <2>2. UNCHANGED <<cached, wizard, jobs, loop, queue>>
    BY <1>5 DEF Card, bot
  <2>3. CASE MenuItem(u.kind, u.router, u.idx) = NoItem
    BY <1>5, <2>2, <2>3, PlainSound DEF Card, ShowsSound, ScreenTrue
  <2>4. CASE MenuItem(u.kind, u.router, u.idx) # NoItem
    <3> DEFINE s == FromCache(u.verb, u.kind, u.router, u.idx, <<MenuItem(u.kind, u.router, u.idx)>>)
    <3>1. s \in ScreenRecord /\ ScreenSound(s) /\ ScreenTrue(s)
      BY <1>1, <2>1, <2>4, CachedSound
    <3>2. Show(u.msg, s)
      BY <1>5, <2>4 DEF Card
    <3> QED BY <2>2, <3>1, <3>2 DEF ShowsSound
  <2> QED BY <2>3, <2>4
<1>6. CASE RouteAction(u) \/ InstallPreset(u) \/ AdaptiveAction(u)
  <2>1. u.verb \in RowVerb /\ ActOn(u, Row(u))
    BY <1>6 DEF RouteAction, InstallPreset, AdaptiveAction, RowVerb
  <2>2. u.kind \in Kind
    BY <1>1, <2>1 DEF ListVerb, CacheVerb
  <2>3. Row(u) \in RowsOn(u.router)
    BY <1>1, <2>2, RowOfRows
  <2>4. UpdateTrue(u) /\ u.own => Row(u) \in {<<>>, u.seen}
    BY <2>1 DEF UpdateTrue, TrueUpdate, Row, MenuItem
  <2> QED BY <1>1, <2>1, <2>2, <2>3, <2>4, ActOnEffect
<1>7. CASE ApplyTop(u)
  <2> DEFINE arg == IF cached["dns"][u.router] = Unknown THEN <<>> ELSE cached["dns"][u.router]
  <2>1. u.verb = "apply" /\ ActOn(u, arg)
    BY <1>7 DEF ApplyTop
  <2>2. u.kind \in Kind /\ u.kind = "dns"
    BY <1>1, <2>1 DEF ListVerb, CacheVerb, UpdateSound
  <2>3. arg \in RowsOn(u.router)
    BY <1>1, <1>2, <2>2 DEF CacheTyped
  <2>4. UpdateTrue(u) /\ u.own => arg \in {<<>>, u.seen}
    BY <2>1, <2>2 DEF UpdateTrue, TrueUpdate
  <2> QED BY <1>1, <2>1, <2>2, <2>3, <2>4, ActOnEffect
<1>8. CASE UpdatePresets(u)
  <2>1. u.kind \in Kind
    BY <1>1, <1>8 DEF UpdatePresets, ListVerb
  <2>2. SpawnSound(u, "update", <<>>, <<>>, Job(u, "act", FALSE))
    BY <1>1, <1>2, <2>1, Spawned DEF RowVerb
  <2> QED BY <1>8, <2>2 DEF UpdatePresets, Spawns
<1>9. CASE Ask(u)
  <2>1. SpawnSound(u, "read", <<>>, <<>>, Job(u, "plain", FALSE))
    BY <1>1, <1>2, Spawned DEF RowVerb
  <2> QED BY <1>9, <2>1 DEF Ask, Spawns
<1>10. CASE StartListDialog(u)
  <2>1. u.kind \in Kind /\ u.verb \in {"entries", "iface"}
    BY <1>1, <1>10 DEF StartListDialog, ListVerb, CacheVerb
  <2>2. UNCHANGED <<cached, jobs, loop, queue, screen>>
    BY <1>10 DEF StartListDialog
  <2>3. CASE MenuItem(u.kind, u.router, u.idx) = NoItem
    BY <1>10, <2>2, <2>3 DEF StartListDialog, TurnsDialog, DialogTyped, DialogSound
  <2>4. CASE MenuItem(u.kind, u.router, u.idx) # NoItem
    <3>1. PICK it \in {u.router} \X Name : it = MenuItem(u.kind, u.router, u.idx)
      BY <1>1, <2>1, <2>4, ItemOfRows
    <3>2. wizard' = [step |-> u.verb, router |-> u.router, item |-> it, del |-> u.del]
      BY <1>10, <2>4, <3>1 DEF StartListDialog
    <3>3. it \in Item
      BY <1>1, <3>1 DEF Item
    <3>4. wizard' \in DialogRecord
      BY <1>1, <2>1, <3>2, <3>3 DEF DialogRecord
    <3> QED BY <1>1, <2>2, <3>1, <3>2, <3>4 DEF TurnsDialog, DialogTyped, DialogSound
  <2> QED BY <2>3, <2>4
<1>11. CASE StartDialog(u)
  <2>1. wizard' = wizard \/ wizard' = [step |-> u.verb, router |-> u.router, item |-> NoItem, del |-> FALSE]
    BY <1>11 DEF StartDialog
  <2>2. u.verb \in {"name", "source", "id"} /\ UNCHANGED <<cached, jobs, loop, queue, screen>>
    BY <1>11 DEF StartDialog
  <2>3. [step |-> u.verb, router |-> u.router, item |-> NoItem, del |-> FALSE] \in DialogRecord
    BY <1>1, <2>2 DEF DialogRecord
  <2>4. CASE wizard' = wizard
    BY <2>2, <2>4 DEF TurnsDialog, DialogTyped, DialogSound
  <2>5. CASE wizard' = [step |-> u.verb, router |-> u.router, item |-> NoItem, del |-> FALSE]
    <3>1. wizard'.step = u.verb /\ wizard'.router = u.router
      BY <2>5
    <3> QED BY <1>1, <2>2, <2>3, <2>5, <3>1 DEF TurnsDialog, DialogTyped, DialogSound
  <2> QED BY <2>1, <2>4, <2>5
<1> QED BY <1>3, <1>4, <1>5, <1>6, <1>7, <1>8, <1>9, <1>10, <1>11
        DEF Button, OpenRoutes, OpenPresets, OpenAdaptive, OpenDNSTop

\* A command the loop itself waits for.
EnqueueSound(r, act, k, arg) ==
    /\ act \in {"read", "add", "change"} /\ k \in Screens /\ arg \in RowsOn(r)
    /\ act # "read" => arg # <<>>

Waited(u) == \E r \in Router : \E act, k, arg :
                 EnqueueAndWait(u, r, act, k, arg) /\ EnqueueSound(r, act, k, arg)

LEMMA NoDialogSound == wizard' = NoDialog => DialogTyped'
<1>1. NoDialog \in DialogRecord
  BY DEF NoDialog, DialogRecord, Place
<1>2. NoDialog.step = ""
  BY DEF NoDialog
<1> QED BY <1>1, <1>2 DEF DialogTyped, DialogSound

LEMMA TextEffect ==
    ASSUME WorldTyped, DialogTyped, NEW u \in UpdateRecord, UpdateSound(u), Text(u)
    PROVE  /\ DialogTyped' /\ registered' \subseteq Router /\ UNCHANGED <<cached, screen>>
           /\ Waited(u) \/ UNCHANGED <<queue, jobs, loop>>
<1> DEFINE Goal == /\ DialogTyped' /\ registered' \subseteq Router /\ UNCHANGED <<cached, screen>>
                   /\ Waited(u) \/ UNCHANGED <<queue, jobs, loop>>
<1>0. /\ registered \subseteq Router /\ wizard \in DialogRecord
      /\ wizard.step # "" => wizard.router \in Router
      /\ wizard.step \in {"entries", "iface"} => wizard.item \in {wizard.router} \X Name
  BY DEF WorldTyped, DialogTyped, DialogSound
<1>1. \A r \in Router : EnqueueSound(r, "read", "", <<>>)
  BY Unranked DEF EnqueueSound, Screens
<1>2. ASSUME wizard.step \in {"entries", "iface"}
      PROVE  \A act \in {"add", "change"} : EnqueueSound(wizard.router, act, "routes", <<wizard.item>>)
  <2>1. PICK it \in {wizard.router} \X Name : it = wizard.item
    BY <1>0, <1>2
  <2>2. <<it>> \in RowsOn(wizard.router) /\ <<it>> # <<>>
    BY DEF RowsOn
  <2> QED BY <2>1, <2>2 DEF EnqueueSound, Screens
<1>3. CASE SlashCommand(u)
  <2>1. UNCHANGED <<cached, screen, registered>> /\ wizard' = NoDialog
    BY <1>3 DEF SlashCommand, Clear
  <2>2. CASE u.cancel
    BY <1>0, <1>3, <2>1, <2>2, NoDialogSound DEF SlashCommand
  <2>3. CASE ~ u.cancel
    <3>1. u.router \in Router /\ EnqueueAndWait(u, u.router, "read", "", <<>>)
      BY <1>3, <2>3 DEF SlashCommand, UpdateSound
    <3>2. Waited(u)
      BY <1>1, <3>1 DEF Waited
    <3> QED BY <1>0, <2>1, <3>2, NoDialogSound
  <2> QED BY <2>2, <2>3
<1>4. CASE TextRefused(u)
  BY <1>0, <1>4 DEF TextRefused, bot, DialogTyped, DialogSound
<1>5. CASE ListNamed(u)
  <2>1. PICK n \in Name : wizard' = [wizard EXCEPT !.step = "entries", !.item = <<wizard.router, n>>]
    BY <1>5 DEF ListNamed
  <2>2. wizard.router \in Router
    BY <1>0, <1>5 DEF ListNamed, Taken
  <2>3. PICK it \in {wizard.router} \X Name : it = <<wizard.router, n>>
    OBVIOUS
  <2>4. it \in Item
    BY <2>2, <2>3 DEF Item
  <2>5. wizard' = [wizard EXCEPT !.step = "entries", !.item = it]
    BY <2>1, <2>3
  <2>6. wizard' \in DialogRecord /\ wizard'.router = wizard.router /\ wizard'.item = it
    BY <1>0, <2>4, <2>5 DEF DialogRecord
  <2>7. DialogTyped'
    BY <2>2, <2>3, <2>6 DEF DialogTyped, DialogSound
  <2> QED BY <1>0, <1>5, <2>7 DEF ListNamed
<1>6. CASE EntriesGiven(u)
  <2>1. /\ UNCHANGED <<cached, screen, registered>> /\ wizard' = NoDialog
        /\ wizard.step \in {"entries"} /\ wizard.router \in Router
    BY <1>0, <1>6 DEF EntriesGiven, Submit, Clear, Taken
  <2>2. PICK act \in {"add", "change"} : EnqueueAndWait(u, wizard.router, act, "routes", <<wizard.item>>)
    BY <1>6 DEF EntriesGiven, Submit
  <2>3. Waited(u)
    BY <1>2, <2>1, <2>2 DEF Waited
  <2> QED BY <1>0, <2>1, <2>3, NoDialogSound
<1>7. CASE IfaceGiven(u)
  <2>1. /\ UNCHANGED <<cached, screen, registered>> /\ wizard' = NoDialog
        /\ wizard.step \in {"iface"} /\ wizard.router \in Router
        /\ EnqueueAndWait(u, wizard.router, "change", "routes", <<wizard.item>>)
    BY <1>0, <1>7 DEF IfaceGiven, Submit, Clear, Taken
  <2>2. Waited(u)
    BY <1>2, <2>1 DEF Waited
  <2> QED BY <1>0, <2>1, <2>2, NoDialogSound
<1>8. CASE SourceGiven(u)
  <2>1. /\ UNCHANGED <<cached, screen, registered>> /\ wizard' = NoDialog
        /\ wizard.router \in Router /\ EnqueueAndWait(u, wizard.router, "read", "", <<>>)
    BY <1>0, <1>8 DEF SourceGiven, Submit, Clear, Taken
  <2>2. Waited(u)
    BY <1>1, <2>1 DEF Waited
  <2> QED BY <1>0, <2>1, <2>2, NoDialogSound
<1>9. CASE RouterNamed(u)
  <2>1. /\ UNCHANGED <<cached, queue, jobs, loop, screen>> /\ u.verb = "text"
        /\ wizard.step \in {"id", "title"} /\ wizard.router \in Router
    BY <1>0, <1>9 DEF RouterNamed, Taken
  <2>2. CASE wizard.step = "id"
    <3>1. wizard' = [wizard EXCEPT !.step = "title", !.router = u.router] /\ registered' = registered
      BY <1>9, <2>2 DEF RouterNamed
    <3>2. u.router \in Router /\ u.router \in Place
      BY <2>1 DEF UpdateSound, Place
    <3>3. wizard' \in DialogRecord /\ wizard'.step = "title" /\ wizard'.router = u.router
      BY <1>0, <3>1, <3>2 DEF DialogRecord
    <3>4. DialogTyped'
      BY <3>2, <3>3 DEF DialogTyped, DialogSound
    <3> QED BY <1>0, <2>1, <3>1, <3>4
  <2>3. CASE wizard.step # "id"
    <3>1. wizard' = NoDialog /\ registered' = registered \cup {wizard.router}
      BY <1>9, <2>3 DEF RouterNamed, Clear
    <3> QED BY <1>0, <2>1, <3>1, NoDialogSound
  <2> QED BY <2>2, <2>3
<1>10. CASE Document(u)
  <2>1. UNCHANGED <<cached, screen, registered>>
    BY <1>10 DEF Document
  <2>2. CASE wizard.step = "source" /\ u.valid
    <3>1. wizard' = NoDialog /\ wizard.router \in Router /\ EnqueueAndWait(u, wizard.router, "read", "", <<>>)
      BY <1>0, <1>10, <2>2 DEF Document, Clear
    <3>2. Waited(u)
      BY <1>1, <3>1 DEF Waited
    <3> QED BY <1>0, <2>1, <3>1, <3>2, NoDialogSound
  <2>3. CASE ~ (wizard.step = "source" /\ u.valid)
    BY <1>0, <1>10, <2>1, <2>3 DEF Document, DialogTyped, DialogSound
  <2> QED BY <2>2, <2>3
<1> QED BY <1>3, <1>4, <1>5, <1>6, <1>7, <1>8, <1>9, <1>10 DEF Text

LEMMA SpawnStep ==
    ASSUME QueueSound, ScreensTyped, NEW u \in UpdateRecord, u.router \in Router, jobs[u.id] = NoJob,
           NEW act, NEW arg, NEW seen, NEW task, SpawnSound(u, act, arg, seen, task),
           Spawn(u, act, arg, seen, task)
    PROVE  /\ QueueSound' /\ ScreensTyped' /\ UNCHANGED <<cached, wizard, loop>>
           /\ \A i \in Tap : i # u.id => jobs'[i] = jobs[i]
           /\ jobs'[u.id].own = FALSE
           /\ \A m \in Message : screen'[m] \in {screen[m], Plain}
<1> DEFINE c == MenuCommand(u.id, act, u.kind, arg, seen, u.own)
<1>1. u.id \in Tap /\ Unasked(u.id) /\ NoJob.own = FALSE
  BY IdleUnasked DEF UpdateRecord, QueueSound, NoJob
<1>2. /\ c \in CommandOn(u.router) /\ CommandSound(c) /\ c.for = u.id
      /\ task \in JobOn(u.router) /\ JobSound(task) /\ ~ task.own /\ Answers(task, u.router, c)
      /\ task.router = u.router /\ task.own = FALSE
  <2>1. task \in JobOn(u.router) /\ ~ task.own
    BY DEF SpawnSound
  <2>2. task.router = u.router /\ task.own = FALSE
    BY <2>1 DEF JobOn
  <2>3. c.for = u.id
    BY DEF MenuCommand
  <2> QED BY <2>2, <2>3 DEF SpawnSound
<1> HIDE DEF c
<1>3. screen' = [screen EXCEPT ![u.msg] = Plain] /\ UNCHANGED <<cached, wizard, loop>>
  BY DEF Spawn, Show
<1>4. ScreensTyped' /\ \A m \in Message : screen'[m] \in {screen[m], Plain}
  BY <1>3, PlainSound DEF ScreensTyped
<1>5. CASE u.router \in registered
  <2>1. queue' = [queue EXCEPT ![u.router] = Append(@, c)] /\ jobs' = [jobs EXCEPT ![u.id] = task]
    BY <1>5 DEF Spawn, EnqueueCommand, c
  <2>2. /\ DOMAIN jobs' = Tap /\ jobs'[u.id] = task
        /\ \A i \in Tap : i # u.id => jobs'[i] = jobs[i]
    BY <1>1, <2>1 DEF QueueSound, JobsTyped
  <2>3. QueueSound'
    BY <1>1, <1>2, <2>1, <2>2, AskedSound
  <2> QED BY <1>2, <1>3, <1>4, <2>3, <2>2
<1>6. CASE u.router \notin registered
  <2>1. UNCHANGED <<queue, jobs>>
    BY <1>6 DEF Spawn
  <2> QED BY <1>1, <1>3, <1>4, <2>1 DEF QueueSound, JobsTyped, QueueTyped, Linked
<1> QED BY <1>5, <1>6

LEMMA WaitedStep ==
    ASSUME WorldTyped, QueueSound, NEW u \in UpdateRecord, jobs[u.id] = NoJob, loop = 0,
           Waited(u)
    PROVE  /\ QueueSound' /\ \A i \in Tap : i # u.id => jobs'[i] = jobs[i]
           /\ jobs'[u.id].own = FALSE
           /\ loop' \in {0, u.id}
           /\ loop' # 0 => jobs'[loop'].stage = "answer"
<1>0. PICK r \in Router : \E act, k, arg : EnqueueAndWait(u, r, act, k, arg) /\ EnqueueSound(r, act, k, arg)
  BY DEF Waited
<1>1. PICK act, k, arg : EnqueueAndWait(u, r, act, k, arg) /\ EnqueueSound(r, act, k, arg)
  BY <1>0
<1>2. u.id \in Tap /\ u.id \in 0 .. MaxTaps /\ u.id # 0 /\ Unasked(u.id) /\ NoJob.own = FALSE
  <2>1. u.id \in Tap
    BY DEF UpdateRecord
  <2>2. u.id \in 0 .. MaxTaps /\ u.id # 0
    BY <2>1, BoundAssumption DEF Tap
  <2> QED BY <2>1, <2>2, IdleUnasked DEF QueueSound, NoJob
<1>3. CASE r \notin registered
  BY <1>1, <1>2, <1>3 DEF EnqueueAndWait, QueueSound, JobsTyped, QueueTyped, Linked
<1>4. CASE r \in registered
  <2> DEFINE c == MenuCommand(IF r \in online THEN u.id ELSE 0, act, k, arg, arg, TRUE)
             s == IF r \in online THEN [NoJob EXCEPT !.stage = "answer", !.router = r] ELSE NoJob
  <2>1. c.for = (IF r \in online THEN u.id ELSE 0) /\ c.for \in 0 .. MaxTaps /\ c.act = act /\ c.arg = arg
    BY <1>2, BoundAssumption DEF MenuCommand
  <2>2. c \in CommandOn(r) /\ CommandSound(c)
    <3>1. arg \in Seq(Item)
      BY <1>1, Unranked DEF EnqueueSound
    <3>2. act \in RowVerb \cup {"names", "read", "add", "apply", "update"}
      BY <1>1 DEF EnqueueSound, RowVerb
    <3>3. c \in CommandOn(r)
      BY <1>1, <2>1, <3>1, <3>2 DEF CommandOn, MenuCommand, EnqueueSound
    <3>4. act # "names" /\ (act \in RowVerb \cup {"add"} => arg # <<>>)
      BY <1>1 DEF EnqueueSound, RowVerb
    <3> HIDE DEF c
    <3>5. CommandSound(c)
      BY <2>1, <3>4 DEF CommandSound
    <3> QED BY <3>3, <3>5
  <2>3. s \in JobOn(s.router) /\ JobSound(s) /\ s.own = FALSE
    <3>1. CASE r \in online
      <4>1. s = [NoJob EXCEPT !.stage = "answer", !.router = r]
        BY <3>1
      <4>2. s.router = r /\ s.stage = "answer" /\ s.own = FALSE
        BY <4>1 DEF NoJob
      <4>3. s \in JobOn(r)
        BY <4>1, Unranked DEF JobOn, NoJob, Waiting
      <4> QED BY <4>2, <4>3 DEF JobSound
    <3>2. CASE r \notin online
      BY <1>2, <3>2, NoJobSound
    <3> QED BY <3>1, <3>2
  <2>4. c.for = u.id => Answers(s, r, c)
    <3>1. SUFFICES ASSUME c.for = u.id PROVE Answers(s, r, c)
      OBVIOUS
    <3>2. r \in online
      BY <2>1, <3>1, <1>2
    <3>3. s.router = r /\ s.stage = "answer" /\ s.got = "waits"
      BY <3>2 DEF NoJob
    <3>4. act # "names"
      BY <1>1 DEF EnqueueSound
    <3> QED BY <2>1, <3>3, <3>4 DEF Answers, Waiting
  <2>5. queue' = [queue EXCEPT ![r] = Append(@, c)]
    BY <1>1, <1>4 DEF EnqueueAndWait, EnqueueCommand
  <2>6. /\ DOMAIN jobs' = Tap /\ jobs'[u.id] = s /\ \A i \in Tap : i # u.id => jobs'[i] = jobs[i]
        /\ loop' = IF r \in online THEN u.id ELSE 0
    <3>1. CASE r \in online
      BY <1>1, <1>2, <1>4, <3>1 DEF EnqueueAndWait, QueueSound, JobsTyped
    <3>2. CASE r \notin online
      BY <1>1, <1>2, <1>4, <3>2 DEF EnqueueAndWait, QueueSound, JobsTyped
    <3> QED BY <3>1, <3>2
  <2>7. r \in online => s.stage = "answer"
    BY DEF NoJob
  <2> HIDE DEF c, s
  <2>8. c.for \in {0, u.id}
    BY <2>1
  <2>9. QueueSound'
    BY <1>2, <2>2, <2>3, <2>4, <2>5, <2>6, <2>8, AskedSound
  <2> QED BY <1>2, <2>3, <2>6, <2>7, <2>9
<1> QED BY <1>3, <1>4

\* Only the loop moves: the updates before `done` are handled, the jobs of the others are to come.
LEMMA HandleSound == MenuSound /\ Handle => MenuSound'
<1> SUFFICES ASSUME MenuSound, Handle PROVE MenuSound'
  OBVIOUS
<1> DEFINE u == inbox[done + 1]
<1>1. /\ inbox \in Seq(UpdateRecord) /\ Len(inbox) \in Nat /\ DOMAIN inbox = 1 .. Len(inbox)
      /\ done \in Nat /\ done + 1 \in DOMAIN inbox /\ done + 1 <= fetched /\ fetched <= Len(inbox)
      /\ fetched \in Nat
  BY LenProperties DEF MenuSound, InboxTyped, Handle
<1>2. /\ u \in UpdateRecord /\ UpdateSound(u) /\ u.id \in Tap /\ u.id <= tapped /\ jobs[u.id] = NoJob
  <2>1. u \in UpdateRecord
    BY <1>1, ElementOfSeq
  <2>2. UpdateSound(u) /\ u.id <= tapped
    BY <1>1 DEF MenuSound, InboxTyped
  <2>3. jobs[u.id] = NoJob
    BY <1>1 DEF MenuSound, FreshTaps
  <2> QED BY <2>1, <2>2, <2>3 DEF UpdateRecord
<1>3. /\ loop = 0 /\ done' = done + 1 /\ inbox' = [inbox EXCEPT ![done + 1].times = @ + 1]
      /\ UNCHANGED <<fetched, tapped, asides, online, has, restarts, offers>>
      /\ (Button(u) /\ UNCHANGED registered) \/ Text(u) \/ DeleteRouter(u)
  BY DEF Handle
<1>4. /\ inbox' \in Seq(UpdateRecord) /\ Len(inbox') = Len(inbox) /\ DOMAIN inbox' = DOMAIN inbox
      /\ \A i \in DOMAIN inbox : inbox'[i].id = inbox[i].id
      /\ \A i \in DOMAIN inbox : UpdateSound(inbox'[i])
  <2> DEFINE v == [u EXCEPT !.times = @ + 1]
  <2>1. /\ v \in UpdateRecord /\ v.id = u.id /\ v.verb = u.verb /\ v.kind = u.kind /\ v.router = u.router
        /\ v.cancel = u.cancel /\ v.own = u.own
    <3>1. ASSUME NEW w \in UpdateRecord
          PROVE  LET x == [w EXCEPT !.times = @ + 1]
                 IN  /\ x \in UpdateRecord /\ x.id = w.id /\ x.verb = w.verb /\ x.kind = w.kind
                     /\ x.router = w.router /\ x.cancel = w.cancel /\ x.own = w.own
      <4>0. w.times \in Nat
        BY DEF UpdateRecord
      <4>1. PICK n \in Nat : n = w.times + 1
        BY <4>0
      <4>2. LET x == [w EXCEPT !.times = n]
            IN  /\ x \in UpdateRecord /\ x.id = w.id /\ x.verb = w.verb /\ x.kind = w.kind
                /\ x.router = w.router /\ x.cancel = w.cancel /\ x.own = w.own
        BY DEF UpdateRecord
      <4> QED BY <4>1, <4>2
    <3> HIDE DEF u
    <3> QED BY <1>2, <3>1
  <2> HIDE DEF v
  <2>2. UpdateSound(v)
    BY <1>2, <2>1 DEF UpdateSound
  <2>3. inbox' = [inbox EXCEPT ![done + 1] = v]
    BY <1>1, <1>3 DEF v
  <2>4. /\ inbox' \in Seq(UpdateRecord) /\ Len(inbox') = Len(inbox) /\ DOMAIN inbox' = DOMAIN inbox
        /\ inbox'[done + 1] = v /\ \A i \in DOMAIN inbox : i # done + 1 => inbox'[i] = inbox[i]
    BY <1>1, <2>1, <2>3, ExceptSeq, LenProperties
  <2> QED BY <2>1, <2>2, <2>4 DEF MenuSound, InboxTyped
<1> DEFINE Kept == \A i \in Tap : i # u.id => jobs'[i] = jobs[i]
           LoopOn == /\ loop' \in {0, u.id}
                     /\ loop' # 0 => jobs'[loop'].stage = "answer"
<1> HIDE DEF u
<1>5. InboxTyped'
  BY <1>1, <1>3, <1>4 DEF MenuSound, InboxTyped
<1>6. ASSUME Kept, LoopOn, QueueSound' PROVE FreshTaps'
  <2>1. \A j \in Tap : j > tapped' => jobs'[j] = NoJob
    <3>1. tapped \in Int /\ Tap \subseteq Int
      BY DEF MenuSound, InboxTyped, Tap
    <3>2. \A j \in Tap : j > tapped => j # u.id
      BY <1>2, <3>1
    <3> QED BY <1>3, <1>6, <3>2 DEF MenuSound, FreshTaps
  <2>2. ASSUME NEW i \in DOMAIN inbox', i > done' PROVE jobs'[inbox'[i].id] = NoJob
    <3>1. i \in DOMAIN inbox /\ inbox'[i].id = inbox[i].id /\ i > done /\ done + 1 < i
      BY <1>1, <1>3, <1>4, <2>2
    <3>2. inbox[i] \in UpdateRecord
      BY <1>1, <3>1, ElementOfSeq
    <3>3. inbox[i].id \in Tap /\ jobs[inbox[i].id] = NoJob
      BY <3>1, <3>2 DEF UpdateRecord, MenuSound, FreshTaps
    <3>4. u.id < inbox[i].id
      BY <1>1, <3>1 DEF MenuSound, InboxTyped, u
    <3>5. u.id # inbox[i].id
      BY <1>2, <3>3, <3>4 DEF Tap
    <3> QED BY <1>6, <3>1, <3>3, <3>5
  <2>3. loop' \in 0 .. MaxTaps
    BY <1>2, <1>6, BoundAssumption DEF Tap
  <2> QED BY <1>6, <2>1, <2>2, <2>3 DEF FreshTaps
<1>7. ASSUME registered' \subseteq Router PROVE WorldTyped'
  BY <1>3, <1>7 DEF MenuSound, WorldTyped, Shaped
<1>8. CASE Button(u) /\ UNCHANGED registered
  <2>1. u.router \in Router \/ u.verb = "slash"
    BY <1>2 DEF UpdateSound
  <2>2. WorldTyped'
    BY <1>7, <1>8 DEF MenuSound, WorldTyped
  <2>3. CASE Spawns(u)
    <3>1. PICK act, arg, seen, task : SpawnSound(u, act, arg, seen, task) /\ Spawn(u, act, arg, seen, task)
      BY <2>3 DEF Spawns
    <3>2. u.router \in Router
      BY <1>8, <2>1 DEF Button, OpenRoutes, OpenPresets, OpenAdaptive, OpenDNSTop, OpenList, Page, Card,
            RouteAction, InstallPreset, AdaptiveAction, ApplyTop, UpdatePresets, Ask, StartListDialog, StartDialog
    <3>3. /\ QueueSound' /\ ScreensTyped' /\ UNCHANGED <<cached, wizard, loop>> /\ Kept
      BY <1>2, <3>1, <3>2, SpawnStep DEF MenuSound, QueueSound
    <3> QED BY <1>3, <1>5, <1>6, <2>2, <3>3 DEF MenuSound, CacheTyped, Shaped, DialogTyped, DialogSound, QueueSound
  <2>4. CASE ShowsSound(u)
    <3>1. PICK s \in ScreenRecord : ScreenSound(s) /\ Show(u.msg, s)
      BY <2>4 DEF ShowsSound
    <3>2. ScreensTyped'
      BY <3>1 DEF Show, MenuSound, ScreensTyped
    <3>3. UNCHANGED <<cached, wizard, jobs, loop, queue>>
      BY <2>4 DEF ShowsSound
    <3>4. QueueSound' /\ Kept
      BY <3>3 DEF MenuSound, QueueSound, JobsTyped, QueueTyped, Linked
    <3> QED BY <1>3, <1>5, <1>6, <2>2, <3>2, <3>3, <3>4
            DEF MenuSound, CacheTyped, Shaped, DialogTyped, DialogSound, QueueSound
  <2>5. CASE TurnsDialog
    <3>1. UNCHANGED <<cached, jobs, loop, queue, screen>> /\ DialogTyped'
      BY <2>5 DEF TurnsDialog
    <3>2. QueueSound' /\ Kept
      BY <3>1 DEF MenuSound, QueueSound, JobsTyped, QueueTyped, Linked
    <3> QED BY <1>3, <1>5, <1>6, <2>2, <3>1, <3>2 DEF MenuSound, CacheTyped, Shaped, ScreensTyped, QueueSound
  <2> QED BY <1>2, <1>8, <2>3, <2>4, <2>5, ButtonEffect DEF MenuSound
<1>9. CASE Text(u)
  <2>1. /\ DialogTyped' /\ registered' \subseteq Router /\ UNCHANGED <<cached, screen>>
        /\ Waited(u) \/ UNCHANGED <<queue, jobs, loop>>
    BY <1>2, <1>9, TextEffect DEF MenuSound
  <2>2. QueueSound' /\ Kept /\ LoopOn
    <3>1. CASE Waited(u)
      BY <1>2, <1>3, <3>1, WaitedStep DEF MenuSound, QueueSound
    <3>2. CASE UNCHANGED <<queue, jobs, loop>>
      BY <1>3, <3>2 DEF MenuSound, QueueSound, JobsTyped, QueueTyped, Linked
    <3> QED BY <2>1, <3>1, <3>2
  <2> QED BY <1>3, <1>5, <1>6, <1>7, <2>1, <2>2 DEF MenuSound, CacheTyped, Shaped, ScreensTyped, QueueSound
<1>10. CASE DeleteRouter(u)
  <2>1. /\ registered' \subseteq Router /\ UNCHANGED <<cached, wizard, jobs, loop>> /\ ScreensTyped'
    BY <1>10, PlainSound DEF DeleteRouter, bot, Show, MenuSound, WorldTyped, ScreensTyped
  <2>2. queue' = [queue EXCEPT ![u.router] = <<>>]
    BY <1>10 DEF DeleteRouter
  <2>3. /\ queue' = [r \in Router |-> queue'[r]]
        /\ \A r \in Router : queue'[r] = queue[r] \/ queue'[r] = <<>>
    BY <2>2 DEF MenuSound, QueueTyped
  <2>4. QueueTyped'
    <3>1. \A r \in Router : <<>> \in Seq(CommandOn(r))
      BY EmptySeq
    <3>2. ASSUME NEW r \in Router
          PROVE  queue'[r] \in Seq(CommandOn(r)) /\ \A i \in DOMAIN queue'[r] : CommandSound(queue'[r][i])
      <4>1. CASE queue'[r] = queue[r]
        BY <4>1 DEF MenuSound, QueueTyped
      <4>2. CASE queue'[r] = <<>>
        BY <3>1, <4>2
      <4> QED BY <2>3, <4>1, <4>2
    <3> QED BY <2>3, <3>2 DEF QueueTyped
  <2>5. Linked'
    BY <2>1, <2>3 DEF MenuSound, Linked
  <2>6. JobsTyped' /\ Kept
    BY <2>1 DEF MenuSound, JobsTyped
  <2> QED BY <1>3, <1>5, <1>6, <1>7, <2>1, <2>4, <2>5, <2>6
          DEF MenuSound, CacheTyped, Shaped, DialogTyped, DialogSound, QueueSound
<1> QED BY <1>3, <1>8, <1>9, <1>10

-----------------------------------------------------------------------------
(* The goroutines *)

LEMMA CommandForgotten ==
    ASSUME NEW r, NEW c \in CommandOn(r), CommandSound(c)
    PROVE  LET d == [c EXCEPT !.for = 0]
           IN  d \in CommandOn(r) /\ CommandSound(d) /\ d.for = 0 /\ d.act = c.act /\ d.kind = c.kind
<1> DEFINE d == [c EXCEPT !.for = 0]
<1>1. d \in CommandOn(r) /\ d.for = 0 /\ d.act = c.act /\ d.kind = c.kind /\ d.arg = c.arg
  BY BoundAssumption DEF CommandOn
<1> HIDE DEF d
<1>2. CommandSound(d)
  BY <1>1 DEF CommandSound
<1> QED BY <1>1, <1>2 DEF d

\* Someone gives up: his command, wherever it is, is nobody's now.
LEMMA ForgetSound ==
    ASSUME QueueSound, NEW j \in Tap, queue' = Forget(queue, j),
           jobs' = [jobs EXCEPT ![j].got = "nothing"]
    PROVE  QueueSound'
<1>1. /\ DOMAIN jobs' = Tap /\ jobs'[j] = [jobs[j] EXCEPT !.got = "nothing"]
      /\ \A i \in Tap : i # j => jobs'[i] = jobs[i]
      /\ jobs[j] \in JobOn(jobs[j].router) /\ JobSound(jobs[j])
  BY DEF QueueSound, JobsTyped
<1>2. jobs'[j] \in JobOn(jobs'[j].router) /\ JobSound(jobs'[j])
  <2>1. /\ jobs'[j] \in JobOn(jobs[j].router) /\ jobs'[j].router = jobs[j].router
        /\ jobs'[j].stage = jobs[j].stage /\ jobs'[j].kind = jobs[j].kind /\ jobs'[j].own = jobs[j].own
    BY <1>1 DEF JobOn
  <2> QED BY <1>1, <2>1 DEF JobSound
<1>3. JobsTyped'
  BY <1>1, <1>2 DEF QueueSound, JobsTyped
<1>4. ASSUME NEW r \in Router
      PROVE  /\ queue[r] \in Seq(CommandOn(r)) /\ queue'[r] \in Seq(CommandOn(r))
             /\ DOMAIN queue'[r] = DOMAIN queue[r]
             /\ \A i \in DOMAIN queue[r] :
                   /\ queue[r][i] \in CommandOn(r) /\ CommandSound(queue[r][i]) /\ CommandSound(queue'[r][i])
                   /\ queue'[r][i].for = IF queue[r][i].for = j THEN 0 ELSE queue[r][i].for
                   /\ queue'[r][i].act = queue[r][i].act /\ queue'[r][i].kind = queue[r][i].kind
  <2>1. queue[r] \in Seq(CommandOn(r)) /\ DOMAIN queue[r] = 1 .. Len(queue[r]) /\ Len(queue[r]) \in Nat
    BY LenProperties DEF QueueSound, QueueTyped
  <2>2. queue'[r] = [i \in DOMAIN queue[r] |->
                        IF queue[r][i].for = j THEN [queue[r][i] EXCEPT !.for = 0] ELSE queue[r][i]]
    BY DEF Forget
  <2>3. \A i \in DOMAIN queue[r] : queue[r][i] \in CommandOn(r) /\ CommandSound(queue[r][i])
    BY <2>1, ElementOfSeq DEF QueueSound, QueueTyped
  <2>4. ASSUME NEW i \in DOMAIN queue[r]
        PROVE  /\ queue'[r][i] \in CommandOn(r) /\ CommandSound(queue'[r][i])
               /\ queue'[r][i].for = IF queue[r][i].for = j THEN 0 ELSE queue[r][i].for
               /\ queue'[r][i].act = queue[r][i].act /\ queue'[r][i].kind = queue[r][i].kind
    <3>1. CASE queue[r][i].for = j
      <4>1. queue'[r][i] = [queue[r][i] EXCEPT !.for = 0]
        BY <2>2, <3>1
      <4> QED BY <2>3, <3>1, <4>1, CommandForgotten
    <3>2. CASE queue[r][i].for # j
      BY <2>2, <2>3, <3>2
    <3> QED BY <3>1, <3>2
  <2>5. DOMAIN queue'[r] = DOMAIN queue[r]
    BY <2>2
  <2>6. queue'[r] \in [1 .. Len(queue[r]) -> CommandOn(r)]
    BY <2>1, <2>2, <2>4
  <2>7. queue'[r] \in Seq(CommandOn(r))
    BY <2>1, <2>6, IsASeq
  <2> QED BY <2>1, <2>3, <2>4, <2>5, <2>7
<1>5. QueueTyped'
  <2>1. queue' = [r \in Router |-> queue'[r]]
    BY DEF Forget
  <2> QED BY <1>4, <2>1 DEF QueueTyped
<1>6. Linked'
  <2>1. ASSUME NEW r \in Router, NEW i \in DOMAIN queue'[r], queue'[r][i].for # 0
        PROVE  /\ Answers(jobs'[queue'[r][i].for], r, queue'[r][i])
               /\ \A k \in DOMAIN queue'[r] : queue'[r][k].for = queue'[r][i].for => k = i
    <3>1. /\ i \in DOMAIN queue[r] /\ queue[r][i].for # j /\ queue'[r][i].for = queue[r][i].for
          /\ queue[r][i].for # 0
          /\ queue'[r][i].act = queue[r][i].act /\ queue'[r][i].kind = queue[r][i].kind
      BY <1>4, <2>1
    <3>2. /\ Answers(jobs[queue[r][i].for], r, queue[r][i])
          /\ \A k \in DOMAIN queue[r] : queue[r][k].for = queue[r][i].for => k = i
      BY <3>1 DEF QueueSound, Linked
    <3>3. queue[r][i].for \in Tap
      <4>1. queue[r][i].for \in 0 .. MaxTaps
        BY <1>4, <3>1 DEF CommandOn
      <4> QED BY <3>1, <4>1, BoundAssumption DEF Tap
    <3>4. Answers(jobs'[queue'[r][i].for], r, queue'[r][i])
      BY <1>1, <3>1, <3>2, <3>3 DEF Answers
    <3>5. ASSUME NEW k \in DOMAIN queue'[r], queue'[r][k].for = queue'[r][i].for PROVE k = i
      <4>1. k \in DOMAIN queue[r] /\ queue[r][k].for = queue[r][i].for
        BY <1>4, <2>1, <3>1, <3>5
      <4> QED BY <3>2, <4>1
    <3> QED BY <3>4, <3>5
  <2> QED BY <2>1 DEF Linked
<1> QED BY <1>3, <1>5, <1>6 DEF QueueSound

\* Who has nothing yet is not disturbed by a goroutine.
LEMMA FreshStays ==
    ASSUME InboxTyped, FreshTaps, NEW j \in Tap, jobs[j].stage # "",
           \A i \in Tap : i # j => Disowned(jobs[i], jobs'[i]),
           \A i \in Tap : i # j => jobs'[i].stage = jobs[i].stage,
           UNCHANGED <<tapped, done>>, DOMAIN inbox' = DOMAIN inbox,
           \A i \in DOMAIN inbox : inbox'[i].id = inbox[i].id,
           loop' \in {0, loop}, loop' = j => jobs'[j].stage = "answer"
    PROVE  FreshTaps'
<1>1. NoJob.stage = "" /\ ~ NoJob.own
  BY DEF NoJob
<1>2. \A i \in Tap : jobs[i] = NoJob => jobs'[i] = NoJob
  BY <1>1 DEF Disowned
<1>3. \A i \in DOMAIN inbox : inbox[i].id \in Tap
  <2>1. ASSUME NEW i \in DOMAIN inbox PROVE inbox[i].id \in Tap
    <3>1. inbox[i] \in UpdateRecord
      BY ElementOfSeq, LenProperties DEF InboxTyped
    <3> QED BY <3>1 DEF UpdateRecord
  <2> QED BY <2>1
<1>4. loop' \in 0 .. MaxTaps /\ (loop' # 0 => loop' \in Tap)
  <2>1. loop \in 0 .. MaxTaps
    BY DEF FreshTaps
  <2> QED BY <2>1, TapBounds
<1> QED BY <1>2, <1>3, <1>4 DEF FreshTaps

LEMMA UpdateDisowned ==
    ASSUME NEW w \in UpdateRecord, UpdateSound(w), NEW x, Disowned(w, x)
    PROVE  x \in UpdateRecord /\ UpdateSound(x) /\ x.id = w.id /\ x.times = w.times
<1>1. CASE x = w
  BY <1>1
<1>2. ASSUME NEW b \in BOOLEAN, w.own, x = [w EXCEPT !.own = b]
      PROVE  x \in UpdateRecord /\ UpdateSound(x) /\ x.id = w.id /\ x.times = w.times
  <2>1. /\ x \in UpdateRecord /\ x.id = w.id /\ x.verb = w.verb /\ x.kind = w.kind
        /\ x.router = w.router /\ x.cancel = w.cancel /\ x.times = w.times
    BY <1>2 DEF UpdateRecord
  <2>2. UpdateSound(x)
    BY <1>2, <2>1 DEF UpdateSound
  <2> QED BY <2>1, <2>2
<1> QED BY <1>1, <1>2 DEF Disowned

LEMMA InboxDisowned ==
    ASSUME InboxTyped, inbox' = [i \in DOMAIN inbox |-> Disown(inbox[i])],
           UNCHANGED tapped, UNCHANGED <<done, fetched>> \/ (done' = 0 /\ fetched' = 0)
    PROVE  /\ InboxTyped' /\ DOMAIN inbox' = DOMAIN inbox /\ Len(inbox') = Len(inbox)
           /\ \A i \in DOMAIN inbox : inbox'[i].id = inbox[i].id /\ inbox'[i].times = inbox[i].times
<1>1. inbox \in Seq(UpdateRecord) /\ DOMAIN inbox = 1 .. Len(inbox) /\ Len(inbox) \in Nat
  BY LenProperties DEF InboxTyped
<1>2. ASSUME NEW i \in DOMAIN inbox
      PROVE  /\ inbox'[i] \in UpdateRecord /\ UpdateSound(inbox'[i])
             /\ inbox'[i].id = inbox[i].id /\ inbox'[i].times = inbox[i].times
  <2>1. inbox[i] \in UpdateRecord /\ UpdateSound(inbox[i])
    BY <1>1, ElementOfSeq DEF InboxTyped
  <2>2. Disowned(inbox[i], inbox'[i])
    BY DisownIs
  <2> QED BY <2>1, <2>2, UpdateDisowned
<1>3. DOMAIN inbox' = 1 .. Len(inbox) /\ inbox' \in [1 .. Len(inbox) -> UpdateRecord]
  BY <1>1, <1>2
<1>4. inbox' \in Seq(UpdateRecord)
  BY <1>1, <1>3, IsASeq
<1>5. Len(inbox') = Len(inbox)
  BY <1>1, <1>3, <1>4, LenProperties
<1> QED BY <1>1, <1>2, <1>3, <1>4, <1>5 DEF InboxTyped

LEMMA ScreensDisowned ==
    ASSUME ScreensTyped, screen' = [m \in Message |-> Disown(screen[m])]
    PROVE  ScreensTyped'
<1>1. ASSUME NEW m \in Message PROVE screen'[m] \in ScreenRecord /\ ScreenSound(screen'[m])
  <2>1. screen[m] \in ScreenRecord /\ ScreenSound(screen[m])
    BY DEF ScreensTyped
  <2>2. Disowned(screen[m], screen'[m])
    BY DisownIs
  <2>3. ASSUME NEW w \in ScreenRecord, ScreenSound(w), w.own, NEW b \in BOOLEAN
        PROVE  LET x == [w EXCEPT !.own = b] IN x \in ScreenRecord /\ ScreenSound(x)
    <3> DEFINE x == [w EXCEPT !.own = b]
    <3>1. x \in ScreenRecord /\ x.kind = w.kind /\ x.router = w.router /\ x.view = w.view
      BY <2>3 DEF ScreenRecord
    <3> HIDE DEF x
    <3>2. ScreenSound(x)
      BY <2>3, <3>1 DEF ScreenSound
    <3> QED BY <3>1, <3>2 DEF x
  <2> QED BY <2>1, <2>2, <2>3 DEF Disowned
<1> QED BY <1>1 DEF ScreensTyped

LEMMA SameWorld ==
    ASSUME WorldTyped, UNCHANGED <<world, asides>>
    PROVE  WorldTyped'
BY DEF WorldTyped, Shaped, world

LEMMA SameInbox ==
    ASSUME InboxTyped, UNCHANGED telegram
    PROVE  /\ InboxTyped' /\ UNCHANGED <<inbox, tapped, done>>
BY DEF InboxTyped, telegram

LEMMA SameCache ==
    ASSUME CacheTyped, UNCHANGED cached
    PROVE  CacheTyped'
BY DEF CacheTyped, Shaped

LEMMA SameDialog ==
    ASSUME DialogTyped, UNCHANGED wizard
    PROVE  DialogTyped'
BY DEF DialogTyped, DialogSound

LEMMA ShownTyped ==
    ASSUME ScreensTyped, NEW m, NEW s \in ScreenRecord, ScreenSound(s), Show(m, s)
    PROVE  ScreensTyped'
BY DEF Show, ScreensTyped

\* A goroutine that leaves the lists alone.
LEMMA QuietSound ==
    ASSUME MenuSound, NEW j \in Tap, jobs[j].stage # "", QueueSound', ScreensTyped', WorldTyped',
           UNCHANGED <<cached, wizard, telegram>>, loop' \in {0, loop},
           \A i \in Tap : i # j => jobs'[i] = jobs[i],
           loop' = j => jobs'[j].stage = "answer"
    PROVE  MenuSound'
<1>1. CacheTyped' /\ DialogTyped' /\ InboxTyped' /\ UNCHANGED <<inbox, tapped, done>>
  BY SameCache, SameDialog, SameInbox DEF MenuSound
<1>2. FreshTaps'
  BY <1>1, FreshStays DEF MenuSound, Disowned
<1> QED BY <1>1, <1>2 DEF MenuSound, QueueSound

LEMMA GoroutineSound ==
    ASSUME MenuSound, NEW j \in Tap, Goroutine(j)
    PROVE  MenuSound'
<1>0. QueueSound /\ ScreensTyped /\ WorldTyped /\ Linked
  BY DEF MenuSound, QueueSound
<1>1. /\ DOMAIN jobs = Tap /\ jobs[j] \in JobOn(jobs[j].router) /\ JobSound(jobs[j])
      /\ jobs[j].kind \in Kind \cup {""}
  BY <1>0 DEF QueueSound, JobsTyped, JobOn
<1>2. loop = j => jobs[j].stage = "answer"
  BY DEF MenuSound, FreshTaps, Tap
<1>3. CASE GivesUp(j)
  <2>1. /\ jobs[j].stage # "" /\ queue' = Forget(queue, j) /\ jobs' = [jobs EXCEPT ![j].got = "nothing"]
        /\ UNCHANGED <<cached, wizard, loop, telegram, world, screen>>
    BY <1>3 DEF GivesUp
  <2>2. asides' \in Nat
    BY <1>0, <1>3 DEF GivesUp, Aside, WorldTyped
  <2>3. WorldTyped' /\ ScreensTyped'
    BY <1>0, <2>1, <2>2 DEF WorldTyped, Shaped, world, ScreensTyped
  <2>4. QueueSound'
    BY <1>0, <2>1, ForgetSound
  <2>5. jobs'[j].stage = jobs[j].stage /\ \A i \in Tap : i # j => jobs'[i] = jobs[i]
    BY <1>1, <2>1 DEF JobOn
  <2> QED BY <1>2, <2>1, <2>3, <2>4, <2>5, QuietSound
<1>4. ASSUME NEW act \in {"names", "read"}, jobs[j].stage = "act", ~ Waits(j), AskAgain(j, act)
      PROVE  MenuSound'
  <2>1. /\ UNCHANGED <<cached, wizard, loop, telegram, world, asides>> /\ Show(jobs[j].msg, Plain)
        /\ jobs[j].kind \in Kind /\ jobs[j].router \in Router /\ Unasked(j)
        /\ loop # j /\ j \in 0 .. MaxTaps
    <3>1. Unasked(j)
      BY <1>0, <1>4, IdleUnasked DEF Waits
    <3>2. jobs[j].kind \in Kind /\ jobs[j].router \in Router
      BY <1>1, <1>4 DEF JobSound
    <3>3. j \in 0 .. MaxTaps
      BY BoundAssumption DEF Tap
    <3> QED BY <1>2, <1>4, <3>1, <3>2, <3>3 DEF AskAgain
  <2>2. WorldTyped' /\ ScreensTyped'
    BY <1>0, <2>1, SameWorld, ShownTyped, PlainSound
  <2>3. QueueSound' /\ \A i \in Tap : i # j => jobs'[i] = jobs[i]
    <3>1. CASE jobs[j].router \notin registered
      <4>1. Drop(j)
        BY <1>4, <3>1 DEF AskAgain
      <4> QED BY <1>0, <1>1, <2>1, <4>1, DropSound DEF Drop
    <3>2. CASE jobs[j].router \in registered
      <4> DEFINE r == jobs[j].router
                 stage == IF act = "names" THEN "list" ELSE "plain"
                 s == [jobs[j] EXCEPT !.stage = stage, !.got = "waits"]
                 c == MenuCommand(j, act, jobs[j].kind, <<>>, <<>>, FALSE)
      <4>1. /\ jobs' = [jobs EXCEPT ![j].stage = stage, ![j].got = "waits"]
            /\ queue' = [queue EXCEPT ![r] = Append(@, c)]
        BY <1>4, <3>2 DEF AskAgain
      <4>2. stage \in {"list", "plain"} /\ (act = "names" => stage = "list")
        OBVIOUS
      <4> HIDE DEF stage
      <4>3. /\ DOMAIN jobs' = Tap /\ jobs'[j] = s /\ \A i \in Tap : i # j => jobs'[i] = jobs[i]
        BY <1>1, <4>1
      <4>4. /\ s \in JobOn(s.router) /\ s.router = r /\ s.stage = stage /\ s.got = "waits"
            /\ s.kind = jobs[j].kind /\ s.own = jobs[j].own
        BY <1>1, <4>2 DEF JobOn, Waiting
      <4>5. ~ jobs[j].own
        BY <1>1, <1>4 DEF JobSound
      <4>6. /\ c.for = j /\ c.act = act /\ c.kind = jobs[j].kind
        BY DEF MenuCommand
      <4>7. c \in CommandOn(r)
        <5>1. jobs[j].kind \in Screens
          BY <2>1, KindAssumption DEF Screens
        <5> QED BY <2>1, <5>1, Unranked DEF CommandOn, MenuCommand, RowVerb
      <4> HIDE DEF s, c
      <4>8. JobSound(s)
        BY <2>1, <4>2, <4>4, <4>5 DEF JobSound
      <4>9. CommandSound(c)
        BY <2>1, <4>6 DEF CommandSound, RowVerb
      <4>10. Answers(s, r, c)
        BY <4>2, <4>4, <4>6 DEF Answers, Waiting
      <4>11. r \in Router /\ Unasked(j) /\ s \in JobOn(s.router) /\ c.for \in {0, j}
        BY <2>1, <4>4, <4>6
      <4>12. queue' = [queue EXCEPT ![r] = Append(@, c)]
        BY <4>1
      <4> HIDE DEF r
      <4>13. QueueSound'
        BY <1>0, <4>3, <4>7, <4>8, <4>9, <4>10, <4>11, <4>12, AskedSound
      <4> QED BY <4>3, <4>13
    <3> QED BY <3>1, <3>2
  <2> QED BY <1>4, <2>1, <2>2, <2>3, QuietSound
<1>5. ASSUME jobs[j].stage # "", jobs[j].stage # "answer", Unasked(j), Drop(j), loop' = loop,
             UNCHANGED <<cached, wizard, telegram, world, asides>>, ScreensTyped'
      PROVE  MenuSound'
  <2>1. QueueSound' /\ \A i \in Tap : i # j => jobs'[i] = jobs[i]
    BY <1>0, <1>1, <1>5, DropSound DEF Drop
  <2> QED BY <1>0, <1>2, <1>5, <2>1, SameWorld, QuietSound
<1>6. ASSUME ~ Waits(j), jobs[j].stage \in {"act", "plain", "list"}, Drop(j), Show(jobs[j].msg, Plain),
             UNCHANGED <<cached, wizard, loop, telegram, world, asides>>
      PROVE  MenuSound'
  <2>1. Unasked(j)
    BY <1>0, <1>6, IdleUnasked DEF Waits
  <2> QED BY <1>0, <1>5, <1>6, <2>1, ShownTyped, PlainSound
<1>7. CASE RouteActed(j) \/ PresetActed(j) \/ DNSActed(j) \/ AdaptiveActed(j)
  BY <1>4, <1>7 DEF RouteActed, PresetActed, DNSActed, AdaptiveActed, Acted
<1>8. CASE AdaptiveRefused(j) \/ Asked(j) \/ NotLoaded(j)
  BY <1>6, <1>8 DEF AdaptiveRefused, Asked, NotLoaded, Acted
<1>9. CASE ReadAdaptive(j)
  <2> DEFINE k == Sibling(jobs[j].kind)
             o == cached[k][jobs[j].router]
             s == [jobs[j] EXCEPT !.stage = "store", !.other = o]
  <2>1. /\ jobs[j].stage = "list" /\ jobs[j].got # "waits" /\ jobs[j].kind \in Adaptive
        /\ jobs' = [jobs EXCEPT ![j].stage = "store", ![j].other = o]
        /\ UNCHANGED <<cached, wizard, loop, telegram, world, queue, screen, asides>>
    BY <1>9 DEF ReadAdaptive, Loads, Answer
  <2>2. k \in Kind /\ jobs[j].router \in Router /\ jobs[j].kind \in Kind /\ ~ jobs[j].own
    <3>1. jobs[j].router \in Router /\ jobs[j].kind \in Kind /\ ~ jobs[j].own
      BY <1>1, <2>1 DEF JobSound
    <3>2. k \in Adaptive
      BY DEF Sibling, Adaptive
    <3> QED BY <2>1, <3>1, <3>2, KindAssumption DEF Adaptive
  <2> HIDE DEF k
  <2>3. o \in RowsOn(jobs[j].router) \cup {Unknown}
    BY <2>2 DEF MenuSound, CacheTyped
  <2> HIDE DEF o
  <2>4. /\ DOMAIN jobs' = Tap /\ jobs'[j] = s /\ \A i \in Tap : i # j => jobs'[i] = jobs[i]
    BY <1>1, <2>1
  <2>5. /\ s \in JobOn(s.router) /\ s.router = jobs[j].router /\ s.stage = "store" /\ s.kind = jobs[j].kind
        /\ s.own = jobs[j].own
    BY <1>1, <2>3 DEF JobOn
  <2> HIDE DEF s
  <2>6. JobSound(s)
    BY <2>1, <2>2, <2>5 DEF JobSound
  <2>7. Unasked(j)
    BY <1>0, <2>1, IdleUnasked
  <2>8. QueueSound'
    BY <1>0, <2>1, <2>4, <2>5, <2>6, <2>7, MovedSound DEF Disowned
  <2>9. WorldTyped' /\ ScreensTyped'
    BY <1>0, <2>1, SameWorld DEF ScreensTyped
  <2> QED BY <1>2, <2>1, <2>4, <2>8, <2>9, QuietSound
<1>10. ASSUME NEW other \in RowsOn(jobs[j].router) \cup {Unknown}, jobs[j].stage # "answer", jobs[j].stage # "",
              Unasked(j), jobs[j].kind \in Kind,
              Store(j, SetMenu(jobs[j].kind, jobs[j].router, jobs[j].items, other))
       PROVE  MenuSound'
  <2> DEFINE s == [jobs[j] EXCEPT !.stage = "edit", !.other = Unknown, !.own = TRUE]
  <2>1. jobs[j].router \in Router /\ jobs[j].items \in RowsOn(jobs[j].router)
    BY <1>1, <1>10 DEF JobSound, JobOn
  <2>2. CacheTyped'
    BY <1>10, <2>1, MenuSet DEF Store, MenuSound
  <2>3. /\ DOMAIN jobs' = Tap /\ jobs'[j] = s
        /\ \A i \in Tap : i # j => jobs'[i] = Disown(jobs[i])
        /\ screen' = [m \in Message |-> Disown(screen[m])]
        /\ inbox' = [i \in DOMAIN inbox |-> Disown(inbox[i])]
        /\ UNCHANGED <<queue, wizard, loop, fetched, done, tapped, asides, world>>
    BY <1>10 DEF Store
  <2>4. \A i \in Tap : i # j => Disowned(jobs[i], jobs'[i])
    BY <2>3, DisownIs
  <2>5. \A i \in Tap : i # j => jobs'[i].stage = jobs[i].stage
    <3>1. ASSUME NEW i \in Tap, NEW t, Disowned(jobs[i], t) PROVE t.stage = jobs[i].stage
      <4>1. jobs[i] \in JobOn(jobs[i].router)
        BY <1>0 DEF QueueSound, JobsTyped
      <4>2. ASSUME NEW b \in BOOLEAN, t = [jobs[i] EXCEPT !.own = b] PROVE t.stage = jobs[i].stage
        BY <4>1, <4>2 DEF JobOn
      <4> QED BY <3>1, <4>2 DEF Disowned
    <3> QED BY <2>4, <3>1
  <2>6. /\ s \in JobOn(s.router) /\ s.router = jobs[j].router /\ s.stage = "edit" /\ s.kind = jobs[j].kind
    BY <1>1 DEF JobOn
  <2> HIDE DEF s
  <2>7. JobSound(s)
    BY <1>10, <2>1, <2>6 DEF JobSound
  <2>8. QueueSound'
    BY <1>0, <1>10, <2>3, <2>4, <2>6, <2>7, MovedSound
  <2>9. ScreensTyped' /\ WorldTyped' /\ DialogTyped'
    BY <1>0, <2>3, ScreensDisowned, SameWorld, SameDialog DEF MenuSound
  <2>10. InboxTyped' /\ DOMAIN inbox' = DOMAIN inbox /\ \A i \in DOMAIN inbox : inbox'[i].id = inbox[i].id
    BY <2>3, InboxDisowned DEF MenuSound
  <2>11. FreshTaps'
    BY <1>2, <1>10, <2>3, <2>4, <2>5, <2>10, FreshStays DEF MenuSound
  <2> QED BY <2>2, <2>8, <2>9, <2>10, <2>11 DEF MenuSound, QueueSound
<1>11. CASE SetOne(j)
  <2>1. jobs[j].stage = "list" /\ jobs[j].got # "waits"
    BY <1>11 DEF SetOne, Loads, Answer
  <2>2. Unasked(j) /\ jobs[j].kind \in Kind
    BY <1>0, <1>1, <2>1, IdleUnasked DEF JobSound
  <2> QED BY <1>10, <1>11, <2>1, <2>2 DEF SetOne
<1>12. CASE StoreAdaptive(j)
  <2>1. jobs[j].stage = "store" /\ jobs[j].stage \notin Waiting
    BY <1>12 DEF StoreAdaptive, Waiting
  <2>2. Unasked(j) /\ jobs[j].kind \in Kind /\ jobs[j].other \in RowsOn(jobs[j].router) \cup {Unknown}
    BY <1>0, <1>1, <2>1, IdleUnasked DEF JobSound, JobOn
  <2> QED BY <1>10, <1>12, <2>1, <2>2 DEF StoreAdaptive
<1>13. CASE Edit(j)
  <2> DEFINE s == [FromCache("list", jobs[j].kind, jobs[j].router, 0, jobs[j].items) EXCEPT !.own = jobs[j].own]
  <2>1. jobs[j].stage = "edit" /\ jobs[j].stage \notin Waiting
    BY <1>13 DEF Edit, Waiting
  <2>2. /\ jobs[j].kind \in Kind /\ jobs[j].router \in Router /\ jobs[j].items \in Seq(Item)
        /\ jobs[j].own \in BOOLEAN /\ jobs[j].kind # ""
    <3>1. jobs[j].kind \in Kind /\ jobs[j].router \in Router
      BY <1>1, <2>1 DEF JobSound
    <3>2. jobs[j].items \in RowsOn(jobs[j].router) /\ jobs[j].own \in BOOLEAN
      BY <1>1 DEF JobOn
    <3> QED BY <3>1, <3>2, Unranked, KindAssumption
  <2>3. s \in ScreenRecord /\ ScreenSound(s)
    BY <2>2 DEF FromCache, ScreenRecord, ScreenSound, Place
  <2>4. Show(jobs[j].msg, s)
    BY <1>13 DEF Edit
  <2>5. ScreensTyped'
    BY <1>0, <2>3, <2>4, ShownTyped
  <2>6. Unasked(j)
    BY <1>0, <2>1, IdleUnasked
  <2> QED BY <1>5, <1>13, <2>1, <2>5, <2>6 DEF Edit
<1> QED BY <1>3, <1>7, <1>8, <1>9, <1>11, <1>12, <1>13 DEF Goroutine

LEMMA LoopSound == MenuSound /\ LoopGoesOn => MenuSound'
<1> SUFFICES ASSUME MenuSound, LoopGoesOn PROVE MenuSound'
  OBVIOUS
<1>1. PICK j \in Tap : j = loop
  BY BoundAssumption DEF LoopGoesOn, MenuSound, FreshTaps, Tap
<1>2. /\ jobs[j].stage = "answer" /\ jobs[j].got # "waits" /\ Drop(j) /\ loop' = 0 /\ j # 0
      /\ UNCHANGED <<cached, wizard, telegram, world, screen, asides>>
  BY <1>1 DEF LoopGoesOn, Waits, MenuSound, FreshTaps
<1>3. Unasked(j)
  BY <1>2, IdleUnasked DEF MenuSound
<1>4. QueueSound' /\ \A i \in Tap : i # j => jobs'[i] = jobs[i]
  BY <1>2, <1>3, DropSound DEF Drop, MenuSound, QueueSound, JobsTyped
<1>5. WorldTyped' /\ ScreensTyped'
  BY <1>2, SameWorld DEF MenuSound, ScreensTyped
<1> QED BY <1>2, <1>4, <1>5, QuietSound

-----------------------------------------------------------------------------
(* Routers, Telegram, the operator *)

\* An answer reaches the one who waits for it.
LEMMA ExecuteSound ==
    ASSUME MenuSound, NEW r \in Router, Execute(r)
    PROVE  MenuSound'
<1> DEFINE c == Head(queue[r])
<1>0. WorldTyped /\ QueueSound /\ Linked /\ QueueTyped /\ JobsTyped
  BY DEF MenuSound, QueueSound
<1>1. /\ queue[r] \in Seq(CommandOn(r)) /\ Len(queue[r]) \in Nat /\ Len(queue[r]) > 0
      /\ DOMAIN queue[r] = 1 .. Len(queue[r]) /\ 1 \in DOMAIN queue[r]
      /\ c = queue[r][1] /\ c \in CommandOn(r) /\ CommandSound(c)
      /\ Tail(queue[r]) \in Seq(CommandOn(r)) /\ Len(Tail(queue[r])) = Len(queue[r]) - 1
      /\ DOMAIN Tail(queue[r]) = 1 .. (Len(queue[r]) - 1)
      /\ \A i \in 1 .. (Len(queue[r]) - 1) : Tail(queue[r])[i] = queue[r][i + 1]
  <2>1. queue[r] \in Seq(CommandOn(r)) /\ queue[r] # <<>>
    BY <1>0 DEF QueueTyped, Execute
  <2>2. /\ Len(queue[r]) \in Nat /\ Len(queue[r]) > 0 /\ DOMAIN queue[r] = 1 .. Len(queue[r])
        /\ c = queue[r][1]
    BY <2>1, LenProperties, EmptySeq
  <2>3. /\ Tail(queue[r]) \in Seq(CommandOn(r)) /\ Len(Tail(queue[r])) = Len(queue[r]) - 1
        /\ \A i \in 1 .. (Len(queue[r]) - 1) : Tail(queue[r])[i] = queue[r][i + 1]
    BY <2>1, HeadTailProperties
  <2>4. DOMAIN Tail(queue[r]) = 1 .. (Len(queue[r]) - 1)
    BY <2>3, LenProperties
  <2>5. c \in CommandOn(r) /\ CommandSound(c)
    BY <1>0, <2>1, <2>2, ElementOfSeq DEF QueueTyped
  <2> QED BY <2>1, <2>2, <2>3, <2>4, <2>5
<1>2. /\ has' \in Effect(c, r)
      /\ jobs' = IF c.for = 0 THEN jobs
                 ELSE [jobs EXCEPT ![c.for].got = Result(c, r),
                                   ![c.for].items = IF c.act = "names" THEN has[c.kind][r] ELSE @]
      /\ queue' = [queue EXCEPT ![r] = Tail(@)]
      /\ UNCHANGED <<cached, wizard, loop, telegram, screen, registered, online, restarts, offers, asides>>
  BY DEF Execute
<1> HIDE DEF c
<1>3. WorldTyped'
  <2>1. Shaped(has) /\ \A k \in Kind, x \in Router : has[k][x] \in RowsOn(x)
    BY <1>0 DEF WorldTyped
  <2>2. ASSUME NEW k, NEW s, k \in Kind => s \in RowsOn(r), has' = [has EXCEPT ![k][r] = s] PROVE WorldTyped'
    <3>1. Shaped(has') /\ \A q \in Kind, x \in Router : has'[q][x] \in RowsOn(x)
      BY <2>1, <2>2 DEF Shaped
    <3> QED BY <1>0, <1>2, <3>1 DEF WorldTyped, Shaped
  <2>3. c.act \in RowVerb \cup {"add"} => c.arg[1] \in {r} \X Name
    <3>1. c.arg \in Seq({r} \X Name)
      BY <1>1 DEF CommandOn, RowsOn
    <3>2. SUFFICES ASSUME c.arg # <<>> PROVE c.arg[1] \in {r} \X Name
      BY <1>1 DEF CommandSound
    <3>3. Len(c.arg) \in Nat /\ Len(c.arg) # 0
      BY <3>1, <3>2, LenProperties, EmptySeq
    <3> QED BY <3>1, <3>3, ElementOfSeq
  <2>4. CASE c.act \in {"remove", "include"}
    <3>1. has' = [has EXCEPT ![c.kind][r] = Without(@, c.arg[1])]
      BY <1>2, <2>4 DEF Effect
    <3>2. c.kind \in Kind => Without(has[c.kind][r], c.arg[1]) \in RowsOn(r)
      BY <2>1, WithoutRows
    <3> QED BY <2>2, <3>1, <3>2
  <2>5. CASE c.act = "add"
    <3>1. has' = [has EXCEPT !["routes"][r] = With(@, c.arg[1])]
      BY <1>2, <2>5 DEF Effect
    <3>2. "routes" \in Kind => With(has["routes"][r], c.arg[1]) \in RowsOn(r)
      BY <2>1, <2>3, <2>5, WithRows
    <3> QED BY <2>2, <3>1, <3>2
  <2>6. CASE c.act = "exclude"
    <3> DEFINE a == Without(has["redirected"][r], c.arg[1])
               b == With(has["excluded"][r], c.arg[1])
    <3>1. has' = [has EXCEPT !["redirected"][r] = a, !["excluded"][r] = b]
      BY <1>2, <2>6 DEF Effect
    <3>2. "redirected" \in Kind => a \in RowsOn(r)
      BY <2>1, WithoutRows
    <3>3. "excluded" \in Kind => b \in RowsOn(r)
      BY <2>1, <2>3, <2>6, WithRows DEF RowVerb
    <3> HIDE DEF a, b
    <3>4. Shaped(has') /\ \A q \in Kind, x \in Router : has'[q][x] \in RowsOn(x)
      BY <2>1, <3>1, <3>2, <3>3 DEF Shaped
    <3> QED BY <1>0, <1>2, <3>4 DEF WorldTyped, Shaped
  <2>7. CASE c.act = "update"
    <3>1. PICK s \in Contents["presets"] : has' = [has EXCEPT !["presets"][r] = On(r, s)]
      BY <1>2, <2>7 DEF Effect
    <3>2. "presets" \in Kind => On(r, s) \in RowsOn(r)
      BY <3>1, OnRows, ContentsAssumption
    <3> QED BY <2>2, <3>1, <3>2
  <2>8. CASE c.act \notin {"remove", "include", "add", "exclude", "update"}
    <3>1. has' = has
      BY <1>2, <2>8 DEF Effect
    <3> QED BY <1>0, <1>2, <3>1 DEF WorldTyped, Shaped
  <2> QED BY <2>4, <2>5, <2>6, <2>7, <2>8
<1>4. /\ queue' = [x \in Router |-> queue'[x]] /\ queue'[r] = Tail(queue[r])
      /\ \A x \in Router : x # r => queue'[x] = queue[x]
  BY <1>0, <1>2 DEF QueueTyped
<1>5. \A x \in Router : \A i \in DOMAIN queue'[x] :
          \E k \in DOMAIN queue[x] : /\ queue'[x][i] = queue[x][k]
                                     /\ IF x = r THEN k = i + 1 ELSE k = i
  <2>1. ASSUME NEW x \in Router, NEW i \in DOMAIN queue'[x]
        PROVE \E k \in DOMAIN queue[x] : queue'[x][i] = queue[x][k] /\ IF x = r THEN k = i + 1 ELSE k = i
    <3>1. CASE x # r
      BY <1>4, <2>1, <3>1
    <3>2. CASE x = r
      <4>1. i \in 1 .. (Len(queue[r]) - 1)
        BY <1>1, <1>4, <2>1, <3>2
      <4>2. i + 1 \in DOMAIN queue[r] /\ queue'[r][i] = queue[r][i + 1]
        BY <1>1, <1>4, <4>1
      <4> QED BY <3>2, <4>2
    <3> QED BY <3>1, <3>2
  <2> QED BY <2>1
<1>6. QueueTyped'
  <2>1. \A x \in Router : queue'[x] \in Seq(CommandOn(x))
    BY <1>0, <1>1, <1>4 DEF QueueTyped
  <2>2. \A x \in Router : \A i \in DOMAIN queue'[x] : CommandSound(queue'[x][i])
    BY <1>0, <1>5 DEF QueueTyped
  <2> QED BY <1>4, <2>1, <2>2 DEF QueueTyped
<1>7. c.for # 0 => /\ c.for \in Tap /\ Answers(jobs[c.for], r, c)
                   /\ \A k \in DOMAIN queue[r] : queue[r][k].for = c.for => k = 1
  <2>1. c.for \in 0 .. MaxTaps
    BY <1>1 DEF CommandOn
  <2> QED BY <1>0, <1>1, <2>1, TapBounds DEF Linked
<1>8. /\ DOMAIN jobs' = Tap
      /\ \A i \in Tap : i # c.for => jobs'[i] = jobs[i]
      /\ c.for # 0 => /\ jobs'[c.for] \in JobOn(jobs'[c.for].router) /\ JobSound(jobs'[c.for])
                      /\ jobs'[c.for].stage = jobs[c.for].stage /\ ~ jobs'[c.for].own
  <2>1. CASE c.for = 0
    BY <1>0, <1>2, <2>1 DEF JobsTyped
  <2>2. CASE c.for # 0
    <3> DEFINE j == c.for
               w == IF c.act = "names" THEN has[c.kind][r] ELSE jobs[j].items
               s == [jobs[j] EXCEPT !.got = Result(c, r), !.items = w]
    <3>1. j \in Tap /\ Answers(jobs[j], r, c) /\ jobs[j] \in JobOn(jobs[j].router) /\ JobSound(jobs[j])
      BY <1>0, <1>7, <2>2 DEF JobsTyped
    <3>2. DOMAIN jobs' = Tap /\ jobs'[j] = s /\ \A i \in Tap : i # j => jobs'[i] = jobs[i]
      BY <1>0, <1>2, <2>2, <3>1 DEF JobsTyped
    <3>3. jobs[j].router = r /\ jobs[j].stage \in Waiting /\ jobs[j].stage # "edit"
      BY <3>1 DEF Answers, Waiting
    <3>4. w \in RowsOn(r)
      <4>1. c.act = "names" => c.kind \in Kind
        BY <1>1 DEF CommandSound
      <4>2. jobs[j].items \in RowsOn(r)
        BY <3>1, <3>3 DEF JobOn
      <4> QED BY <1>0, <4>1, <4>2 DEF WorldTyped
    <3>5. Result(c, r) \in {"failed", "ok"}
      BY DEF Result
    <3> HIDE DEF w, j
    <3>6. /\ s \in JobOn(jobs[j].router) /\ s.router = jobs[j].router /\ s.stage = jobs[j].stage
          /\ s.kind = jobs[j].kind /\ s.own = jobs[j].own
      <4>1. PICK g \in {"failed", "ok"} : g = Result(c, r)
        BY <3>5
      <4>2. s = [jobs[j] EXCEPT !.got = g, !.items = w]
        BY <4>1
      <4> QED BY <3>1, <3>3, <3>4, <4>2 DEF JobOn
    <3> HIDE DEF s
    <3>7. JobSound(s) /\ ~ s.own
      BY <3>1, <3>3, <3>6 DEF JobSound
    <3> QED BY <3>2, <3>6, <3>7 DEF j
  <2> QED BY <2>1, <2>2
<1>9. JobsTyped'
  <2>1. ASSUME NEW i \in Tap PROVE jobs'[i] \in JobOn(jobs'[i].router) /\ JobSound(jobs'[i])
    <3>1. CASE i # c.for
      BY <1>0, <1>8, <3>1 DEF JobsTyped
    <3>2. CASE i = c.for
      BY <1>8, <3>2, TapBounds
    <3> QED BY <3>1, <3>2
  <2> QED BY <1>8, <2>1 DEF JobsTyped
<1>10. Linked'
  <2>1. ASSUME NEW x \in Router, NEW i \in DOMAIN queue'[x], queue'[x][i].for # 0
        PROVE  /\ Answers(jobs'[queue'[x][i].for], x, queue'[x][i])
               /\ \A l \in DOMAIN queue'[x] : queue'[x][l].for = queue'[x][i].for => l = i
    <3>1. PICK k \in DOMAIN queue[x] : queue'[x][i] = queue[x][k] /\ IF x = r THEN k = i + 1 ELSE k = i
      BY <1>5
    <3>2. /\ Answers(jobs[queue[x][k].for], x, queue[x][k])
          /\ \A l \in DOMAIN queue[x] : queue[x][l].for = queue[x][k].for => l = k
      BY <1>0, <2>1, <3>1 DEF Linked
    <3>3. queue[x][k].for \in Tap
      <4>1. queue[x] \in Seq(CommandOn(x)) /\ DOMAIN queue[x] = 1 .. Len(queue[x])
        BY <1>0, LenProperties DEF QueueTyped
      <4>2. queue[x][k] \in CommandOn(x)
        BY <4>1, ElementOfSeq
      <4>3. queue[x][k].for \in 0 .. MaxTaps
        BY <4>2 DEF CommandOn
      <4> QED BY <2>1, <3>1, <4>3, TapBounds
    <3>4. queue[x][k].for # c.for
      <4>1. CASE x = r
        <5>1. k # 1
          BY <1>1, <1>4, <2>1, <3>1, <4>1
        <5> QED BY <1>7, <2>1, <3>1, <4>1, <5>1
      <4>2. CASE x # r
        BY <1>7, <2>1, <3>1, <3>2, <4>2 DEF Answers
      <4> QED BY <4>1, <4>2
    <3>5. ASSUME NEW l \in DOMAIN queue'[x], queue'[x][l].for = queue'[x][i].for PROVE l = i
      <4>1. PICK n \in DOMAIN queue[x] : queue'[x][l] = queue[x][n] /\ IF x = r THEN n = l + 1 ELSE n = l
        BY <1>5
      <4>2. n = k
        BY <3>1, <3>2, <3>5, <4>1
      <4>3. CASE x # r
        BY <3>1, <4>1, <4>2, <4>3
      <4>4. CASE x = r
        <5>1. l \in Int /\ i \in Int
          BY <1>1, <1>4, <4>4
        <5> QED BY <3>1, <4>1, <4>2, <4>4, <5>1
      <4> QED BY <4>3, <4>4
    <3> QED BY <1>8, <3>1, <3>2, <3>3, <3>4, <3>5
  <2> QED BY <2>1 DEF Linked
<1>11. ScreensTyped' /\ CacheTyped' /\ DialogTyped' /\ InboxTyped' /\ UNCHANGED <<inbox, tapped, done>>
  BY <1>2, SameCache, SameDialog, SameInbox DEF MenuSound, ScreensTyped
<1>12. FreshTaps'
  <2>1. CASE c.for = 0
    <3>1. UNCHANGED jobs
      BY <1>2, <2>1
    <3> QED BY <1>2, <1>11, <3>1 DEF MenuSound, FreshTaps
  <2>2. CASE c.for # 0
    <3>1. c.for \in Tap /\ jobs[c.for].stage # ""
      BY <1>7, <2>2 DEF Answers, Waiting
    <3>2. loop = c.for => jobs'[c.for].stage = "answer"
      BY <1>8, <2>2 DEF MenuSound, FreshTaps
    <3> QED BY <1>2, <1>8, <1>11, <2>2, <3>1, <3>2, FreshStays DEF MenuSound, Disowned
  <2> QED BY <2>1, <2>2
<1> QED BY <1>3, <1>6, <1>9, <1>10, <1>11, <1>12 DEF MenuSound

LEMMA QuietWorld ==
    ASSUME MenuSound, WorldTyped', UNCHANGED <<bot, telegram, queue, screen>>
    PROVE  MenuSound'
<1>1. CacheTyped' /\ DialogTyped' /\ InboxTyped' /\ UNCHANGED <<inbox, tapped, done, jobs, loop>>
  BY SameCache, SameDialog, SameInbox DEF MenuSound, bot
<1> QED BY <1>1 DEF MenuSound, ScreensTyped, JobsTyped, QueueTyped, Linked, FreshTaps

LEMMA RoutersSound ==
    ASSUME MenuSound, NEW r \in Router, Execute(r) \/ GoesOffline(r) \/ ComesBack(r)
    PROVE  MenuSound'
<1>1. CASE Execute(r)
  BY <1>1, ExecuteSound
<1>2. CASE GoesOffline(r) \/ ComesBack(r)
  <2>1. WorldTyped'
    BY <1>2 DEF GoesOffline, ComesBack, Aside, MenuSound, WorldTyped, Shaped
  <2> QED BY <1>2, <2>1, QuietWorld DEF GoesOffline, ComesBack
<1> QED BY <1>1, <1>2

LEMMA DriftSound ==
    ASSUME MenuSound, NEW o \in offers, Drift(o[1], o[2])
    PROVE  MenuSound'
<1>1. o[1] \in Kind /\ o[2] \in Router /\ WorldTyped
  BY DEF MenuSound, WorldTyped
<1>2. PICK s \in Contents[o[1]] : has' = [has EXCEPT ![o[1]][o[2]] = On(o[2], s)]
  BY DEF Drift
<1>3. On(o[2], s) \in RowsOn(o[2])
  BY <1>1, OnRows, ContentsAssumption
<1>4. Shaped(has') /\ \A q \in Kind, x \in Router : has'[q][x] \in RowsOn(x)
  BY <1>1, <1>2, <1>3 DEF Shaped, WorldTyped
<1>5. UNCHANGED <<registered, online, offers, restarts>> /\ asides' \in Nat
  BY <1>1 DEF Drift, Aside, WorldTyped
<1>6. WorldTyped'
  BY <1>1, <1>4, <1>5 DEF WorldTyped
<1> QED BY <1>6, QuietWorld DEF Drift

\* What getUpdates leaves: the updates not handled yet.
LEMMA Confirmed ==
    ASSUME InboxTyped, inbox' = SubSeq(inbox, done + 1, Len(inbox))
    PROVE  /\ inbox' \in Seq(UpdateRecord) /\ Len(inbox') = Len(inbox) - done
           /\ DOMAIN inbox' = 1 .. (Len(inbox) - done)
           /\ \A i \in 1 .. (Len(inbox) - done) : inbox'[i] = inbox[done + i] /\ done + i \in DOMAIN inbox
<1>1. /\ inbox \in Seq(UpdateRecord) /\ Len(inbox) \in Nat /\ done \in Nat /\ done <= Len(inbox)
      /\ DOMAIN inbox = 1 .. Len(inbox)
  BY LenProperties DEF InboxTyped
<1>2. /\ inbox' \in Seq(UpdateRecord) /\ Len(inbox') = Len(inbox) - done
      /\ \A i \in 1 .. (Len(inbox) - done) : inbox'[i] = inbox[done + i]
  <2> DEFINE n == Len(inbox)
  <2>1. done + 1 \in 1 .. (n + 1) /\ n \in (done + 1) - 1 .. n /\ n \in Nat /\ done \in Nat
    BY <1>1
  <2>2. inbox \in Seq(UpdateRecord) /\ inbox' = SubSeq(inbox, done + 1, n) /\ Len(inbox) = n
    BY <1>1
  <2> HIDE DEF n
  <2>3. /\ inbox' \in Seq(UpdateRecord) /\ Len(inbox') = n - (done + 1) + 1
        /\ \A i \in 1 .. (n - (done + 1) + 1) : inbox'[i] = inbox[done + 1 + i - 1]
    BY <2>1, <2>2, SubSeqProperties
  <2>4. n - (done + 1) + 1 = n - done /\ \A i \in Nat : done + 1 + i - 1 = done + i
    BY <2>1
  <2> QED BY <2>1, <2>2, <2>3, <2>4
<1>3. DOMAIN inbox' = 1 .. (Len(inbox) - done)
  BY <1>2, LenProperties
<1>4. \A i \in 1 .. (Len(inbox) - done) : done + i \in DOMAIN inbox
  BY <1>1
<1> QED BY <1>2, <1>3, <1>4

LEMMA GetUpdatesSound == MenuSound /\ (GetUpdates \/ GetUpdatesFails) => MenuSound'
<1> SUFFICES ASSUME MenuSound, GetUpdates \/ GetUpdatesFails PROVE MenuSound'
  OBVIOUS
<1>1. /\ inbox' = SubSeq(inbox, done + 1, Len(inbox)) /\ done' = 0 /\ fetched' \in {0, Len(inbox')}
      /\ UNCHANGED <<bot, world, queue, screen, tapped>> /\ (asides' = asides \/ Aside)
  BY DEF GetUpdates, GetUpdatesFails
<1>2. /\ inbox \in Seq(UpdateRecord) /\ Len(inbox) \in Nat /\ done \in Nat /\ done <= Len(inbox)
      /\ DOMAIN inbox = 1 .. Len(inbox)
  BY LenProperties DEF MenuSound, InboxTyped
<1>3. /\ inbox' \in Seq(UpdateRecord) /\ Len(inbox') = Len(inbox) - done /\ DOMAIN inbox' = 1 .. (Len(inbox) - done)
      /\ \A i \in 1 .. (Len(inbox) - done) : inbox'[i] = inbox[done + i] /\ done + i \in DOMAIN inbox
  BY <1>1, Confirmed DEF MenuSound
<1>4. InboxTyped'
  <2>1. \A i \in DOMAIN inbox' : UpdateSound(inbox'[i]) /\ inbox'[i].id <= tapped'
    BY <1>1, <1>3 DEF MenuSound, InboxTyped
  <2>2. ASSUME NEW i \in DOMAIN inbox', NEW k \in DOMAIN inbox', i < k PROVE inbox'[i].id < inbox'[k].id
    <3>1. /\ done + i \in DOMAIN inbox /\ done + k \in DOMAIN inbox /\ done + i < done + k
          /\ inbox'[i] = inbox[done + i] /\ inbox'[k] = inbox[done + k]
      BY <1>2, <1>3, <2>2
    <3> QED BY <3>1 DEF MenuSound, InboxTyped
  <2>3. done' \in Nat /\ fetched' \in Nat /\ done' <= fetched' /\ fetched' <= Len(inbox')
    <3>1. Len(inbox') \in Nat
      BY <1>2, <1>3
    <3>2. done' = 0 /\ fetched' \in {0, Len(inbox')}
      BY <1>1
    <3> QED BY <3>1, <3>2
  <2>4. tapped' \in 0 .. MaxTaps
    BY <1>1 DEF MenuSound, InboxTyped
  <2> QED BY <1>3, <2>1, <2>2, <2>3, <2>4 DEF InboxTyped
<1>5. UNCHANGED <<cached, wizard, jobs, loop, queue, screen, tapped>>
  BY <1>1 DEF bot
<1>6. FreshTaps'
  <2>1. ASSUME NEW i \in DOMAIN inbox' PROVE jobs[inbox'[i].id] = NoJob
    <3>1. done + i \in DOMAIN inbox /\ done + i > done /\ inbox'[i] = inbox[done + i]
      BY <1>2, <1>3
    <3> QED BY <3>1 DEF MenuSound, FreshTaps
  <2> QED BY <1>5, <2>1 DEF MenuSound, FreshTaps
<1>7. WorldTyped'
  <2>1. asides' \in Nat
    BY <1>1 DEF Aside, MenuSound, WorldTyped
  <2> QED BY <1>1, <2>1 DEF MenuSound, WorldTyped, world, Shaped
<1> QED BY <1>4, <1>5, <1>6, <1>7
        DEF MenuSound, CacheTyped, Shaped, DialogTyped, DialogSound, ScreensTyped, JobsTyped, QueueTyped, Linked

LEMMA NothingCachedTyped == cached' = NothingCached => CacheTyped'
BY DEF NothingCached, CacheTyped, Shaped

LEMMA RestartSound == MenuSound /\ Restart => MenuSound'
<1> SUFFICES ASSUME MenuSound, Restart PROVE MenuSound'
  OBVIOUS
<1>1. /\ Aside /\ restarts' = restarts + 1 /\ cached' = NothingCached /\ wizard' = NoDialog
      /\ jobs' = [j \in Tap |-> NoJob] /\ loop' = 0
      /\ queue' = [r \in Router |-> [i \in DOMAIN queue[r] |-> [queue[r][i] EXCEPT !.for = 0]]]
      /\ screen' = [m \in Message |-> Disown(screen[m])]
      /\ inbox' = [i \in DOMAIN inbox |-> Disown(inbox[i])]
      /\ fetched' = 0 /\ done' = 0
      /\ UNCHANGED <<registered, online, has, offers, tapped>>
  BY DEF Restart
<1>2. WorldTyped'
  BY <1>1 DEF Aside, MenuSound, WorldTyped, Shaped
<1>3. CacheTyped' /\ DialogTyped' /\ ScreensTyped'
  BY <1>1, NothingCachedTyped, NoDialogSound, ScreensDisowned DEF MenuSound
<1>4. InboxTyped' /\ DOMAIN inbox' = DOMAIN inbox /\ \A i \in DOMAIN inbox : inbox'[i].id = inbox[i].id
  BY <1>1, InboxDisowned DEF MenuSound
<1>5. \A i \in DOMAIN inbox : inbox[i].id \in Tap
  <2>1. ASSUME NEW i \in DOMAIN inbox PROVE inbox[i].id \in Tap
    <3>1. inbox[i] \in UpdateRecord
      BY ElementOfSeq, LenProperties DEF MenuSound, InboxTyped
    <3> QED BY <3>1 DEF UpdateRecord
  <2> QED BY <2>1
<1>6. FreshTaps'
  BY <1>1, <1>4, <1>5, TapBounds DEF FreshTaps
<1>7. JobsTyped'
  BY <1>1, NoJobSound DEF JobsTyped
<1>8. ASSUME NEW r \in Router
      PROVE  /\ queue'[r] \in Seq(CommandOn(r)) /\ DOMAIN queue'[r] = DOMAIN queue[r]
             /\ \A i \in DOMAIN queue[r] : CommandSound(queue'[r][i]) /\ queue'[r][i].for = 0
  <2>1. queue[r] \in Seq(CommandOn(r)) /\ DOMAIN queue[r] = 1 .. Len(queue[r]) /\ Len(queue[r]) \in Nat
    BY LenProperties DEF MenuSound, QueueTyped
  <2>2. queue'[r] = [i \in DOMAIN queue[r] |-> [queue[r][i] EXCEPT !.for = 0]]
    BY <1>1
  <2>3. \A i \in DOMAIN queue[r] : queue[r][i] \in CommandOn(r) /\ CommandSound(queue[r][i])
    BY <2>1, ElementOfSeq DEF MenuSound, QueueTyped
  <2>4. \A i \in DOMAIN queue[r] : queue'[r][i] \in CommandOn(r) /\ CommandSound(queue'[r][i]) /\ queue'[r][i].for = 0
    BY <2>2, <2>3, CommandForgotten
  <2>5. queue'[r] \in [1 .. Len(queue[r]) -> CommandOn(r)]
    BY <2>1, <2>2, <2>4
  <2> QED BY <2>1, <2>4, <2>5, IsASeq
<1>9. QueueTyped'
  BY <1>1, <1>8 DEF QueueTyped
<1>10. Linked'
  BY <1>8 DEF Linked
<1> QED BY <1>2, <1>3, <1>4, <1>6, <1>7, <1>9, <1>10 DEF MenuSound

\* The buttons are those of a screen, or they name what they want.
LEMMA ButtonsSound ==
    ASSUME MenuSound, tapped < MaxTaps, NEW m \in Message,
           NEW u \in Buttons(m) \cup Opens(m) \cup Asides(m) \cup Texts(m)
    PROVE  u \in UpdateRecord /\ UpdateSound(u) /\ u.id = tapped + 1
<1>1. /\ tapped \in Nat /\ tapped + 1 \in Tap /\ <<>> \in Seq(Item)
      /\ screen[m] \in ScreenRecord /\ ScreenSound(screen[m])
      /\ offers \subseteq Kind \X Router
  BY EmptySeq, BoundAssumption DEF MenuSound, InboxTyped, ScreensTyped, WorldTyped, Tap
<1> DEFINE Fine(x) == x \in UpdateRecord /\ UpdateSound(x) /\ x.id = tapped + 1
<1>3. ASSUME NEW verb \in CacheVerb, NEW i \in Nat, NEW seen \in Seq(Item), screen[m].kind \in Kind,
             verb = "apply" => screen[m].kind = "dns",
             verb \in {"card", "confirm"} => screen[m].kind \notin {"excluded", "dns"}
      PROVE  Fine(Under(m, verb, i, seen))
  <2>1. /\ screen[m].kind # "" /\ screen[m].router \in Router /\ screen[m].own \in BOOLEAN
        /\ screen[m].router \in Place /\ verb \in ListVerb
    BY <1>1, <1>3, KindAssumption DEF ScreenSound, ScreenRecord, Place, ListVerb
  <2> DEFINE x == Under(m, verb, i, seen)
  <2>2. /\ x \in UpdateRecord /\ x.id = tapped + 1 /\ x.verb = verb /\ x.kind = screen[m].kind
        /\ x.router = screen[m].router
    BY <1>1, <1>3, <2>1 DEF Under, Update, UpdateRecord
  <2> HIDE DEF x
  <2>3. UpdateSound(x)
    BY <1>3, <2>1, <2>2 DEF UpdateSound
  <2> QED BY <2>2, <2>3 DEF x
<1>4. screen[m].items \in Seq(Item) /\ screen[m].idx \in Nat /\ screen[m].kind \in Kind \cup {""}
  BY <1>1 DEF ScreenRecord
<1>5. ASSUME NEW verb \in CacheVerb, NEW x \in RowsOf(m, verb), screen[m].kind \in Kind, verb # "apply",
             verb \in {"card", "confirm"} => screen[m].kind \notin {"excluded", "dns"}
      PROVE  Fine(x)
  <2>1. PICK i \in DOMAIN screen[m].items : x = Under(m, verb, i, <<screen[m].items[i]>>)
    BY <1>5 DEF RowsOf
  <2>2. i \in Nat /\ screen[m].items[i] \in Item
    <3> DEFINE s == screen[m].items
    <3>1. s \in Seq(Item) /\ i \in DOMAIN s
      BY <1>4
    <3> HIDE DEF s
    <3>2. DOMAIN s = 1 .. Len(s) /\ Len(s) \in Nat
      BY <3>1, LenProperties
    <3>3. i \in Nat /\ s[i] \in Item
      BY <3>1, <3>2, ElementOfSeq
    <3> QED BY <3>3 DEF s
  <2>3. <<screen[m].items[i]>> \in Seq(Item)
    BY <2>2
  <2> QED BY <1>3, <1>5, <2>1, <2>2, <2>3
<1>6. ASSUME NEW verb \in CacheVerb, screen[m].kind \in Kind, verb = "apply" => screen[m].kind = "dns",
             verb \in {"card", "confirm"} => screen[m].kind \notin {"excluded", "dns"}
      PROVE  Fine(This(m, verb))
  BY <1>3, <1>4, <1>6 DEF This
<1>7. CASE u \in Buttons(m)
  <2>1. CASE screen[m].kind = "routes"
    <3>0. screen[m].kind \in Kind /\ u \in RouteButtons(m)
      <4>1. screen[m].kind \in Kind
        BY <1>4, <2>1
      <4>2. Buttons(m) = RouteButtons(m)
        BY <2>1 DEF Buttons, Adaptive
      <4> QED BY <1>7, <4>1, <4>2
    <3>1. CASE u \in RowsOf(m, "card")
      BY <1>5, <2>1, <3>0, <3>1 DEF CacheVerb
    <3>2. ASSUME NEW verb \in {"confirm", "change", "iface", "entries", "remove"}, u = This(m, verb) PROVE Fine(u)
      BY <1>6, <2>1, <3>0, <3>2 DEF CacheVerb, RowVerb
    <3>3. CASE u = [This(m, "entries") EXCEPT !.del = TRUE]
      <4>1. Fine(This(m, "entries"))
        BY <1>6, <2>1, <3>0 DEF CacheVerb
      <4> DEFINE t == This(m, "entries")
      <4> HIDE DEF t
      <4>2. /\ u \in UpdateRecord /\ u.id = t.id /\ u.verb = t.verb /\ u.kind = t.kind /\ u.router = t.router
            /\ u.cancel = t.cancel /\ u.own = t.own
        BY <3>3, <4>1 DEF UpdateRecord, t
      <4>3. UpdateSound(u)
        BY <4>1, <4>2 DEF UpdateSound, t
      <4> QED BY <4>1, <4>2, <4>3 DEF t
    <3> QED BY <3>0, <3>1, <3>2, <3>3 DEF RouteButtons
  <2>2. CASE screen[m].kind = "presets"
    <3>0. screen[m].kind \in Kind /\ u \in PresetButtons(m)
      <4>1. screen[m].kind \in Kind
        BY <1>4, <2>2
      <4>2. Buttons(m) = PresetButtons(m)
        BY <2>2 DEF Buttons, Adaptive
      <4> QED BY <1>7, <4>1, <4>2
    <3>1. CASE u \in RowsOf(m, "card")
      BY <1>5, <2>2, <3>0, <3>1 DEF CacheVerb
    <3>2. CASE u = Under(m, "page", 0, <<>>)
      BY <1>1, <1>3, <2>2, <3>0, <3>2 DEF CacheVerb
    <3>3. CASE u = This(m, "install")
      BY <1>6, <2>2, <3>0, <3>3 DEF CacheVerb, RowVerb
    <3> QED BY <3>0, <3>1, <3>2, <3>3 DEF PresetButtons
  <2>3. CASE screen[m].kind \in Adaptive
    <3>0. screen[m].kind \in Kind /\ u \in AdaptiveButtons(m)
      BY <1>4, <1>7, <2>3 DEF Buttons, Adaptive
    <3>1. CASE screen[m].kind = "excluded"
      <4>0. AdaptiveButtons(m) = RowsOf(m, "include")
        BY <3>1 DEF AdaptiveButtons
      <4>1. u \in RowsOf(m, "include")
        BY <3>0, <4>0
      <4> QED BY <1>5, <3>0, <4>1 DEF CacheVerb, RowVerb
    <3>2. CASE screen[m].kind = "redirected"
      <4>1. CASE u \in RowsOf(m, "card")
        BY <1>5, <3>0, <3>2, <4>1 DEF CacheVerb
      <4>2. CASE u = Under(m, "page", 0, <<>>)
        BY <1>1, <1>3, <3>0, <3>2, <4>2 DEF CacheVerb
      <4>3. CASE u = This(m, "exclude")
        BY <1>6, <3>0, <3>2, <4>3 DEF CacheVerb, RowVerb
      <4> QED BY <3>0, <3>2, <4>1, <4>2, <4>3 DEF AdaptiveButtons
    <3> QED BY <2>3, <3>1, <3>2 DEF Adaptive
  <2>4. CASE screen[m].kind = "dns"
    <3>1. screen[m].kind \in Kind /\ u = This(m, "apply")
      BY <1>4, <1>7, <2>4 DEF Buttons, DNSButtons, Adaptive
    <3> QED BY <1>6, <2>4, <3>1 DEF CacheVerb
  <2> QED BY <1>7, <2>1, <2>2, <2>3, <2>4 DEF Buttons
<1>8. ASSUME NEW verb \in ListVerb \cup OtherVerb, NEW k \in Kind \cup {""}, NEW r \in Router,
             verb \in ListVerb => k \in Kind /\ verb \notin {"apply", "card", "confirm"},
             u = Update(verb, m, k, r, 0, <<>>)
      PROVE  Fine(u)
  <2>1. /\ u \in UpdateRecord /\ u.id = tapped + 1 /\ u.verb = verb /\ u.kind = k /\ u.router = r
        /\ u.own = FALSE /\ u.cancel = FALSE
    <3>1. r \in Place
      BY DEF Place
    <3> QED BY <1>1, <1>8, <3>1 DEF Update, UpdateRecord
  <2>2. UpdateSound(u)
    BY <1>8, <2>1 DEF UpdateSound, ListVerb, OtherVerb, CacheVerb, RowVerb
  <2> QED BY <2>1, <2>2
<1>9. CASE u \in Opens(m)
  <2>1. PICK o \in offers : u = Update("open", m, o[1], o[2], 0, <<>>)
    BY <1>9 DEF Opens
  <2>2. o[1] \in Kind /\ o[2] \in Router
    BY <1>1
  <2> QED BY <1>8, <2>1, <2>2 DEF ListVerb
<1>10. Elsewhere \subseteq Router
  BY <1>1 DEF Elsewhere
<1>11. CASE u \in Asides(m)
  <2>1. CASE u \in AboutRouters(m)
    <3>1. PICK verb \in {"ask", "delete", "name", "source", "id", "slash"}, r \in Elsewhere :
             u = Update(verb, m, NoKind, r, 0, <<>>)
      BY <2>1 DEF AboutRouters
    <3>2. verb \in OtherVerb /\ verb \notin ListVerb
      BY DEF OtherVerb, ListVerb, CacheVerb, RowVerb
    <3>3. NoKind \in Kind \cup {""}
      BY DEF NoKind
    <3>4. verb \in ListVerb \cup OtherVerb /\ r \in Router
      BY <1>10, <3>2
    <3> QED BY <1>8, <3>1, <3>2, <3>3, <3>4
  <2>2. CASE u \in PresetUpdates(m)
    <3>1. PICK o \in offers : u = Update("update", m, o[1], o[2], 0, <<>>)
      BY <2>2 DEF PresetUpdates
    <3>2. o[1] \in Kind /\ o[2] \in Router
      BY <1>1
    <3> QED BY <1>8, <3>1, <3>2 DEF ListVerb
  <2>3. CASE u \in Cancels(m)
    <3> DEFINE t == Update("slash", m, NoKind, "", 0, <<>>)
    <3>0. "slash" \in ListVerb \cup OtherVerb /\ NoKind \in Kind \cup {""} /\ "" \in Place
      BY DEF OtherVerb, NoKind, Place
    <3>1. /\ t \in UpdateRecord /\ t.id = tapped + 1 /\ t.verb = "slash" /\ t.own = FALSE
      BY <1>1, <3>0 DEF Update, UpdateRecord
    <3> HIDE DEF t
    <3>2. /\ u \in UpdateRecord /\ u.id = tapped + 1 /\ u.verb = "slash" /\ u.cancel = TRUE /\ u.own = FALSE
      BY <2>3, <3>1 DEF UpdateRecord, t, Cancels
    <3>3. UpdateSound(u)
      BY <3>2 DEF UpdateSound, ListVerb, CacheVerb, RowVerb
    <3> QED BY <3>2, <3>3
  <2> QED BY <1>11, <2>1, <2>2, <2>3 DEF Asides
<1>12. CASE u \in Texts(m)
  <2>1. PICK verb \in {"text", "file"}, b \in BOOLEAN, r \in Elsewhere :
           u = [Update(verb, m, NoKind, r, 0, <<>>) EXCEPT !.valid = b]
    BY <1>12 DEF Texts
  <2> DEFINE t == Update(verb, m, NoKind, r, 0, <<>>)
  <2>2. /\ t \in UpdateRecord /\ t.id = tapped + 1 /\ t.verb = verb /\ t.router = r /\ t.own = FALSE /\ r \in Router
    <3>1. /\ verb \in ListVerb \cup OtherVerb /\ NoKind \in Kind \cup {""} /\ r \in Router /\ r \in Place
      BY <1>10 DEF OtherVerb, NoKind, Place
    <3> QED BY <1>1, <3>1 DEF Update, UpdateRecord
  <2> HIDE DEF t
  <2>3. /\ u \in UpdateRecord /\ u.id = tapped + 1 /\ u.verb = verb /\ u.router = r /\ u.own = FALSE
    BY <2>1, <2>2 DEF UpdateRecord, t
  <2>4. UpdateSound(u)
    BY <2>2, <2>3 DEF UpdateSound, ListVerb, CacheVerb, RowVerb
  <2> QED BY <2>3, <2>4
<1> QED BY <1>7, <1>9, <1>11, <1>12

LEMMA SendSound ==
    ASSUME MenuSound, NEW m \in Message, NEW u \in Buttons(m) \cup Opens(m) \cup Asides(m) \cup Texts(m),
           SendUpdate(u), UNCHANGED asides \/ Aside
    PROVE  MenuSound'
<1>1. /\ tapped < MaxTaps /\ tapped' = tapped + 1 /\ inbox' = Append(inbox, u)
      /\ UNCHANGED <<cached, wizard, jobs, loop, world, queue, screen, fetched, done>>
  BY DEF SendUpdate, bot
<1>2. u \in UpdateRecord /\ UpdateSound(u) /\ u.id = tapped + 1
  BY <1>1, ButtonsSound
<1>3. /\ inbox \in Seq(UpdateRecord) /\ Len(inbox) \in Nat /\ DOMAIN inbox = 1 .. Len(inbox)
      /\ done \in Nat /\ fetched \in Nat /\ done <= fetched /\ fetched <= Len(inbox)
      /\ tapped \in Nat /\ MaxTaps \in Nat
  BY LenProperties, BoundAssumption DEF MenuSound, InboxTyped
<1>4. /\ inbox' \in Seq(UpdateRecord) /\ Len(inbox') = Len(inbox) + 1 /\ DOMAIN inbox' = 1 .. (Len(inbox) + 1)
      /\ inbox'[Len(inbox) + 1] = u /\ \A i \in 1 .. Len(inbox) : inbox'[i] = inbox[i]
  <2>1. /\ inbox' \in Seq(UpdateRecord) /\ Len(inbox') = Len(inbox) + 1
        /\ inbox'[Len(inbox) + 1] = u /\ \A i \in 1 .. Len(inbox) : inbox'[i] = inbox[i]
    BY <1>1, <1>2, <1>3, AppendProperties
  <2> QED BY <1>3, <2>1, LenProperties
<1>5. ASSUME NEW i \in DOMAIN inbox'
      PROVE  /\ UpdateSound(inbox'[i]) /\ inbox'[i].id <= tapped'
             /\ i \in DOMAIN inbox => inbox'[i] = inbox[i] /\ inbox'[i].id <= tapped
             /\ i \notin DOMAIN inbox => i = Len(inbox) + 1 /\ inbox'[i].id = tapped + 1
  <2>1. CASE i \in DOMAIN inbox
    <3>1. inbox'[i] = inbox[i] /\ UpdateSound(inbox[i]) /\ inbox[i].id <= tapped /\ inbox[i] \in UpdateRecord
      BY <1>3, <1>4, <2>1, ElementOfSeq DEF MenuSound, InboxTyped
    <3>2. inbox[i].id \in Nat
      <4>1. inbox[i].id \in Tap
        BY <3>1 DEF UpdateRecord
      <4> QED BY <4>1 DEF Tap
    <3> QED BY <1>1, <1>3, <2>1, <3>1, <3>2
  <2>2. CASE i \notin DOMAIN inbox
    BY <1>1, <1>2, <1>3, <1>4, <2>2
  <2> QED BY <2>1, <2>2
<1>6. InboxTyped'
  <2>1. ASSUME NEW i \in DOMAIN inbox', NEW k \in DOMAIN inbox', i < k PROVE inbox'[i].id < inbox'[k].id
    <3>1. i \in DOMAIN inbox
      BY <1>3, <1>4, <2>1
    <3>2. CASE k \in DOMAIN inbox
      BY <1>5, <2>1, <3>1, <3>2 DEF MenuSound, InboxTyped
    <3>3. CASE k \notin DOMAIN inbox
      <4>1. inbox[i] \in UpdateRecord
        BY <1>3, <3>1, ElementOfSeq
      <4>2. inbox'[i].id = inbox[i].id /\ inbox'[i].id <= tapped /\ inbox'[k].id = tapped + 1
        BY <1>5, <3>1, <3>3
      <4>3. inbox[i].id \in Tap
        BY <4>1 DEF UpdateRecord
      <4>4. inbox[i].id \in Nat
        BY <4>3 DEF Tap
      <4> QED BY <1>3, <4>2, <4>4
    <3> QED BY <3>2, <3>3
  <2>2. tapped' \in 0 .. MaxTaps /\ done' \in Nat /\ fetched' \in Nat /\ done' <= fetched' /\ fetched' <= Len(inbox')
    BY <1>1, <1>3, <1>4
  <2> QED BY <1>4, <1>5, <2>1, <2>2 DEF InboxTyped
<1>7. WorldTyped'
  <2>1. asides' \in Nat
    BY DEF Aside, MenuSound, WorldTyped
  <2> QED BY <1>1, <2>1 DEF MenuSound, WorldTyped, world, Shaped
<1>8. CacheTyped' /\ DialogTyped'
  BY <1>1, SameCache, SameDialog DEF MenuSound
<1>9. FreshTaps'
  <2>1. \A j \in Tap : j > tapped' => jobs'[j] = NoJob
    BY <1>1, <1>3 DEF MenuSound, FreshTaps, Tap
  <2>2. ASSUME NEW i \in DOMAIN inbox', i > done' PROVE jobs'[inbox'[i].id] = NoJob
    <3>1. CASE i \in DOMAIN inbox
      BY <1>1, <1>5, <2>2, <3>1 DEF MenuSound, FreshTaps
    <3>2. CASE i \notin DOMAIN inbox
      <4>1. tapped + 1 \in Tap /\ tapped + 1 > tapped
        BY <1>1, <1>3 DEF Tap
      <4>2. inbox'[i].id = tapped + 1
        BY <1>5, <3>2
      <4> QED BY <1>1, <4>1, <4>2 DEF MenuSound, FreshTaps
    <3> QED BY <3>1, <3>2
  <2> QED BY <1>1, <2>1, <2>2 DEF MenuSound, FreshTaps
<1> QED BY <1>1, <1>6, <1>7, <1>8, <1>9 DEF MenuSound, ScreensTyped, JobsTyped, QueueTyped, Linked

LEMMA OperatorSound == MenuSound /\ Operator => MenuSound'
<1> SUFFICES ASSUME MenuSound, NEW m \in Message, Taps(m) \/ GoesElsewhere(m) \/ Types(m) PROVE MenuSound'
  BY DEF Operator
<1>1. CASE Taps(m)
  BY <1>1, SendSound DEF Taps
<1>2. CASE GoesElsewhere(m)
  BY <1>2, SendSound DEF GoesElsewhere
<1>3. CASE Types(m)
  BY <1>3, SendSound DEF Types
<1> QED BY <1>1, <1>2, <1>3

LEMMA MenuInitSound == MenuInit => MenuSound
<1> SUFFICES ASSUME MenuInit PROVE MenuSound
  OBVIOUS
<1> USE DEF MenuInit
<1>1. WorldTyped
  <2>1. offers \subseteq Kind \X Router /\ asides \in Nat
    BY VisitsAssumption
  <2>2. ASSUME NEW k \in Kind, NEW r \in Router PROVE has[k][r] \in RowsOn(r)
    <3>1. Start[k] \in Seq(Name) /\ has[k][r] = On(r, Start[k])
      BY ContentsAssumption
    <3> QED BY <3>1, OnRows
  <2>3. Shaped(has)
    BY DEF Shaped
  <2> QED BY <2>1, <2>2, <2>3 DEF WorldTyped
<1>2. CacheTyped
  BY DEF NothingCached, CacheTyped, Shaped
<1>3. ScreensTyped
  BY PlainSound DEF ScreensTyped
<1>4. DialogTyped
  BY DEF NoDialog, DialogTyped, DialogRecord, DialogSound, Place, NoItem
<1>5. InboxTyped
  <2>1. <<>> \in Seq(UpdateRecord) /\ Len(<<>>) = 0 /\ DOMAIN <<>> = {}
    BY EmptySeq
  <2> QED BY <2>1, BoundAssumption DEF InboxTyped
<1>6. JobsTyped
  BY NoJobSound DEF JobsTyped
<1>7. QueueTyped /\ Linked
  <2>1. \A r \in Router : queue[r] = <<>> /\ queue[r] \in Seq(CommandOn(r)) /\ DOMAIN queue[r] = {}
    BY EmptySeq
  <2>2. QueueTyped
    BY <2>1 DEF QueueTyped
  <2>3. Linked
    BY <2>1 DEF Linked
  <2> QED BY <2>2, <2>3
<1>8. FreshTaps
  <2>1. DOMAIN inbox = {}
    BY EmptySeq
  <2> QED BY <2>1, BoundAssumption DEF FreshTaps
<1> HIDE DEF MenuInit
<1> QED BY <1>1, <1>2, <1>3, <1>4, <1>5, <1>6, <1>7, <1>8 DEF MenuSound

LEMMA IdleSound == MenuSound /\ UNCHANGED menuVars => MenuSound'
<1> SUFFICES ASSUME MenuSound, UNCHANGED menuVars PROVE MenuSound'
  OBVIOUS
<1>1. UNCHANGED <<bot, telegram, world, queue, screen, asides>>
  BY DEF menuVars
<1>2. WorldTyped'
  BY <1>1, SameWorld DEF MenuSound
<1> QED BY <1>1, <1>2, QuietWorld

LEMMA NextSound == MenuSound /\ [MenuNext]_menuVars => MenuSound'
<1> SUFFICES ASSUME MenuSound, [MenuNext]_menuVars PROVE MenuSound'
  OBVIOUS
<1>1. CASE TelegramBot
  BY <1>1, GetUpdatesSound, HandleSound, LoopSound, GoroutineSound DEF TelegramBot
<1>2. CASE World
  BY <1>2, RoutersSound, DriftSound, GetUpdatesSound, RestartSound DEF World
<1>3. CASE Operator
  BY <1>3, OperatorSound
<1>4. CASE UNCHANGED menuVars
  BY <1>4, IdleSound
<1> QED BY <1>1, <1>2, <1>3, <1>4 DEF MenuNext

LEMMA AlwaysSound == MenuSpec => []MenuSound
<1>1. MenuInit => MenuSound
  BY MenuInitSound
<1>2. MenuSound /\ [MenuNext]_menuVars => MenuSound'
  BY NextSound
<1> QED BY <1>1, <1>2, PTL DEF MenuSpec

(* The variables hold what their declarations say; a command names a tap or nobody, and the
   loop stands still only for a job that waits for a router (enqueueAndWait). *)
THEOREM MenuTypesCorrect == MenuSpec => []MenuTypeOK
<1>1. MenuSound => MenuTypeOK
  <2> SUFFICES ASSUME MenuSound PROVE MenuTypeOK
    OBVIOUS
  <2>1. ASSUME NEW k \in Kind, NEW r \in Router PROVE Range(has[k][r]) \subseteq {r} \X Name
    <3>1. has[k][r] \in Seq({r} \X Name)
      BY DEF MenuSound, WorldTyped, RowsOn
    <3>2. \A i \in DOMAIN has[k][r] : has[k][r][i] \in {r} \X Name
      BY <3>1, ElementOfSeq, LenProperties
    <3> QED BY <3>2 DEF Range
  <2>2. ASSUME NEW r \in Router, NEW i \in DOMAIN queue[r] PROVE queue[r][i].for \in {0} \cup Tap
    <3>1. queue[r] \in Seq(CommandOn(r)) /\ i \in 1 .. Len(queue[r])
      BY LenProperties DEF MenuSound, QueueTyped
    <3>2. queue[r][i] \in CommandOn(r)
      BY <3>1, ElementOfSeq
    <3>3. queue[r][i].for \in 0 .. MaxTaps
      BY <3>2 DEF CommandOn
    <3> QED BY <3>3, TapBounds
  <2>3. ASSUME NEW j \in Tap PROVE jobs[j].stage \in {"", "list", "act", "plain", "store", "edit", "answer"}
    BY DEF MenuSound, JobsTyped, JobOn, Waiting
  <2>4. loop # 0 => jobs[loop].stage = "answer"
    BY DEF MenuSound, FreshTaps
  <2>5. registered \subseteq Router /\ online \subseteq Router /\ done <= fetched /\ fetched <= Len(inbox)
    BY DEF MenuSound, WorldTyped, InboxTyped
  <2> QED BY <2>1, <2>2, <2>3, <2>4, <2>5 DEF MenuTypeOK
<1> QED BY <1>1, AlwaysSound, PTL

(* A command that names a row goes to the router that row is on, whatever lists are loaded,
   crossed, lost or restarted in between (routeMenuItem, presetSnapshot, adaptiveMenuFor). *)
THEOREM RightRouter == MenuSpec => []NamesItsOwnRouter
<1>1. MenuSound => NamesItsOwnRouter
  <2> SUFFICES ASSUME MenuSound, NEW r \in Router, NEW i \in DOMAIN queue[r], NEW x \in DOMAIN queue[r][i].arg
               PROVE  queue[r][i].arg[x][1] = r
    BY DEF NamesItsOwnRouter
  <2>1. queue[r] \in Seq(CommandOn(r)) /\ i \in 1 .. Len(queue[r])
    BY LenProperties DEF MenuSound, QueueTyped
  <2>2. queue[r][i] \in CommandOn(r)
    BY <2>1, ElementOfSeq
  <2>3. queue[r][i].arg \in Seq({r} \X Name)
    BY <2>2 DEF CommandOn, RowsOn
  <2>4. queue[r][i].arg[x] \in {r} \X Name
    BY <2>3, ElementOfSeq, LenProperties
  <2> QED BY <2>4
<1> QED BY <1>1, AlwaysSound, PTL

-----------------------------------------------------------------------------
(* What is drawn from a cached list is true of it as long as that list is cached *)

Truth == AllTrue /\ DoesWhatItShowed

LEMMA TruthStays ==
    ASSUME UNCHANGED cached,
           \A m \in Message : ScreenTrue(screen'[m]),
           \A i \in DOMAIN inbox' : UpdateTrue(inbox'[i]),
           \A j \in Tap : JobTrue(jobs'[j])
    PROVE  AllTrue'
BY DEF AllTrue, ScreenTrue, UpdateTrue, JobTrue

\* One task moves and has nothing drawn.
LEMMA JobsTrue ==
    ASSUME AllTrue, NEW j \in Tap, jobs'[j].own = FALSE, \A i \in Tap : i # j => jobs'[i] = jobs[i]
    PROVE  \A i \in Tap : JobTrue(jobs'[i])
BY DEF AllTrue, JobTrue

LEMMA ScreensTrue ==
    ASSUME AllTrue, ScreensTyped, NEW m, NEW s, ScreenTrue(s), Show(m, s)
    PROVE  \A x \in Message : ScreenTrue(screen'[x])
BY DEF AllTrue, ScreensTyped, Show

LEMMA AppendedTrue ==
    ASSUME DoesWhatItShowed, QueueTyped, NEW r \in Router, NEW c, c.own => c.arg = c.seen,
           queue' = [queue EXCEPT ![r] = Append(@, c)]
    PROVE  DoesWhatItShowed'
<1> DEFINE S == CommandOn(r) \cup {c}
           n == Len(queue[r])
<1>1. /\ queue = [x \in Router |-> queue[x]] /\ queue[r] \in Seq(CommandOn(r))
  BY DEF QueueTyped
<1>2. n \in Nat /\ DOMAIN queue[r] = 1 .. n /\ \A i \in 1 .. n : queue[r][i] \in CommandOn(r)
  BY <1>1, ElementOfSeq, LenProperties
<1>3. queue[r] \in Seq(S)
  <2>1. queue[r] \in [1 .. n -> S]
    BY <1>1, <1>2, LenProperties
  <2> QED BY <1>2, <2>1, IsASeq
<1>4. /\ queue'[r] = Append(queue[r], c) /\ \A x \in Router : x # r => queue'[x] = queue[x]
  BY <1>1
<1>5. /\ DOMAIN queue'[r] = 1 .. (n + 1) /\ queue'[r][n + 1] = c
      /\ \A i \in 1 .. n : queue'[r][i] = queue[r][i]
  <2>1. c \in S
    OBVIOUS
  <2> HIDE DEF S
  <2> QED BY <1>3, <1>4, <2>1, AppendProperties, LenProperties
<1> HIDE DEF n
<1>6. ASSUME NEW i \in DOMAIN queue'[r], queue'[r][i].own PROVE queue'[r][i].arg = queue'[r][i].seen
  <2>1. CASE i \in 1 .. n
    BY <1>2, <1>5, <1>6, <2>1 DEF DoesWhatItShowed
  <2>2. CASE i = n + 1
    BY <1>5, <1>6, <2>2
  <2> QED BY <1>2, <1>5, <2>1, <2>2
<1> QED BY <1>4, <1>6 DEF DoesWhatItShowed

LEMMA QueueTrue ==
    ASSUME DoesWhatItShowed, UNCHANGED queue
    PROVE  DoesWhatItShowed'
BY DEF DoesWhatItShowed

LEMMA DropTrue ==
    ASSUME Truth, JobsTyped, NEW j \in Tap, Drop(j)
    PROVE  DoesWhatItShowed' /\ \A i \in Tap : JobTrue(jobs'[i])
<1>1. jobs' = [jobs EXCEPT ![j] = NoJob] /\ DOMAIN jobs = Tap /\ UNCHANGED queue /\ NoJob.own = FALSE
  BY DEF Drop, JobsTyped, NoJob
<1> QED BY <1>1, JobsTrue, QueueTrue DEF Truth

\* Updates that are what they were but for their count.
LEMMA CountedTrue ==
    ASSUME NEW u \in UpdateRecord, UpdateTrue(u)
    PROVE  UpdateTrue([u EXCEPT !.times = @ + 1])
<1>1. u.times \in Nat
  BY DEF UpdateRecord
<1>2. PICK n \in Nat : n = u.times + 1
  BY <1>1
<1> DEFINE v == [u EXCEPT !.times = n]
<1>3. /\ v.own = u.own /\ v.verb = u.verb /\ v.kind = u.kind /\ v.router = u.router /\ v.idx = u.idx
      /\ v.seen = u.seen
  BY DEF UpdateRecord
<1> HIDE DEF v
<1>4. UpdateTrue(v)
  BY <1>3 DEF UpdateTrue, TrueUpdate
<1> QED BY <1>2, <1>4 DEF v

LEMMA HandleTrue ==
    ASSUME MenuSound, Truth, Handle
    PROVE  Truth'
<1> DEFINE u == inbox[done + 1]
<1>1. /\ inbox \in Seq(UpdateRecord) /\ Len(inbox) \in Nat /\ DOMAIN inbox = 1 .. Len(inbox)
      /\ done \in Nat /\ done + 1 \in DOMAIN inbox
  BY LenProperties DEF MenuSound, InboxTyped, Handle
<1>2. /\ u \in UpdateRecord /\ UpdateSound(u) /\ u.id \in Tap /\ jobs[u.id] = NoJob /\ UpdateTrue(u)
  <2>1. u \in UpdateRecord
    BY <1>1, ElementOfSeq
  <2>2. UpdateSound(u)
    BY <1>1 DEF MenuSound, InboxTyped
  <2>3. jobs[u.id] = NoJob
    BY <1>1 DEF MenuSound, FreshTaps
  <2>4. UpdateTrue(u)
    BY <1>1 DEF Truth, AllTrue
  <2> QED BY <2>1, <2>2, <2>3, <2>4 DEF UpdateRecord
<1>3. /\ loop = 0 /\ inbox' = [inbox EXCEPT ![done + 1].times = @ + 1]
      /\ (Button(u) /\ UNCHANGED registered) \/ Text(u) \/ DeleteRouter(u)
  BY DEF Handle
<1>4. \A i \in DOMAIN inbox' : UpdateTrue(inbox'[i])
  <2>1. DOMAIN inbox' = DOMAIN inbox /\ inbox'[done + 1] = [u EXCEPT !.times = @ + 1]
    BY <1>1, <1>3
  <2>2. \A i \in DOMAIN inbox : i # done + 1 => inbox'[i] = inbox[i]
    BY <1>3
  <2>3. UpdateTrue(inbox'[done + 1])
    <3> HIDE DEF u
    <3> QED BY <1>2, <2>1, CountedTrue
  <2> QED BY <2>1, <2>2, <2>3 DEF Truth, AllTrue
<1> HIDE DEF u
<1>5. ASSUME UNCHANGED <<cached, jobs>>, \A m \in Message : ScreenTrue(screen'[m]) PROVE AllTrue'
  BY <1>4, <1>5, TruthStays DEF Truth, AllTrue
<1>6. ASSUME UNCHANGED cached, jobs'[u.id].own = FALSE, \A i \in Tap : i # u.id => jobs'[i] = jobs[i],
             \A m \in Message : ScreenTrue(screen'[m])
      PROVE  AllTrue'
  BY <1>2, <1>4, <1>6, TruthStays, JobsTrue DEF Truth
<1>7. CASE Button(u) /\ UNCHANGED registered
  <2>1. CASE Spawns(u)
    <3>1. PICK act, arg, seen, task : SpawnSound(u, act, arg, seen, task) /\ Spawn(u, act, arg, seen, task)
      BY <2>1 DEF Spawns
    <3>2. u.router \in Router
      <4>1. u.verb # "slash"
        BY <1>7 DEF Button, OpenRoutes, OpenPresets, OpenAdaptive, OpenDNSTop, OpenList, Page, Card,
              RouteAction, InstallPreset, AdaptiveAction, ApplyTop, UpdatePresets, Ask, StartListDialog, StartDialog
      <4> QED BY <1>2, <4>1 DEF UpdateSound
    <3>3. /\ UNCHANGED cached /\ jobs'[u.id].own = FALSE /\ \A i \in Tap : i # u.id => jobs'[i] = jobs[i]
          /\ \A m \in Message : screen'[m] \in {screen[m], Plain}
      BY <1>2, <3>1, <3>2, SpawnStep DEF MenuSound, QueueSound
    <3>4. AllTrue'
      BY <1>6, <3>3, PlainSound DEF Truth, AllTrue, ScreenTrue
    <3> DEFINE c == MenuCommand(u.id, act, u.kind, arg, seen, u.own)
    <3>5. c.own => c.arg = c.seen
      BY <1>2, <3>1 DEF SpawnSound, MenuCommand
    <3>6. queue' = [queue EXCEPT ![u.router] = Append(@, c)] \/ UNCHANGED queue
      BY <3>1 DEF Spawn, EnqueueCommand
    <3> HIDE DEF c
    <3>7. DoesWhatItShowed'
      BY <3>2, <3>5, <3>6, AppendedTrue, QueueTrue DEF Truth, MenuSound
    <3> QED BY <3>4, <3>7 DEF Truth
  <2>2. CASE ShowsSound(u)
    <3>1. PICK s \in ScreenRecord : ScreenTrue(s) /\ Show(u.msg, s)
      BY <2>2 DEF ShowsSound
    <3> QED BY <1>5, <2>2, <3>1, ScreensTrue, QueueTrue DEF ShowsSound, Truth, MenuSound
  <2>3. CASE TurnsDialog
    BY <1>5, <2>3, QueueTrue DEF TurnsDialog, Truth, AllTrue
  <2> QED BY <1>2, <1>7, <2>1, <2>2, <2>3, ButtonEffect DEF MenuSound
<1>8. CASE Text(u)
  <2>1. UNCHANGED <<cached, screen>> /\ (Waited(u) \/ UNCHANGED <<queue, jobs, loop>>)
    BY <1>2, <1>8, TextEffect DEF MenuSound
  <2>2. CASE UNCHANGED <<queue, jobs, loop>>
    BY <1>5, <2>1, <2>2, QueueTrue DEF Truth, AllTrue
  <2>3. CASE Waited(u)
    <3>1. jobs'[u.id].own = FALSE /\ \A i \in Tap : i # u.id => jobs'[i] = jobs[i]
      BY <1>2, <1>3, <2>3, WaitedStep DEF MenuSound, QueueSound
    <3>2. AllTrue'
      BY <1>6, <2>1, <3>1 DEF Truth, AllTrue
    <3>3. PICK r \in Router : \E act, k, arg : EnqueueAndWait(u, r, act, k, arg)
      BY <2>3 DEF Waited
    <3>4. PICK act, k, arg : EnqueueAndWait(u, r, act, k, arg)
      BY <3>3
    <3> DEFINE c == MenuCommand(IF r \in online THEN u.id ELSE 0, act, k, arg, arg, TRUE)
    <3>5. c.arg = c.seen
      BY DEF MenuCommand
    <3>6. queue' = [queue EXCEPT ![r] = Append(@, c)] \/ UNCHANGED queue
      BY <3>4 DEF EnqueueAndWait, EnqueueCommand
    <3> HIDE DEF c
    <3>7. DoesWhatItShowed'
      BY <3>5, <3>6, AppendedTrue, QueueTrue DEF Truth, MenuSound
    <3> QED BY <3>2, <3>7 DEF Truth
  <2> QED BY <2>1, <2>2, <2>3
<1>9. CASE DeleteRouter(u)
  <2>1. UNCHANGED <<cached, jobs>> /\ Show(u.msg, Plain) /\ queue' = [queue EXCEPT ![u.router] = <<>>]
    BY <1>9 DEF DeleteRouter, bot
  <2>2. AllTrue'
    BY <1>5, <2>1, ScreensTrue, PlainSound DEF Truth, MenuSound, ScreenTrue
  <2>3. \A r \in Router : queue'[r] = queue[r] \/ queue'[r] = <<>>
    BY <2>1 DEF MenuSound, QueueTyped
  <2>4. DoesWhatItShowed'
    BY <2>3 DEF Truth, DoesWhatItShowed
  <2> QED BY <2>2, <2>4 DEF Truth
<1> QED BY <1>3, <1>7, <1>8, <1>9

\* What a change of the lists takes the ownership of, and what it leaves.
LEMMA DisownedFor ==
    ASSUME NEW s
    PROVE  \/ Disown(s) = s /\ ~ s.own
           \/ /\ s.own
              /\ \E b \in BOOLEAN : /\ Disown(s) = [s EXCEPT !.own = b]
                                    /\ b => cached'[s.kind][s.router] = cached[s.kind][s.router]
<1>1. PICK b \in BOOLEAN : b = Keeps(s.kind, s.router)
  BY DEF Keeps
<1>2. b => cached'[s.kind][s.router] = cached[s.kind][s.router]
  BY <1>1 DEF Keeps
<1>3. Disown(s) = IF s.own THEN [s EXCEPT !.own = b] ELSE s
  BY <1>1 DEF Disown
<1> QED BY <1>2, <1>3

LEMMA ScreenDisownedTrue ==
    ASSUME NEW s \in ScreenRecord, ScreenTrue(s), NEW t, t = Disown(s)
    PROVE  t.own => TrueScreen(cached'[t.kind][t.router], t)
<1>1. CASE t = s /\ ~ s.own
  BY <1>1
<1>2. ASSUME s.own, NEW b \in BOOLEAN, t = [s EXCEPT !.own = b],
             b => cached'[s.kind][s.router] = cached[s.kind][s.router]
      PROVE  t.own => TrueScreen(cached'[t.kind][t.router], t)
  <2>1. /\ t.own = b /\ t.view = s.view /\ t.kind = s.kind /\ t.router = s.router /\ t.idx = s.idx
        /\ t.items = s.items
    BY <1>2 DEF ScreenRecord
  <2> QED BY <1>2, <2>1 DEF ScreenTrue, TrueScreen
<1> QED BY <1>1, <1>2, DisownedFor

LEMMA UpdateDisownedTrue ==
    ASSUME NEW s \in UpdateRecord, UpdateTrue(s), NEW t, t = Disown(s)
    PROVE  t.own => TrueUpdate(cached'[t.kind][t.router], t)
<1>1. CASE t = s /\ ~ s.own
  BY <1>1
<1>2. ASSUME s.own, NEW b \in BOOLEAN, t = [s EXCEPT !.own = b],
             b => cached'[s.kind][s.router] = cached[s.kind][s.router]
      PROVE  t.own => TrueUpdate(cached'[t.kind][t.router], t)
  <2>1. /\ t.own = b /\ t.verb = s.verb /\ t.kind = s.kind /\ t.router = s.router /\ t.idx = s.idx
        /\ t.seen = s.seen
    BY <1>2 DEF UpdateRecord
  <2> QED BY <1>2, <2>1 DEF UpdateTrue, TrueUpdate
<1> QED BY <1>1, <1>2, DisownedFor

LEMMA JobDisownedTrue ==
    ASSUME NEW r, NEW s \in JobOn(r), JobTrue(s), NEW t, t = Disown(s)
    PROVE  t.own => t.items = cached'[t.kind][t.router]
<1>1. CASE t = s /\ ~ s.own
  BY <1>1
<1>2. ASSUME s.own, NEW b \in BOOLEAN, t = [s EXCEPT !.own = b],
             b => cached'[s.kind][s.router] = cached[s.kind][s.router]
      PROVE  t.own => t.items = cached'[t.kind][t.router]
  <2>1. t.own = b /\ t.kind = s.kind /\ t.router = s.router /\ t.items = s.items
    BY <1>2 DEF JobOn
  <2> QED BY <1>2, <2>1 DEF JobTrue
<1> QED BY <1>1, <1>2, DisownedFor

LEMMA AllDisownedTrue ==
    ASSUME MenuSound, AllTrue,
           screen' = [m \in Message |-> Disown(screen[m])],
           inbox' = [i \in DOMAIN inbox |-> Disown(inbox[i])],
           \A j \in Tap : jobs'[j].own => jobs'[j].items = cached'[jobs'[j].kind][jobs'[j].router]
    PROVE  AllTrue'
<1>1. \A m \in Message : screen'[m].own => TrueScreen(cached'[screen'[m].kind][screen'[m].router], screen'[m])
  BY ScreenDisownedTrue DEF MenuSound, ScreensTyped, AllTrue
<1>2. ASSUME NEW i \in DOMAIN inbox'
      PROVE  inbox'[i].own => TrueUpdate(cached'[inbox'[i].kind][inbox'[i].router], inbox'[i])
  <2>1. inbox[i] \in UpdateRecord /\ UpdateTrue(inbox[i])
    BY ElementOfSeq, LenProperties DEF MenuSound, InboxTyped, AllTrue
  <2> QED BY <2>1, UpdateDisownedTrue
<1> QED BY <1>1, <1>2 DEF AllTrue, ScreenTrue, UpdateTrue, JobTrue

LEMMA GoroutineTrue ==
    ASSUME MenuSound, Truth, NEW j \in Tap, Goroutine(j)
    PROVE  Truth'
<1>1. /\ DOMAIN jobs = Tap /\ jobs[j] \in JobOn(jobs[j].router) /\ JobSound(jobs[j])
      /\ ScreensTyped /\ AllTrue /\ DoesWhatItShowed /\ JobsTyped /\ QueueTyped
  BY DEF MenuSound, JobsTyped, Truth
<1>2. jobs[j].stage # "edit" => jobs[j].own = FALSE
  BY <1>1 DEF JobSound, JobOn
<1>3. ASSUME UNCHANGED <<cached, inbox>>, \A m \in Message : ScreenTrue(screen'[m]),
             \A i \in Tap : JobTrue(jobs'[i])
      PROVE  AllTrue'
  BY <1>1, <1>3, TruthStays DEF AllTrue
<1>4. CASE GivesUp(j)
  <2>1. /\ UNCHANGED <<cached, inbox, screen>> /\ jobs' = [jobs EXCEPT ![j].got = "nothing"]
        /\ queue' = Forget(queue, j) /\ jobs[j].stage # "edit"
    BY <1>4 DEF GivesUp, telegram
  <2>2. jobs'[j].own = FALSE /\ \A i \in Tap : i # j => jobs'[i] = jobs[i]
    BY <1>1, <1>2, <2>1 DEF JobOn
  <2>3. AllTrue'
    BY <1>1, <1>3, <2>1, <2>2, JobsTrue DEF AllTrue
  <2>4. ASSUME NEW r \in Router, NEW i \in DOMAIN queue'[r], queue'[r][i].own PROVE queue'[r][i].arg = queue'[r][i].seen
    <3>1. /\ i \in DOMAIN queue[r]
          /\ queue'[r][i] = (IF queue[r][i].for = j THEN [queue[r][i] EXCEPT !.for = 0] ELSE queue[r][i])
      BY <2>1 DEF Forget
    <3>2. queue[r][i] \in CommandOn(r)
      BY <1>1, <3>1, ElementOfSeq, LenProperties DEF QueueTyped
    <3>3. queue'[r][i].own = queue[r][i].own /\ queue'[r][i].arg = queue[r][i].arg /\ queue'[r][i].seen = queue[r][i].seen
      BY <3>1, <3>2 DEF CommandOn
    <3> QED BY <1>1, <2>4, <3>1, <3>3 DEF DoesWhatItShowed
  <2> QED BY <2>3, <2>4 DEF Truth, DoesWhatItShowed
<1>5. ASSUME NEW act \in {"names", "read"}, jobs[j].stage = "act", AskAgain(j, act)
      PROVE  Truth'
  <2>1. UNCHANGED <<cached, inbox>> /\ Show(jobs[j].msg, Plain) /\ jobs[j].router \in Router
    BY <1>1, <1>5 DEF AskAgain, telegram, JobSound
  <2>2. \A m \in Message : ScreenTrue(screen'[m])
    BY <1>1, <2>1, ScreensTrue, PlainSound DEF ScreenTrue
  <2>3. CASE jobs[j].router \notin registered
    BY <1>1, <1>3, <1>5, <2>1, <2>2, <2>3, DropTrue DEF AskAgain, Truth
  <2>4. CASE jobs[j].router \in registered
    <3> DEFINE stage == IF act = "names" THEN "list" ELSE "plain"
               c == MenuCommand(j, act, jobs[j].kind, <<>>, <<>>, FALSE)
    <3>1. /\ jobs' = [jobs EXCEPT ![j].stage = stage, ![j].got = "waits"]
          /\ queue' = [queue EXCEPT ![jobs[j].router] = Append(@, c)]
      BY <1>5, <2>4 DEF AskAgain
    <3>2. c.own = FALSE
      BY DEF MenuCommand
    <3> HIDE DEF stage, c
    <3>3. jobs'[j].own = FALSE /\ \A i \in Tap : i # j => jobs'[i] = jobs[i]
      BY <1>1, <1>2, <1>5, <3>1 DEF JobOn
    <3>4. AllTrue'
      BY <1>1, <1>3, <2>1, <2>2, <3>3, JobsTrue
    <3>5. DoesWhatItShowed'
      BY <1>1, <2>1, <3>1, <3>2, AppendedTrue
    <3> QED BY <3>4, <3>5 DEF Truth
  <2> QED BY <2>3, <2>4
<1>6. ASSUME Drop(j), UNCHANGED <<cached, inbox>>, \A m \in Message : ScreenTrue(screen'[m])
      PROVE  Truth'
  BY <1>1, <1>3, <1>6, DropTrue DEF Truth
<1>7. CASE RouteActed(j) \/ PresetActed(j) \/ DNSActed(j) \/ AdaptiveActed(j)
  BY <1>5, <1>7 DEF RouteActed, PresetActed, DNSActed, AdaptiveActed, Acted
<1>8. CASE AdaptiveRefused(j) \/ Asked(j) \/ NotLoaded(j)
  <2>1. Drop(j) /\ Show(jobs[j].msg, Plain) /\ UNCHANGED <<cached, inbox>>
    BY <1>8 DEF AdaptiveRefused, Asked, NotLoaded, telegram
  <2> QED BY <1>1, <1>6, <2>1, ScreensTrue, PlainSound DEF ScreenTrue
<1>9. CASE ReadAdaptive(j)
  <2> DEFINE o == cached[Sibling(jobs[j].kind)][jobs[j].router]
  <2>1. /\ jobs' = [jobs EXCEPT ![j].stage = "store", ![j].other = o] /\ jobs[j].stage = "list"
        /\ UNCHANGED <<cached, inbox, queue, screen>>
    BY <1>9 DEF ReadAdaptive, Loads, telegram
  <2> HIDE DEF o
  <2>2. jobs'[j].own = FALSE /\ \A i \in Tap : i # j => jobs'[i] = jobs[i]
    BY <1>1, <1>2, <2>1 DEF JobOn
  <2>3. AllTrue'
    BY <1>1, <1>3, <2>1, <2>2, JobsTrue DEF AllTrue
  <2> QED BY <1>1, <2>1, <2>3, QueueTrue DEF Truth
<1>10. ASSUME NEW other \in RowsOn(jobs[j].router) \cup {Unknown}, jobs[j].kind \in Kind, jobs[j].router \in Router,
              Store(j, SetMenu(jobs[j].kind, jobs[j].router, jobs[j].items, other))
       PROVE  Truth'
  <2>1. /\ cached' = SetMenu(jobs[j].kind, jobs[j].router, jobs[j].items, other)
        /\ jobs' = [i \in Tap |-> IF i = j THEN [jobs[j] EXCEPT !.stage = "edit", !.other = Unknown, !.own = TRUE]
                                  ELSE Disown(jobs[i])]
        /\ screen' = [m \in Message |-> Disown(screen[m])]
        /\ inbox' = [i \in DOMAIN inbox |-> Disown(inbox[i])]
        /\ UNCHANGED queue
    BY <1>10 DEF Store
  <2>2. cached'[jobs[j].kind][jobs[j].router] = jobs[j].items
    <3>1. jobs[j].items \in RowsOn(jobs[j].router)
      BY <1>1 DEF JobOn
    <3> QED BY <1>10, <2>1, <3>1, MenuSet DEF MenuSound
  <2>3. ASSUME NEW i \in Tap
        PROVE  jobs'[i].own => jobs'[i].items = cached'[jobs'[i].kind][jobs'[i].router]
    <3>1. CASE i = j
      <4>1. jobs'[j].items = jobs[j].items /\ jobs'[j].kind = jobs[j].kind /\ jobs'[j].router = jobs[j].router
        BY <1>1, <2>1 DEF JobOn
      <4> QED BY <2>2, <3>1, <4>1
    <3>2. CASE i # j
      <4>1. jobs[i] \in JobOn(jobs[i].router) /\ JobTrue(jobs[i])
        BY <1>1 DEF JobsTyped, AllTrue
      <4>2. jobs'[i] = Disown(jobs[i])
        BY <2>1, <3>2
      <4> QED BY <4>1, <4>2, JobDisownedTrue
    <3> QED BY <3>1, <3>2
  <2>4. AllTrue'
    BY <1>1, <2>1, <2>3, AllDisownedTrue
  <2> QED BY <1>1, <2>1, <2>4, QueueTrue DEF Truth
<1>11. CASE SetOne(j)
  <2>1. jobs[j].kind \in Kind /\ jobs[j].router \in Router
    BY <1>1, <1>11 DEF SetOne, Loads, JobSound
  <2> QED BY <1>10, <1>11, <2>1 DEF SetOne
<1>12. CASE StoreAdaptive(j)
  <2>1. jobs[j].kind \in Kind /\ jobs[j].router \in Router /\ jobs[j].other \in RowsOn(jobs[j].router) \cup {Unknown}
    BY <1>1, <1>12 DEF StoreAdaptive, JobSound, JobOn
  <2> QED BY <1>10, <1>12, <2>1 DEF StoreAdaptive
<1>13. CASE Edit(j)
  <2> DEFINE s == [FromCache("list", jobs[j].kind, jobs[j].router, 0, jobs[j].items) EXCEPT !.own = jobs[j].own]
  <2>1. Show(jobs[j].msg, s) /\ Drop(j) /\ UNCHANGED <<cached, inbox>>
    BY <1>13 DEF Edit, telegram
  <2>2. /\ s.own = jobs[j].own /\ s.view = "list" /\ s.kind = jobs[j].kind /\ s.router = jobs[j].router
        /\ s.items = jobs[j].items
    BY DEF FromCache
  <2> HIDE DEF s
  <2>3. ScreenTrue(s)
    BY <1>1, <2>2 DEF AllTrue, JobTrue, ScreenTrue, TrueScreen
  <2> QED BY <1>1, <1>6, <2>1, <2>3, ScreensTrue
<1> QED BY <1>4, <1>7, <1>8, <1>9, <1>11, <1>12, <1>13 DEF Goroutine

\* The tail of a queue, and the queues a restart forgets the waiters of.
LEMMA LoopTrue ==
    ASSUME MenuSound, Truth, LoopGoesOn
    PROVE  Truth'
<1>1. /\ Drop(loop) /\ loop \in Tap /\ UNCHANGED <<cached, inbox, screen>>
  BY TapBounds DEF LoopGoesOn, MenuSound, FreshTaps, telegram
<1> QED BY <1>1, DropTrue, TruthStays DEF Truth, AllTrue, MenuSound

LEMMA ExecuteTrue ==
    ASSUME MenuSound, Truth, NEW r \in Router, Execute(r)
    PROVE  Truth'
<1> DEFINE c == Head(queue[r])
<1>1. /\ queue[r] # <<>> /\ UNCHANGED <<cached, inbox, screen>> /\ queue' = [queue EXCEPT ![r] = Tail(@)]
      /\ jobs' = IF c.for = 0 THEN jobs
                 ELSE [jobs EXCEPT ![c.for].got = Result(c, r),
                                   ![c.for].items = IF c.act = "names" THEN has[c.kind][r] ELSE @]
  BY DEF Execute, telegram
<1>2. /\ queue[r] \in Seq(CommandOn(r)) /\ Len(queue[r]) \in Nat \ {0} /\ DOMAIN queue[r] = 1 .. Len(queue[r])
      /\ c = queue[r][1] /\ 1 \in DOMAIN queue[r] /\ c \in CommandOn(r)
  <2>1. queue[r] \in Seq(CommandOn(r))
    BY DEF MenuSound, QueueTyped
  <2> QED BY <1>1, <2>1, HeadTailProperties, LenProperties, EmptySeq
<1>3. \A j \in Tap : JobTrue(jobs'[j])
  <2>1. CASE c.for = 0
    BY <1>1, <2>1 DEF Truth, AllTrue
  <2>2. CASE c.for # 0
    <3>1. c.for \in Tap /\ jobs[c.for].stage \in Waiting
      <4>1. c.for \in Tap
        BY <1>2, <2>2, TapBounds DEF CommandOn
      <4>2. jobs[c.for].stage \in Waiting
        BY <1>2, <2>2 DEF MenuSound, Linked, Answers
      <4> QED BY <4>1, <4>2
    <3> DEFINE j == c.for
               got == Result(c, r)
               items == IF c.act = "names" THEN has[c.kind][r] ELSE jobs[j].items
    <3>2. jobs' = [jobs EXCEPT ![j].got = got, ![j].items = items]
      BY <1>1, <2>2
    <3>3. j \in Tap /\ DOMAIN jobs = Tap /\ jobs[j] \in JobOn(jobs[j].router) /\ JobSound(jobs[j])
      BY <3>1 DEF MenuSound, JobsTyped
    <3>4. jobs[j].own = FALSE
      BY <3>1, <3>3 DEF JobSound, JobOn, Waiting
    <3> HIDE DEF j, got, items
    <3>5. jobs'[j].own = FALSE /\ \A i \in Tap : i # j => jobs'[i] = jobs[i]
      BY <3>2, <3>3, <3>4 DEF JobOn
    <3> QED BY <3>3, <3>5, JobsTrue DEF Truth
  <2> QED BY <2>1, <2>2
<1>4. AllTrue'
  BY <1>1, <1>3, TruthStays DEF Truth, AllTrue
<1>5. ASSUME NEW x \in Router, NEW i \in DOMAIN queue'[x], queue'[x][i].own PROVE queue'[x][i].arg = queue'[x][i].seen
  <2>1. CASE x # r
    <3>1. queue'[x] = queue[x]
      BY <1>1, <2>1
    <3> QED BY <1>5, <3>1 DEF Truth, DoesWhatItShowed
  <2>2. CASE x = r
    <3>1. queue'[r] = Tail(queue[r])
      BY <1>1 DEF MenuSound, QueueTyped
    <3>2. i + 1 \in DOMAIN queue[r] /\ queue'[r][i] = queue[r][i + 1]
      <4>1. /\ Len(Tail(queue[r])) = Len(queue[r]) - 1 /\ Tail(queue[r]) \in Seq(CommandOn(r))
            /\ \A k \in 1 .. Len(Tail(queue[r])) : Tail(queue[r])[k] = queue[r][k + 1]
        BY <1>1, <1>2, HeadTailProperties
      <4>2. i \in 1 .. (Len(queue[r]) - 1)
        BY <1>5, <2>2, <3>1, <4>1, LenProperties
      <4> QED BY <1>2, <3>1, <4>1, <4>2
    <3> QED BY <1>5, <2>2, <3>2 DEF Truth, DoesWhatItShowed
  <2> QED BY <2>1, <2>2
<1> QED BY <1>4, <1>5 DEF Truth, DoesWhatItShowed

LEMMA GetUpdatesTrue ==
    ASSUME MenuSound, Truth, GetUpdates \/ GetUpdatesFails
    PROVE  Truth'
<1>1. inbox' = SubSeq(inbox, done + 1, Len(inbox)) /\ UNCHANGED <<cached, jobs, queue, screen>>
  BY DEF GetUpdates, GetUpdatesFails, bot
<1>3. \A i \in DOMAIN inbox' : \E k \in DOMAIN inbox : inbox'[i] = inbox[k]
  BY <1>1, Confirmed DEF MenuSound
<1>4. AllTrue'
  BY <1>1, <1>3, TruthStays DEF Truth, AllTrue
<1> QED BY <1>1, <1>4, QueueTrue DEF Truth

LEMMA RestartTrue ==
    ASSUME MenuSound, Truth, Restart
    PROVE  Truth'
<1>1. /\ jobs' = [j \in Tap |-> NoJob]
      /\ queue' = [r \in Router |-> [i \in DOMAIN queue[r] |-> [queue[r][i] EXCEPT !.for = 0]]]
      /\ screen' = [m \in Message |-> Disown(screen[m])]
      /\ inbox' = [i \in DOMAIN inbox |-> Disown(inbox[i])]
  BY DEF Restart
<1>2. \A j \in Tap : jobs'[j].own = FALSE
  BY <1>1 DEF NoJob
<1>3. AllTrue'
  BY <1>1, <1>2, AllDisownedTrue DEF Truth
<1>4. ASSUME NEW r \in Router, NEW i \in DOMAIN queue'[r], queue'[r][i].own PROVE queue'[r][i].arg = queue'[r][i].seen
  <2>1. i \in DOMAIN queue[r] /\ queue'[r][i] = [queue[r][i] EXCEPT !.for = 0]
    BY <1>1
  <2>2. queue[r][i] \in CommandOn(r)
    BY <2>1, ElementOfSeq, LenProperties DEF MenuSound, QueueTyped
  <2>3. queue'[r][i].own = queue[r][i].own /\ queue'[r][i].arg = queue[r][i].arg /\ queue'[r][i].seen = queue[r][i].seen
    BY <2>1, <2>2 DEF CommandOn
  <2> QED BY <1>4, <2>1, <2>3 DEF Truth, DoesWhatItShowed
<1> QED BY <1>3, <1>4 DEF Truth, DoesWhatItShowed

\* A button under a screen that is true of the cached list is true of it as well.
LEMMA UnderTrue ==
    ASSUME NEW m \in Message, screen[m] \in ScreenRecord, ScreenTrue(screen[m]), NEW verb, NEW i, NEW seen,
           screen[m].own => /\ verb \in RowVerb => seen = <<cached[screen[m].kind][screen[m].router][i]>>
                            /\ verb = "apply" => seen = cached[screen[m].kind][screen[m].router]
    PROVE  UpdateTrue(Under(m, verb, i, seen))
<1> DEFINE x == Under(m, verb, i, seen)
<1>1. /\ x.own = screen[m].own /\ x.verb = verb /\ x.kind = screen[m].kind /\ x.router = screen[m].router
      /\ x.idx = i /\ x.seen = seen
  BY DEF Under, Update, ScreenRecord
<1> HIDE DEF x
<1>2. UpdateTrue(x)
  BY <1>1 DEF UpdateTrue, TrueUpdate
<1> QED BY <1>2 DEF x

LEMMA ButtonsTrue ==
    ASSUME MenuSound, AllTrue, NEW m \in Message, NEW u \in Buttons(m)
    PROVE  UpdateTrue(u)
<1> DEFINE s == screen[m]
           list == cached[s.kind][s.router]
<1>1. s \in ScreenRecord /\ ScreenSound(s) /\ ScreenTrue(s)
  BY DEF MenuSound, ScreensTyped, AllTrue
<1>2. s.kind # "" => s.view # "plain"
  BY <1>1 DEF ScreenSound
<1>3. s.own /\ s.view = "list" => s.items = list
  BY <1>1 DEF ScreenTrue, TrueScreen
<1>4. s.own /\ s.view # "list" => s.items = <<list[s.idx]>>
  BY <1>1 DEF ScreenTrue, TrueScreen
<1> HIDE DEF list
<1>5. ASSUME NEW verb, verb # "apply", NEW x \in RowsOf(m, verb), s.view = "list" PROVE UpdateTrue(x)
  <2>1. PICK i \in DOMAIN s.items : x = Under(m, verb, i, <<s.items[i]>>)
    BY <1>5 DEF RowsOf
  <2>2. s.own => <<s.items[i]>> = <<list[i]>>
    BY <1>3, <1>5
  <2> QED BY <1>1, <1>5, <2>1, <2>2, UnderTrue DEF list
<1>6. ASSUME NEW verb, verb # "apply", s.view # "list" PROVE UpdateTrue(This(m, verb))
  BY <1>1, <1>4, <1>6, UnderTrue DEF This, list
<1>7. UpdateTrue(Under(m, "page", 0, <<>>))
  BY <1>1, UnderTrue DEF RowVerb
<1>8. CASE s.kind = "routes"
  <2>0. u \in RouteButtons(m)
    <3>1. Buttons(m) = RouteButtons(m)
      BY <1>8 DEF Buttons, Adaptive
    <3> QED BY <3>1
  <2>1. CASE s.view = "list"
    <3>1. u \in RowsOf(m, "card")
      BY <2>0, <2>1 DEF RouteButtons
    <3> QED BY <1>5, <2>1, <3>1
  <2>2. CASE s.view # "list"
    <3>1. \/ \E verb \in {"confirm", "change", "iface", "entries", "remove"} : u = This(m, verb)
          \/ u = [This(m, "entries") EXCEPT !.del = TRUE]
      BY <2>0, <2>2 DEF RouteButtons
    <3>2. ASSUME u = [This(m, "entries") EXCEPT !.del = TRUE] PROVE UpdateTrue(u)
      <4>1. u.verb = "entries"
        BY <3>2 DEF This, Under, Update
      <4> QED BY <4>1 DEF UpdateTrue, TrueUpdate, RowVerb
    <3> QED BY <1>6, <2>2, <3>1, <3>2
  <2> QED BY <2>1, <2>2
<1>9. CASE s.kind = "presets"
  <2>0. u \in PresetButtons(m)
    <3>1. Buttons(m) = PresetButtons(m)
      BY <1>9 DEF Buttons, Adaptive
    <3> QED BY <3>1
  <2>1. CASE s.view = "list"
    BY <1>5, <1>7, <2>0, <2>1 DEF PresetButtons
  <2>2. CASE s.view # "list"
    BY <1>6, <2>0, <2>2 DEF PresetButtons
  <2> QED BY <2>1, <2>2
<1>10. CASE s.kind \in Adaptive
  <2>0. u \in AdaptiveButtons(m)
    <3>1. Buttons(m) = AdaptiveButtons(m)
      BY <1>10 DEF Buttons, Adaptive
    <3> QED BY <3>1
  <2>1. CASE s.kind = "excluded"
    <3>1. s.view = "list"
      BY <1>1, <2>1 DEF ScreenSound
    <3>2. u \in RowsOf(m, "include")
      BY <2>0, <2>1 DEF AdaptiveButtons
    <3> QED BY <1>5, <3>1, <3>2
  <2>2. CASE s.kind # "excluded" /\ s.view = "list"
    BY <1>5, <1>7, <2>0, <2>2 DEF AdaptiveButtons
  <2>3. CASE s.kind # "excluded" /\ s.view # "list"
    BY <1>6, <2>0, <2>3 DEF AdaptiveButtons
  <2> QED BY <2>1, <2>2, <2>3
<1>11. CASE s.kind = "dns"
  <2>1. u = This(m, "apply")
    <3>1. Buttons(m) = DNSButtons(m)
      BY <1>11 DEF Buttons, Adaptive
    <3> QED BY <3>1 DEF DNSButtons
  <2>2. s.view = "list"
    BY <1>1, <1>11 DEF ScreenSound
  <2> QED BY <1>1, <1>3, <2>1, <2>2, UnderTrue DEF This, RowVerb, list
<1> QED BY <1>8, <1>9, <1>10, <1>11 DEF Buttons

LEMMA ElsewhereTrue ==
    ASSUME NEW m \in Message, NEW u \in Opens(m) \cup Asides(m) \cup Texts(m)
    PROVE  UpdateTrue(u)
<1>1. ASSUME NEW verb, NEW k, NEW r PROVE Update(verb, m, k, r, 0, <<>>).own = FALSE
  BY DEF Update
<1>2. CASE u \in Opens(m)
  BY <1>1, <1>2 DEF Opens, UpdateTrue
<1>3. CASE u \in AboutRouters(m)
  <2>1. PICK verb \in {"ask", "delete", "name", "source", "id", "slash"}, r \in Elsewhere :
           u = Update(verb, m, NoKind, r, 0, <<>>)
    BY <1>3 DEF AboutRouters
  <2> QED BY <1>1, <2>1 DEF UpdateTrue
<1>4. CASE u \in PresetUpdates(m)
  BY <1>1, <1>4 DEF PresetUpdates, UpdateTrue
<1>5. CASE u \in Cancels(m)
  <2>1. u.own = FALSE
    BY <1>5 DEF Cancels, Update
  <2> QED BY <2>1 DEF UpdateTrue
<1>6. CASE u \in Texts(m)
  <2>1. PICK verb \in {"text", "file"}, b \in BOOLEAN, r \in Elsewhere :
           u = [Update(verb, m, NoKind, r, 0, <<>>) EXCEPT !.valid = b]
    BY <1>6 DEF Texts
  <2>2. u.own = FALSE
    BY <2>1 DEF Update
  <2> QED BY <2>2 DEF UpdateTrue
<1> QED BY <1>2, <1>3, <1>4, <1>5, <1>6 DEF Asides

LEMMA OperatorTrue ==
    ASSUME MenuSound, Truth, Operator
    PROVE  Truth'
<1>0. PICK m \in Message : \E u \in Buttons(m) \cup Opens(m) \cup Asides(m) \cup Texts(m) : SendUpdate(u)
  BY DEF Operator, Taps, GoesElsewhere, Types
<1>1. PICK u \in Buttons(m) \cup Opens(m) \cup Asides(m) \cup Texts(m) : SendUpdate(u)
  BY <1>0
<1>2. inbox' = Append(inbox, u) /\ UNCHANGED <<cached, jobs, queue, screen>> /\ tapped < MaxTaps
  BY <1>1 DEF SendUpdate, bot
<1>3. u \in UpdateRecord
  BY <1>2, ButtonsSound
<1>4. UpdateTrue(u)
  BY ButtonsTrue, ElsewhereTrue DEF Truth
<1>5. inbox \in Seq(UpdateRecord) /\ DOMAIN inbox = 1 .. Len(inbox) /\ Len(inbox) \in Nat
  BY LenProperties DEF MenuSound, InboxTyped
<1>6. /\ DOMAIN inbox' = 1 .. (Len(inbox) + 1) /\ inbox'[Len(inbox) + 1] = u
      /\ \A i \in 1 .. Len(inbox) : inbox'[i] = inbox[i]
  BY <1>2, <1>3, <1>5, AppendProperties, LenProperties
<1>7. ASSUME NEW i \in DOMAIN inbox' PROVE UpdateTrue(inbox'[i])
  <2>1. CASE i \in DOMAIN inbox
    BY <1>5, <1>6, <2>1 DEF Truth, AllTrue
  <2>2. CASE i \notin DOMAIN inbox
    BY <1>4, <1>5, <1>6, <2>2
  <2> QED BY <2>1, <2>2
<1>8. AllTrue'
  BY <1>2, <1>7, TruthStays DEF Truth, AllTrue
<1> QED BY <1>2, <1>8, QueueTrue DEF Truth

LEMMA InitTrue == MenuInit => Truth
<1> SUFFICES ASSUME MenuInit PROVE Truth
  OBVIOUS
<1>1. /\ screen = [m \in Message |-> Plain] /\ jobs = [j \in Tap |-> NoJob]
      /\ inbox = <<>> /\ queue = [r \in Router |-> <<>>]
  BY DEF MenuInit
<1>2. Plain.own = FALSE /\ NoJob.own = FALSE
  BY DEF Plain, NoJob
<1>3. DOMAIN inbox = {} /\ \A r \in Router : DOMAIN queue[r] = {}
  BY <1>1
<1>4. AllTrue
  BY <1>1, <1>2, <1>3 DEF AllTrue, ScreenTrue, JobTrue
<1> QED BY <1>3, <1>4 DEF Truth, DoesWhatItShowed

LEMMA NextTrue == MenuSound /\ Truth /\ [MenuNext]_menuVars => Truth'
<1> SUFFICES ASSUME MenuSound, Truth, [MenuNext]_menuVars PROVE Truth'
  OBVIOUS
<1>1. ASSUME UNCHANGED <<cached, jobs, inbox, screen, queue>> PROVE Truth'
  BY <1>1, TruthStays, QueueTrue DEF Truth, AllTrue
<1>2. CASE TelegramBot
  BY <1>2, GetUpdatesTrue, HandleTrue, LoopTrue, GoroutineTrue DEF TelegramBot
<1>3. CASE World
  <2>1. ASSUME NEW r \in Router, GoesOffline(r) \/ ComesBack(r) PROVE Truth'
    BY <1>1, <2>1 DEF GoesOffline, ComesBack, bot, telegram
  <2>2. ASSUME NEW k, NEW r, Drift(k, r) PROVE Truth'
    BY <1>1, <2>2 DEF Drift, bot, telegram
  <2> QED BY <1>3, <2>1, <2>2, ExecuteTrue, GetUpdatesTrue, RestartTrue DEF World
<1>4. CASE Operator
  BY <1>4, OperatorTrue
<1>5. CASE UNCHANGED menuVars
  BY <1>1, <1>5 DEF menuVars, bot, telegram
<1> QED BY <1>2, <1>3, <1>4, <1>5 DEF MenuNext

(* A button acts on the row it showed unless the list it was drawn from has been replaced
   (setRouteMenu, storeAdaptiveMenu, and the redrawing that follows each). *)
THEOREM RightRow == MenuSpec => []DoesWhatItShowed
<1>1. MenuInit => Truth
  BY InitTrue
<1>2. MenuSound /\ Truth /\ [MenuNext]_menuVars => Truth'
  BY NextTrue
<1>3. Truth => DoesWhatItShowed
  BY DEF Truth
<1> QED BY <1>1, <1>2, <1>3, AlwaysSound, PTL DEF MenuSpec

-----------------------------------------------------------------------------
(* An update is handled once in each life of the server *)

LEMMA CountStays ==
    ASSUME Counted, UNCHANGED <<done, restarts>>, DOMAIN inbox' = DOMAIN inbox,
           \A i \in DOMAIN inbox : inbox'[i].times = inbox[i].times
    PROVE  Counted'
BY DEF Counted

LEMMA TimesAreNumbers ==
    ASSUME InboxTyped, NEW i \in DOMAIN inbox
    PROVE  inbox[i].times \in Nat /\ i \in Nat
<1>1. inbox \in Seq(UpdateRecord) /\ i \in 1 .. Len(inbox) /\ Len(inbox) \in Nat
  BY LenProperties DEF InboxTyped
<1>2. inbox[i] \in UpdateRecord
  BY <1>1, ElementOfSeq
<1>3. \A w \in UpdateRecord : w.times \in Nat
  BY DEF UpdateRecord
<1> QED BY <1>1, <1>2, <1>3

LEMMA GoroutineCounts ==
    ASSUME MenuSound, Counted, NEW j \in Tap, Goroutine(j)
    PROVE  Counted'
<1>1. CASE SetOne(j) \/ StoreAdaptive(j)
  <2>1. inbox' = [i \in DOMAIN inbox |-> Disown(inbox[i])] /\ UNCHANGED <<done, fetched, tapped, restarts>>
    BY <1>1 DEF SetOne, StoreAdaptive, Store, world
  <2>2. DOMAIN inbox' = DOMAIN inbox /\ \A i \in DOMAIN inbox : inbox'[i].times = inbox[i].times
    BY <2>1, InboxDisowned DEF MenuSound
  <2> QED BY <2>1, <2>2, CountStays
<1>2. CASE ~ (SetOne(j) \/ StoreAdaptive(j))
  <2>1. UNCHANGED <<inbox, done, restarts>>
    BY <1>2 DEF Goroutine, GivesUp, RouteActed, PresetActed, DNSActed, AdaptiveActed, AdaptiveRefused, Asked,
          NotLoaded, ReadAdaptive, Edit, AskAgain, telegram, world
  <2> QED BY <2>1, CountStays
<1> QED BY <1>1, <1>2

LEMMA HandleCounts ==
    ASSUME MenuSound, Counted, Handle
    PROVE  Counted'
<1>1. /\ inbox \in Seq(UpdateRecord) /\ DOMAIN inbox = 1 .. Len(inbox) /\ Len(inbox) \in Nat
      /\ done \in Nat /\ done + 1 \in DOMAIN inbox /\ restarts \in Nat
  BY LenProperties DEF MenuSound, InboxTyped, WorldTyped, Handle
<1>2. inbox' = [inbox EXCEPT ![done + 1].times = @ + 1] /\ done' = done + 1 /\ restarts' = restarts
  BY DEF Handle
<1>3. \A i \in DOMAIN inbox : inbox[i].times \in Nat
  BY TimesAreNumbers DEF MenuSound
<1>4. /\ DOMAIN inbox' = DOMAIN inbox /\ \A i \in DOMAIN inbox : i # done + 1 => inbox'[i] = inbox[i]
      /\ inbox'[done + 1] = [inbox[done + 1] EXCEPT !.times = @ + 1]
  BY <1>1, <1>2
<1>5. inbox'[done + 1].times = inbox[done + 1].times + 1
  <2>1. inbox[done + 1] \in UpdateRecord
    BY <1>1, ElementOfSeq
  <2>2. ASSUME NEW w \in UpdateRecord PROVE [w EXCEPT !.times = @ + 1].times = w.times + 1
    BY DEF UpdateRecord
  <2> QED BY <1>4, <2>1, <2>2
<1>6. ASSUME NEW i \in DOMAIN inbox PROVE inbox'[i].times <= restarts + (IF i <= done + 1 THEN 1 ELSE 0)
  <2>1. inbox[i].times <= restarts + (IF i <= done THEN 1 ELSE 0) /\ i \in Nat
    BY <1>1 DEF Counted
  <2>2. CASE i = done + 1
    BY <1>1, <1>3, <1>5, <2>1, <2>2
  <2>3. CASE i # done + 1
    BY <1>1, <1>3, <1>4, <2>1, <2>3
  <2> QED BY <2>2, <2>3
<1> QED BY <1>2, <1>4, <1>6 DEF Counted

LEMMA GetUpdatesCounts ==
    ASSUME MenuSound, Counted, GetUpdates \/ GetUpdatesFails
    PROVE  Counted'
<1>1. inbox' = SubSeq(inbox, done + 1, Len(inbox)) /\ done' = 0 /\ restarts' = restarts
  BY DEF GetUpdates, GetUpdatesFails, world
<1>2. /\ DOMAIN inbox' = 1 .. (Len(inbox) - done) /\ Len(inbox) \in Nat /\ done \in Nat
      /\ \A i \in 1 .. (Len(inbox) - done) : inbox'[i] = inbox[done + i] /\ done + i \in DOMAIN inbox
  BY <1>1, Confirmed, LenProperties DEF MenuSound, InboxTyped
<1>3. ASSUME NEW i \in DOMAIN inbox' PROVE inbox'[i].times <= restarts + (IF i <= 0 THEN 1 ELSE 0)
  <2>1. /\ inbox'[i] = inbox[done + i] /\ done + i \in DOMAIN inbox /\ i \in Nat /\ ~ (i <= 0)
        /\ ~ (done + i <= done)
    BY <1>2
  <2> QED BY <2>1 DEF Counted
<1> QED BY <1>1, <1>3 DEF Counted

LEMMA RestartCounts ==
    ASSUME MenuSound, Counted, Restart
    PROVE  Counted'
<1>1. /\ inbox' = [i \in DOMAIN inbox |-> Disown(inbox[i])] /\ done' = 0 /\ fetched' = 0
      /\ restarts' = restarts + 1 /\ UNCHANGED tapped
  BY DEF Restart
<1>2. DOMAIN inbox' = DOMAIN inbox /\ \A i \in DOMAIN inbox : inbox'[i].times = inbox[i].times
  BY <1>1, InboxDisowned DEF MenuSound
<1>3. DOMAIN inbox = 1 .. Len(inbox) /\ Len(inbox) \in Nat /\ done \in Nat /\ restarts \in Nat
      /\ inbox \in Seq(UpdateRecord)
  BY LenProperties DEF MenuSound, InboxTyped, WorldTyped
<1>4. ASSUME NEW i \in DOMAIN inbox PROVE inbox'[i].times <= restarts + 1 + (IF i <= 0 THEN 1 ELSE 0)
  <2>1. inbox[i].times <= restarts + (IF i <= done THEN 1 ELSE 0) /\ inbox'[i].times = inbox[i].times
    BY <1>2 DEF Counted
  <2>2. inbox[i].times \in Nat /\ i \in Nat /\ ~ (i <= 0)
    BY <1>3, TimesAreNumbers DEF MenuSound
  <2> QED BY <1>3, <2>1, <2>2
<1> QED BY <1>1, <1>2, <1>4 DEF Counted

LEMMA OperatorCounts ==
    ASSUME MenuSound, Counted, Operator
    PROVE  Counted'
<1>0. PICK m \in Message : \E u \in Buttons(m) \cup Opens(m) \cup Asides(m) \cup Texts(m) : SendUpdate(u)
  BY DEF Operator, Taps, GoesElsewhere, Types
<1>1. PICK u \in Buttons(m) \cup Opens(m) \cup Asides(m) \cup Texts(m) : SendUpdate(u)
  BY <1>0
<1>2. inbox' = Append(inbox, u) /\ UNCHANGED <<done, restarts>> /\ tapped < MaxTaps
  BY <1>1 DEF SendUpdate, world
<1>3. u \in UpdateRecord
  BY <1>2, ButtonsSound
<1>4. u.times = 0
  <2>1. ASSUME NEW verb, NEW k, NEW r, NEW i, NEW seen PROVE Update(verb, m, k, r, i, seen).times = 0
    BY DEF Update
  <2>2. ASSUME NEW verb, NEW i, NEW seen PROVE Under(m, verb, i, seen).times = 0
    BY DEF Under, Update
  <2>3. ASSUME u \in Buttons(m) PROVE u.times = 0
    <3>1. \/ u \in RouteButtons(m) \/ u \in PresetButtons(m) \/ u \in AdaptiveButtons(m) \/ u \in DNSButtons(m)
      BY <2>3 DEF Buttons, Adaptive
    <3>2. ASSUME NEW verb, NEW x \in RowsOf(m, verb) PROVE x.times = 0
      BY <2>2, <3>2 DEF RowsOf
    <3>3. \A verb : This(m, verb).times = 0
      BY <2>2 DEF This
    <3>4. [This(m, "entries") EXCEPT !.del = TRUE].times = 0
      BY DEF This, Under, Update
    <3>5. u \in RouteButtons(m) => u.times = 0
      BY <3>2, <3>3, <3>4 DEF RouteButtons
    <3> QED BY <2>2, <3>1, <3>2, <3>3, <3>5 DEF PresetButtons, AdaptiveButtons, DNSButtons
  <2>4. ASSUME u \in Opens(m) PROVE u.times = 0
    BY <2>1, <2>4 DEF Opens
  <2>5. ASSUME u \in AboutRouters(m) PROVE u.times = 0
    <3>1. PICK verb \in {"ask", "delete", "name", "source", "id", "slash"}, r \in Elsewhere :
             u = Update(verb, m, NoKind, r, 0, <<>>)
      BY <2>5 DEF AboutRouters
    <3> QED BY <2>1, <3>1
  <2>6. ASSUME u \in PresetUpdates(m) PROVE u.times = 0
    BY <2>1, <2>6 DEF PresetUpdates
  <2>7. ASSUME u \in Cancels(m) PROVE u.times = 0
    BY <2>7 DEF Cancels, Update
  <2>8. ASSUME u \in Texts(m) PROVE u.times = 0
    <3>1. PICK verb \in {"text", "file"}, b \in BOOLEAN, r \in Elsewhere :
             u = [Update(verb, m, NoKind, r, 0, <<>>) EXCEPT !.valid = b]
      BY <2>8 DEF Texts
    <3> QED BY <3>1 DEF Update
  <2> QED BY <2>3, <2>4, <2>5, <2>6, <2>7, <2>8 DEF Asides
<1>5. /\ inbox \in Seq(UpdateRecord) /\ DOMAIN inbox = 1 .. Len(inbox) /\ Len(inbox) \in Nat
      /\ done \in Nat /\ restarts \in Nat
  BY LenProperties DEF MenuSound, InboxTyped, WorldTyped
<1>6. /\ DOMAIN inbox' = 1 .. (Len(inbox) + 1) /\ inbox'[Len(inbox) + 1] = u
      /\ \A i \in 1 .. Len(inbox) : inbox'[i] = inbox[i]
  BY <1>2, <1>3, <1>5, AppendProperties, LenProperties
<1>7. ASSUME NEW i \in DOMAIN inbox' PROVE inbox'[i].times <= restarts + (IF i <= done THEN 1 ELSE 0)
  <2>1. CASE i \in DOMAIN inbox
    BY <1>5, <1>6, <2>1 DEF Counted
  <2>2. CASE i \notin DOMAIN inbox
    <3>1. inbox'[i].times = 0 /\ i \in Nat
      BY <1>4, <1>5, <1>6, <2>2
    <3> QED BY <1>5, <3>1
  <2> QED BY <2>1, <2>2
<1> QED BY <1>2, <1>7 DEF Counted

(* However many answers of getUpdates are lost, no update is handled twice in one life of the
   server (Run, getUpdates). *)
THEOREM OncePerLife == MenuSpec => []HandledOncePerLife
<1>1. MenuInit => Counted
  BY EmptySeq DEF MenuInit, Counted
<1>2. MenuSound /\ Counted /\ [MenuNext]_menuVars => Counted'
  <2> SUFFICES ASSUME MenuSound, Counted, [MenuNext]_menuVars PROVE Counted'
    OBVIOUS
  <2>1. ASSUME UNCHANGED <<inbox, done, restarts>> PROVE Counted'
    BY <2>1, CountStays
  <2>2. CASE TelegramBot
    <3>1. ASSUME LoopGoesOn PROVE Counted'
      BY <2>1, <3>1 DEF LoopGoesOn, telegram, world
    <3> QED BY <2>2, <3>1, GetUpdatesCounts, HandleCounts, GoroutineCounts DEF TelegramBot
  <2>3. CASE World
    <3>1. ASSUME NEW r, Execute(r) \/ GoesOffline(r) \/ ComesBack(r) PROVE Counted'
      BY <2>1, <3>1 DEF Execute, GoesOffline, ComesBack, telegram
    <3>2. ASSUME NEW k, NEW r, Drift(k, r) PROVE Counted'
      BY <2>1, <3>2 DEF Drift, telegram
    <3> QED BY <2>3, <3>1, <3>2, GetUpdatesCounts, RestartCounts DEF World
  <2>4. CASE Operator
    BY <2>4, OperatorCounts
  <2>5. CASE UNCHANGED menuVars
    BY <2>1, <2>5 DEF menuVars, telegram, world
  <2> QED BY <2>2, <2>3, <2>4, <2>5 DEF MenuNext
<1>3. MenuSound /\ Counted => HandledOncePerLife
  <2> SUFFICES ASSUME MenuSound, Counted, NEW i \in DOMAIN inbox PROVE inbox[i].times <= 1 + restarts
    BY DEF HandledOncePerLife
  <2>1. /\ inbox \in Seq(UpdateRecord) /\ DOMAIN inbox = 1 .. Len(inbox) /\ restarts \in Nat
    BY LenProperties DEF MenuSound, InboxTyped, WorldTyped
  <2>2. inbox[i].times \in Nat
    BY TimesAreNumbers DEF MenuSound
  <2>3. inbox[i].times <= restarts + (IF i <= done THEN 1 ELSE 0)
    BY DEF Counted
  <2> QED BY <2>1, <2>2, <2>3
<1> QED BY <1>1, <1>2, <1>3, AlwaysSound, PTL DEF MenuSpec

=============================================================================
