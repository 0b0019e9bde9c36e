--------------------------- MODULE CommandDelivery ---------------------------
(***************************************************************************)
(* What the command queue promises an operator, seen from outside: a       *)
(* command put in the queue leaves it in order, is run by the router at    *)
(* most once, and the next one is not fetched before the result of the     *)
(* last one has been handed over.  It may be lost on the way: nothing here *)
(* says that it arrives, only that it never arrives twice.                 *)
(* BotControl implements this with a persisted store, HTTP requests that   *)
(* can be lost or late, and an agent that polls.                           *)
(***************************************************************************)
EXTENDS Naturals, Sequences

CONSTANT Command

VARIABLES status,   \* how far each command has come
          line      \* the commands waiting, oldest first

Statuses == {"new", "queued", "taken", "running", "done", "reported", "lost"}

deliveryVars == <<status, line>>

Init == /\ status = [c \in Command |-> "new"]
        /\ line = <<>>

\* The router is busy with a command, or holds a result not yet handed over.
Busy == \E c \in Command : status[c] \in {"taken", "running", "done"}

Queue(c) == /\ status[c] = "new"
            /\ status' = [status EXCEPT ![c] = "queued"]
            /\ line' = Append(line, c)

Take == /\ line # <<>>
        /\ ~ Busy
        /\ status' = [status EXCEPT ![Head(line)] = "taken"]
        /\ line' = Tail(line)

\* One command moves on: from, to.
Move(c, from, to) == /\ status[c] = from
                     /\ status' = [status EXCEPT ![c] = to]
                     /\ UNCHANGED line

Run(c) == Move(c, "taken", "running")
Complete(c) == Move(c, "running", "done")
Report(c) == Move(c, "done", "reported")

(***************************************************************************)
(* Commands S are lost: those at the two ends of the line, of which line m *)
(* to n is left, and perhaps the one the router has.                       *)
(***************************************************************************)
Lose(S, m, n) ==
    /\ \A c \in S : status[c] \in {"queued", "taken", "running", "done"}
    /\ \A i \in 1 .. Len(line) : line[i] \in S <=> i \notin m .. n
    /\ status' = [c \in Command |-> IF c \in S THEN "lost" ELSE status[c]]
    /\ line' = SubSeq(line, m, n)

Next == \/ \E c \in Command : Queue(c) \/ Run(c) \/ Complete(c) \/ Report(c)
        \/ Take
        \/ \E S \in SUBSET Command, m \in 1 .. Len(line) + 1, n \in 0 .. Len(line) :
              Lose(S, m, n)

Spec == Init /\ [][Next]_deliveryVars
=============================================================================
