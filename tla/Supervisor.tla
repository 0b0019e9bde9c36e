------------------------------ MODULE Supervisor ------------------------------
(***************************************************************************)
(* xrayctl.Supervisor: keeps one child process running on a configuration  *)
(* file (internal/xrayctl/supervisor.go).                                  *)
(*                                                                         *)
(* Start launches a goroutine, the supervise loop; Stop cancels the loop's *)
(* context and waits for it to end.  The loop runs the child, calls        *)
(* OnRestart when the child has ended by itself, waits and runs it again.  *)
(* How long it waits (the backoff) is left open.                           *)
(*                                                                         *)
(* A module that extends this one says who calls Start and Stop, what      *)
(* OnRestart does (from "onRestart" to "pause") and who writes the file.   *)
(***************************************************************************)
CONSTANTS
    Loop,      \* supervise loops: more than one only if Stop did not wait
    Content,   \* what the configuration file may say
    None

ASSUME SupervisorAssumption ==
    None \notin Loop \cup Content \cup {"fresh"} /\ "fresh" \notin Content

VARIABLES
    cancel,    \* the loop s.cancel belongs to
    cmd,       \* the loop s.cmd belongs to: Running()
    at,        \* where each loop is; "gone": its channel stopped is closed
    cancelled, \* its context is done
    child,     \* its process: fresh, or the configuration it has read
    file       \* the configuration file

supVars == <<cancel, cmd, at, cancelled, child>>

Steps == {"launch", "exec", "run", "exited", "ended", "onRestart", "loadTime",
          "add", "trip", "pause", "gone"}

SupInit == /\ cancel = None /\ cmd = None
           /\ at = [l \in Loop |-> "gone"]
           /\ cancelled = [l \in Loop |-> FALSE]
           /\ child = [l \in Loop |-> None]

Goto(l, step) == at' = [at EXCEPT ![l] = step]
-----------------------------------------------------------------------------
(* Start and Stop *)

\* A new loop, with a context and a channel of its own.  One name for it is as
\* good as another.
Free == {l \in Loop : at[l] = "gone"}
Start == /\ cancel = None /\ Free # {}
         /\ LET l == CHOOSE l \in Free : TRUE
            IN  /\ Goto(l, "launch")
                /\ cancel' = l
                /\ cancelled' = [cancelled EXCEPT ![l] = FALSE]
         /\ UNCHANGED <<cmd, child>>

\* The first half of Stop; the second is to wait for the loop to be gone.
Cancel == /\ cancel # None
          /\ cancelled' = [cancelled EXCEPT ![cancel] = TRUE]
          /\ cancel' = None
          /\ UNCHANGED <<cmd, at, child>>

Gone(l) == at[l] = "gone"
-----------------------------------------------------------------------------
(* superviseLoop and runOnce *)

SetCmd(l) == /\ at[l] = "launch"
             /\ cmd' = l
             /\ Goto(l, "exec")
             /\ UNCHANGED <<cancel, cancelled, child>>

\* cmd.Run launches nothing once the context is done, and may fail.
NoExec(l) == /\ at[l] = "exec"
             /\ Goto(l, "exited")
             /\ UNCHANGED <<cancel, cmd, cancelled, child>>

Exec(l) == /\ at[l] = "exec" /\ ~ cancelled[l]
           /\ child' = [child EXCEPT ![l] = "fresh"]
           /\ Goto(l, "run")
           /\ UNCHANGED <<cancel, cmd, cancelled>>

\* The new process reads its configuration.
ReadsConfig(l) == /\ child[l] = "fresh"
                  /\ child' = [child EXCEPT ![l] = file]
                  /\ UNCHANGED <<cancel, cmd, at, cancelled>>

\* The process ends: by itself, or terminated and at last killed.
ChildExits(l) == /\ at[l] = "run"
                 /\ child' = [child EXCEPT ![l] = None]
                 /\ Goto(l, "exited")
                 /\ UNCHANGED <<cancel, cmd, cancelled>>

ClearCmd(l) == /\ at[l] = "exited"
               /\ cmd' = None
               /\ Goto(l, "ended")
               /\ UNCHANGED <<cancel, cancelled, child>>

\* The loop ends after a run, or while it waits, once Stop has been called.
LoopEnds(l) == /\ at[l] \in {"ended", "pause"} /\ cancelled[l]
               /\ Goto(l, "gone")
               /\ UNCHANGED <<cancel, cmd, cancelled, child>>

\* The child ended by itself.
Crashed(l) == /\ at[l] = "ended" /\ ~ cancelled[l]
              /\ Goto(l, "onRestart")
              /\ UNCHANGED <<cancel, cmd, cancelled, child>>

\* The timer; select may take it even when the context is done as well.
PauseOver(l) == /\ at[l] = "pause"
                /\ Goto(l, "launch")
                /\ UNCHANGED <<cancel, cmd, cancelled, child>>

\* The steps of a loop but for Crashed, which calls OnRestart.
LoopStep(l) == \/ SetCmd(l) \/ NoExec(l) \/ Exec(l) \/ ReadsConfig(l) \/ ChildExits(l)
               \/ ClearCmd(l) \/ LoopEnds(l) \/ PauseOver(l)
-----------------------------------------------------------------------------
SupTypeOK == /\ cancel \in Loop \cup {None} /\ cmd \in Loop \cup {None}
             /\ at \in [Loop -> Steps]
             /\ cancelled \in [Loop -> BOOLEAN]
             /\ child \in [Loop -> Content \cup {"fresh", None}]
             /\ file \in Content

\* However Start and Stop meet crashes and restarts, at most one child runs at
\* a time: the ports and the TUN device it holds can be held only once
\* (Stop's wait for the supervise loop).
OneChild == \A l, m \in Loop : child[l] # None /\ child[m] # None => l = m
=============================================================================
