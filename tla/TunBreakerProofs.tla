--------------------------- MODULE TunBreakerProofs ---------------------------
(***************************************************************************)
(* The safety properties of TunBreaker and of the Supervisor in it, for    *)
(* any crash limit of three or more and any number of events.              *)
(***************************************************************************)
EXTENDS TunBreaker, TLAPS

-----------------------------------------------------------------------------
(* Types *)

\* The type invariant in parts: the supervisor, the flags, and the rest.
Flags == /\ opts \in BOOLEAN /\ tunLive \in BOOLEAN /\ enabled \in BOOLEAN
         /\ device \in BOOLEAN /\ sick \in BOOLEAN /\ trouble \in BOOLEAN
         /\ holding \in BOOLEAN

Ranges == /\ run \in {"idle", "switch", "write", "noteLive", "noteTime", "noteCrashes",
                      "noteTrip", "stop", "wait", "start", "lastStop", "lastWait",
                      "returned"}
          /\ waits \in Loop \cup {None}
          /\ tunCrashes \in 0 .. CrashLimit /\ liveCrashes \in 0 .. CrashLimit
          /\ written \in {"recently", "before"}
          /\ tripped \in {"never", "lately", "before"}
          /\ drops \in Nat /\ events \in 0 .. MaxEvents

\* The parts are the type invariant.
LEMMA PartsAreTypeOK == SupTypeOK /\ Flags /\ Ranges <=> TypeOK
BY DEF Flags, Ranges, TypeOK

\* Counting a crash stays in range.
LEMMA OneMoreInRange ==
    ASSUME NEW n \in 0 .. CrashLimit
    PROVE  /\ OneMore(n) \in 0 .. CrashLimit
           /\ OneMore(n) >= n
           /\ OneMore(n) = n + 1 \/ OneMore(n) = CrashLimit
           /\ OneMore(n) <= n + 1
BY CrashLimitAssumption DEF OneMore

\* So does counting an event.
LEMMA EventInRange == Ranges /\ Event => events' \in 0 .. MaxEvents
BY MaxEventsAssumption DEF Ranges, Event

\* A new loop is one that was gone.
LEMMA StartsAFreeLoop ==
    ASSUME Start
    PROVE  \E l \in Loop : /\ cancel = None /\ at[l] = "gone"
                           /\ at' = [at EXCEPT ![l] = "launch"]
                           /\ cancel' = l
                           /\ cancelled' = [cancelled EXCEPT ![l] = FALSE]
                           /\ UNCHANGED <<cmd, child>>
<1> DEFINE l == CHOOSE l \in Free : TRUE
<1>1. l \in Free
  BY DEF Start
<1>2. l \in Loop /\ at[l] = "gone"
  BY <1>1 DEF Free
<1> QED BY <1>2 DEF Start, Goto

\* Start and Stop and the steps of the loops keep the supervisor's types.
LEMMA SupervisorTypes ==
    ASSUME SupTypeOK, Start \/ Cancel \/ (\E l \in Loop : LoopStep(l) \/ Crashed(l)),
           UNCHANGED file
    PROVE  SupTypeOK'
<1> USE DEF SupTypeOK
<1>1. CASE Start
  <2>1. PICK l \in Loop : /\ at' = [at EXCEPT ![l] = "launch"]
                          /\ cancel' = l
                          /\ cancelled' = [cancelled EXCEPT ![l] = FALSE]
                          /\ UNCHANGED <<cmd, child>>
    BY <1>1, StartsAFreeLoop
  <2> QED BY <2>1 DEF Steps
<1>2. CASE Cancel
  BY <1>2 DEF Cancel
<1>3. ASSUME NEW l \in Loop, LoopStep(l) PROVE SupTypeOK'
  <2>1. CASE SetCmd(l)
    BY <2>1 DEF SetCmd, Goto, Steps
  <2>2. CASE NoExec(l)
    BY <2>2 DEF NoExec, Goto, Steps
  <2>3. CASE Exec(l)
    BY <2>3 DEF Exec, Goto, Steps
  <2>4. CASE ReadsConfig(l)
    BY <2>4 DEF ReadsConfig, Goto, Steps
  <2>5. CASE ChildExits(l)
    BY <2>5 DEF ChildExits, Goto, Steps
  <2>6. CASE ClearCmd(l)
    BY <2>6 DEF ClearCmd, Goto, Steps
  <2>7. CASE LoopEnds(l)
    BY <2>7 DEF LoopEnds, Goto, Steps
  <2>8. CASE PauseOver(l)
    BY <2>8 DEF PauseOver, Goto, Steps
  <2> QED BY <1>3, <2>1, <2>2, <2>3, <2>4, <2>5, <2>6, <2>7, <2>8 DEF LoopStep
<1>4. ASSUME NEW l \in Loop, Crashed(l) PROVE SupTypeOK'
  BY <1>4 DEF Crashed, Goto, Steps
<1> QED BY <1>1, <1>2, <1>3, <1>4

\* A step of the callback keeps them.
LEMMA CallbackTypes ==
    ASSUME SupTypeOK, NEW l \in Loop, NEW here, NEW next \in Steps, InCallback(l, here, next)
    PROVE  SupTypeOK' /\ UNCHANGED <<run, waits, opts, enabled, device, sick, events, trouble>>
BY DEF SupTypeOK, InCallback, Goto, runVars, envVars

\* The flags are assigned Boolean values only.
LEMMA NextFlags == Flags /\ [Next]_vars => Flags'
<1> SUFFICES ASSUME Flags, [Next]_vars PROVE Flags'
  OBVIOUS
<1> USE DEF Flags
<1>1. CASE Switch
  BY <1>1 DEF Switch, tunVars
<1>2. CASE Reload
  BY <1>2 DEF Reload
<1>3. CASE Refresh
  BY <1>3 DEF Refresh, tunVars, envVars
<1>4. CASE Drop
  BY <1>4 DEF Drop, envVars
<1>5. CASE GiveUp
  BY <1>5 DEF GiveUp, runVars
<1>6. CASE SwitchFails
  BY <1>6 DEF SwitchFails, tunVars
<1>7. CASE SwitchStep
  <2>1. CASE ReadOptions
    BY <2>1 DEF ReadOptions, Wanted, tunVars, envVars
  <2>2. CASE NoteLive
    BY <2>2 DEF NoteLive, envVars
  <2>3. CASE WriteFile \/ NoteTime \/ NoteCrashes \/ NoteTrip \/ StartAgain
    BY <2>3 DEF WriteFile, NoteTime, NoteCrashes, NoteTrip, StartAgain, tunVars, envVars
  <2>4. ASSUME NEW here, NEW wait, NEW done, Stop(here, wait, done) \/ Stopped(wait, done)
        PROVE Flags'
    BY <2>4 DEF Stop, Stopped, tunVars, envVars
  <2> QED BY <1>7, <2>1, <2>2, <2>3, <2>4 DEF SwitchStep
<1>8. CASE Shutdown \/ WindowEnds \/ RetryDue \/ DeviceChanges
  BY <1>8 DEF Shutdown, WindowEnds, RetryDue, DeviceChanges, runVars, tunVars, envVars
<1>9. ASSUME NEW l \in Loop, Supervise(l) \/ Crash(l) PROVE Flags'
  BY <1>9 DEF Supervise, Crash, runVars, tunVars, envVars
<1>10. ASSUME NEW l \in Loop, NoteTunCrash(l) PROVE Flags'
  <2>1. UNCHANGED <<runVars, envVars, tunLive>> /\ holding' \in BOOLEAN
    BY <1>10 DEF NoteTunCrash, LoadLive, LoadTime, Add, Trip, InCallback, tunVars
  <2> QED BY <2>1 DEF runVars, envVars
<1>11. CASE UNCHANGED vars
  BY <1>11 DEF vars, runVars, tunVars, envVars
<1> QED BY <1>1, <1>2, <1>3, <1>4, <1>5, <1>6, <1>7, <1>8, <1>9, <1>10, <1>11 DEF Next

\* Every other variable stays in its range.
LEMMA NextRanges == SupTypeOK /\ Flags /\ Ranges /\ [Next]_vars => SupTypeOK' /\ Ranges'
<1> SUFFICES ASSUME SupTypeOK, Flags, Ranges, [Next]_vars PROVE SupTypeOK' /\ Ranges'
  OBVIOUS
<1>a. ASSUME UNCHANGED <<supVars, file>> PROVE SupTypeOK'
  BY <1>a DEF SupTypeOK, supVars
<1>b. ASSUME UNCHANGED supVars, file' \in Content PROVE SupTypeOK'
  BY <1>b DEF SupTypeOK, supVars
<1>1. CASE Switch \/ Reload \/ Refresh \/ Drop \/ GiveUp \/ Shutdown
  <2>1. Ranges'
    <3>1. CASE Switch \/ Refresh \/ Shutdown
      <4>1. /\ run' \in {"switch", "lastStop"} /\ UNCHANGED <<waits, tunVars>>
            /\ events' \in 0 .. MaxEvents
        BY <3>1, EventInRange DEF Switch, Refresh, Shutdown, At, Ranges, envVars
      <4> QED BY <4>1 DEF Ranges, tunVars
    <3>2. CASE Reload
      <4>1. tripped' \in {"never", tripped} /\ run' = "switch"
            /\ UNCHANGED <<waits, tunCrashes, written, drops, liveCrashes>>
            /\ events' \in 0 .. MaxEvents
        BY <3>2, EventInRange DEF Reload, At
      <4> QED BY <4>1 DEF Ranges
    <3>3. CASE Drop
      BY <3>3 DEF Drop, At, Ranges, envVars
    <3>4. CASE GiveUp
      <4>1. /\ UNCHANGED <<runVars, tunCrashes, written, tripped, liveCrashes>>
            /\ drops > 0 /\ drops' = drops - 1 /\ events' \in 0 .. MaxEvents
        BY <3>4, EventInRange DEF GiveUp
      <4> QED BY <4>1 DEF Ranges, runVars
    <3> QED BY <1>1, <3>1, <3>2, <3>3, <3>4
  <2>2. UNCHANGED <<supVars, file>>
    BY <1>1 DEF Switch, Reload, Refresh, Drop, GiveUp, Shutdown
  <2> QED BY <2>1, <2>2, <1>a
<1>2. CASE SwitchFails
  <2>1. UNCHANGED <<supVars, waits, tunVars>> /\ run' = "idle"
    BY <1>2 DEF SwitchFails
  <2>2. events' \in 0 .. MaxEvents
    BY <1>2, EventInRange DEF SwitchFails
  <2>3. file' \in Content
    BY <1>2, ContentAssumption DEF SwitchFails, SupTypeOK
  <2> QED BY <2>1, <2>2, <2>3, <1>b DEF Ranges, tunVars
<1>3. CASE ReadOptions \/ WriteFile \/ NoteLive \/ NoteTime \/ NoteCrashes \/ NoteTrip
  <2>1. Ranges'
    <3>1. CASE ReadOptions \/ WriteFile \/ NoteLive
      BY <3>1 DEF ReadOptions, WriteFile, NoteLive, At, Ranges, tunVars, envVars
    <3>2. CASE NoteTime \/ NoteTrip
      BY <3>2 DEF NoteTime, NoteTrip, At, Ranges, tunVars, envVars
    <3>3. CASE NoteCrashes
      <4>1. run' \in {"noteTrip", "stop"} /\ 0 \in 0 .. CrashLimit
        BY <3>3, CrashLimitAssumption DEF NoteCrashes, At
      <4> QED BY <3>3, <4>1 DEF NoteCrashes, Ranges, tunVars, envVars
    <3> QED BY <1>3, <3>1, <3>2, <3>3
  <2>2. UNCHANGED supVars /\ file' \in Content
    BY <1>3, ContentAssumption DEF ReadOptions, WriteFile, NoteLive, NoteTime, NoteCrashes,
            NoteTrip, SupTypeOK
  <2> QED BY <2>1, <2>2, <1>b
<1>4. ASSUME NEW here, NEW wait \in {"wait", "lastWait"}, NEW done \in {"start", "returned"},
             Stop(here, wait, done) \/ Stopped(wait, done) \/ StartAgain
      PROVE  SupTypeOK' /\ Ranges'
  <2>1. Ranges'
    BY <1>4 DEF Stop, Stopped, StartAgain, At, Ranges, SupTypeOK, tunVars, envVars
  <2>2. UNCHANGED <<supVars, file>> \/ ((Start \/ Cancel) /\ UNCHANGED file)
    BY <1>4 DEF Stop, Stopped, StartAgain
  <2>3. SupTypeOK'
    BY <2>2, <1>a, SupervisorTypes
  <2> QED BY <2>1, <2>3
<1>5. ASSUME NEW l \in Loop, Supervise(l) PROVE SupTypeOK' /\ Ranges'
  <2>1. Ranges'
    BY <1>5 DEF Supervise, Ranges, runVars, tunVars, envVars
  <2> QED BY <1>5, <2>1, SupervisorTypes DEF Supervise
<1>6. ASSUME NEW l \in Loop, Crash(l) PROVE SupTypeOK' /\ Ranges'
  <2>1. OneMore(liveCrashes) \in 0 .. CrashLimit /\ 0 \in 0 .. CrashLimit
    BY OneMoreInRange, CrashLimitAssumption DEF Ranges
  <2>2. Ranges'
    BY <1>6, <2>1 DEF Crash, Ranges, runVars, envVars
  <2> QED BY <1>6, <2>2, SupervisorTypes DEF Crash
<1>7. ASSUME NEW l \in Loop, NoteTunCrash(l) PROVE SupTypeOK' /\ Ranges'
  <2>1. OneMore(tunCrashes) \in 0 .. CrashLimit
    BY OneMoreInRange DEF Ranges
  <2>2. SupTypeOK' /\ UNCHANGED <<run, waits, events>>
    BY <1>7, CallbackTypes DEF NoteTunCrash, LoadLive, LoadTime, Add, Trip, Steps
  <2>3. /\ tunCrashes' \in 0 .. CrashLimit /\ UNCHANGED <<liveCrashes, written>>
        /\ tripped' \in {"never", "lately", "before"} /\ drops' \in Nat
    BY <1>7, <2>1 DEF NoteTunCrash, LoadLive, LoadTime, Add, Trip, Ranges, tunVars
  <2> QED BY <2>2, <2>3 DEF Ranges
<1>8. CASE WindowEnds \/ RetryDue \/ DeviceChanges \/ UNCHANGED vars
  <2>1. Ranges'
    <3>1. CASE WindowEnds
      <4>1. UNCHANGED <<runVars, tunCrashes, tripped, drops, liveCrashes, envVars>>
            /\ written' = "before"
        BY <3>1 DEF WindowEnds
      <4> QED BY <4>1 DEF Ranges, runVars, envVars
    <3>2. CASE RetryDue
      BY <3>2 DEF RetryDue, Ranges, runVars, envVars
    <3>3. CASE DeviceChanges
      <4>1. UNCHANGED <<runVars, tunVars>> /\ events' \in 0 .. MaxEvents
        BY <3>3, EventInRange DEF DeviceChanges
      <4> QED BY <4>1 DEF Ranges, runVars, tunVars
    <3>4. CASE UNCHANGED vars
      BY <3>4 DEF Ranges, vars, runVars, tunVars, envVars
    <3> QED BY <1>8, <3>1, <3>2, <3>3, <3>4
  <2>2. UNCHANGED <<supVars, file>>
    BY <1>8 DEF WindowEnds, RetryDue, DeviceChanges, vars
  <2> QED BY <2>1, <2>2, <1>a
<1> QED BY <1>1, <1>2, <1>3, <1>4, <1>5, <1>6, <1>7, <1>8 DEF Next, SwitchStep

\* Initially everything is in its range.
LEMMA InitTyped == Init => SupTypeOK /\ Flags /\ Ranges
<1> SUFFICES ASSUME Init PROVE SupTypeOK /\ Flags /\ Ranges
  OBVIOUS
<1>1. SupTypeOK
  BY ContentAssumption DEF Init, SupInit, SupTypeOK, Steps
<1>2. Flags
  BY DEF Init, Flags
<1>3. Ranges
  BY CrashLimitAssumption, MaxEventsAssumption DEF Init, Ranges
<1> QED BY <1>1, <1>2, <1>3

\* Supervisor, flags, counters and the positions of all goroutines have their
\* types in every state (daemon.go:61-71).
THEOREM TypeCorrect == Spec => []TypeOK
<1>1. Init => TypeOK
  BY InitTyped, PartsAreTypeOK
<1>2. TypeOK /\ [Next]_vars => TypeOK'
  <2>1. SupTypeOK' /\ Flags' /\ Ranges' => TypeOK'
    BY DEF TypeOK, Flags, Ranges
  <2> QED BY <2>1, NextFlags, NextRanges, PartsAreTypeOK
<1> QED BY <1>1, <1>2, PTL DEF Spec

-----------------------------------------------------------------------------
(* One loop at a time *)

\* A loop that is not gone is the one to cancel, or the one Stop waits for, and
\* never is there one of each.
OnlyLoop == \A l \in Loop : at[l] # "gone" => l = cancel \/ l = waits
Waiting == run \in {"wait", "lastWait"} <=> waits # None
NotBoth == waits # None \/ run \in {"start", "returned"} => cancel = None

\* A loop is cancelled when it is no longer the one to cancel, and only a loop
\* that runs has a child.
NotCancelled == cancel # None => ~ cancelled[cancel]
ChildRuns == \A l \in Loop : child[l] # None => at[l] = "run"

Supervised == OnlyLoop /\ Waiting /\ NotBoth /\ NotCancelled /\ ChildRuns

\* Initially there is no loop.
LEMMA InitSupervised == Init => Supervised
BY DEF Init, SupInit, Supervised, OnlyLoop, Waiting, NotBoth, NotCancelled, ChildRuns

\* Every step keeps it.
LEMMA NextSupervised == TypeOK /\ Supervised /\ [Next]_vars => Supervised'
<1> SUFFICES ASSUME TypeOK, Supervised, [Next]_vars PROVE Supervised'
  OBVIOUS
<1> USE SupervisorAssumption DEF Supervised, OnlyLoop, Waiting, NotBoth, NotCancelled, ChildRuns
<1>a. SupTypeOK
  BY DEF TypeOK
<1>b. ASSUME UNCHANGED <<supVars, waits>>, run \notin {"wait", "lastWait"},
             run' \notin {"wait", "lastWait", "start", "returned"}
      PROVE  Supervised'
  BY <1>b DEF supVars
<1>c. ASSUME UNCHANGED <<supVars, runVars>> PROVE Supervised'
  BY <1>c DEF supVars, runVars
<1>1. CASE Switch \/ Reload \/ Refresh \/ Drop \/ SwitchFails \/ Shutdown \/ ReadOptions
           \/ WriteFile \/ NoteLive \/ NoteTime \/ NoteCrashes \/ NoteTrip
  BY <1>1, <1>b DEF Switch, Reload, Refresh, Drop, SwitchFails, Shutdown, ReadOptions, WriteFile,
                    NoteLive, NoteTime, NoteCrashes, NoteTrip, At
<1>2. CASE GiveUp \/ WindowEnds \/ RetryDue \/ DeviceChanges \/ UNCHANGED vars
  BY <1>2, <1>c DEF GiveUp, WindowEnds, RetryDue, DeviceChanges, vars
<1>3. ASSUME NEW here \in {"stop", "lastStop"}, NEW wait \in {"wait", "lastWait"},
             NEW done \in {"start", "returned"}, Stop(here, wait, done)
      PROVE  Supervised'
  <2>1. CASE Cancel /\ At(here, wait) /\ waits' = cancel
    BY <1>3, <1>a, <2>1 DEF Cancel, At, SupTypeOK
  <2>2. CASE cancel = None /\ At(here, done) /\ UNCHANGED <<supVars, waits>>
    BY <1>3, <2>2 DEF At, supVars
  <2> QED BY <1>3, <2>1, <2>2 DEF Stop
<1>4. ASSUME NEW wait \in {"wait", "lastWait"}, NEW done \in {"start", "returned"},
             Stopped(wait, done)
      PROVE  Supervised'
  BY <1>4 DEF Stopped, At, Gone, supVars
<1>5. CASE StartAgain
  <2>1. PICK l \in Loop : /\ at' = [at EXCEPT ![l] = "launch"]
                          /\ at[l] = "gone"
                          /\ cancel' = l
                          /\ cancelled' = [cancelled EXCEPT ![l] = FALSE]
                          /\ UNCHANGED child
    BY <1>5, StartsAFreeLoop DEF StartAgain
  <2>2. run = "start" /\ run' = "idle" /\ waits' = waits /\ waits = None
    BY <1>5 DEF StartAgain, At
  <2> QED BY <1>a, <2>1, <2>2 DEF SupTypeOK
<1>6. ASSUME NEW l \in Loop, Supervise(l) PROVE Supervised'
  <2>1. UNCHANGED <<run, waits>>
    BY <1>6 DEF Supervise, runVars
  <2>2. UNCHANGED <<cancel, cancelled>>
    BY <1>6 DEF Supervise, LoopStep, SetCmd, NoExec, Exec, ReadsConfig, ChildExits, ClearCmd,
                LoopEnds, PauseOver
  <2>3. \A m \in Loop : at'[m] # "gone" => at[m] # "gone"
    BY <1>6, <1>a DEF Supervise, LoopStep, SetCmd, NoExec, Exec, ReadsConfig, ChildExits, ClearCmd,
                LoopEnds, PauseOver, Goto, SupTypeOK
  <2>4. \A m \in Loop : child'[m] # None => at'[m] = "run"
    <3>1. CASE ReadsConfig(l)
      BY <1>a, <3>1 DEF ReadsConfig, SupTypeOK
    <3>2. CASE Exec(l)
      BY <1>a, <3>2 DEF Exec, Goto, SupTypeOK
    <3>4. CASE ChildExits(l)
      BY <1>a, <3>4 DEF ChildExits, Goto, SupTypeOK
    <3>3. CASE SetCmd(l) \/ NoExec(l) \/ ClearCmd(l) \/ LoopEnds(l) \/ PauseOver(l)
      <4>1. at[l] # "run" /\ UNCHANGED child
        BY <3>3 DEF SetCmd, NoExec, ClearCmd, LoopEnds, PauseOver
      <4>2. \A m \in Loop \ {l} : at'[m] = at[m]
        BY <1>a, <3>3 DEF SetCmd, NoExec, ClearCmd, LoopEnds, PauseOver, Goto, SupTypeOK
      <4> QED BY <4>1, <4>2
    <3> QED BY <1>6, <3>1, <3>2, <3>3, <3>4 DEF Supervise, LoopStep
  <2> QED BY <2>1, <2>2, <2>3, <2>4
<1>7. ASSUME NEW l \in Loop, Crash(l) \/ NoteTunCrash(l) PROVE Supervised'
  <2>1. UNCHANGED <<run, waits, cancel, cancelled, child>>
    BY <1>7 DEF Crash, Crashed, NoteTunCrash, LoadLive, LoadTime, Add, Trip, InCallback, runVars
  <2>2. PICK step : /\ at' = [at EXCEPT ![l] = step]
                    /\ at[l] \notin {"gone", "run"}
    BY <1>7 DEF Crash, Crashed, NoteTunCrash, LoadLive, LoadTime, Add, Trip, InCallback, Goto
  <2> QED BY <1>a, <2>1, <2>2 DEF SupTypeOK
<1> QED BY <1>1, <1>2, <1>3, <1>4, <1>5, <1>6, <1>7 DEF Next, SwitchStep

\* The supervisor's invariant holds throughout.
LEMMA AlwaysSupervised == Spec => [](TypeOK /\ Supervised)
<1>1. TypeOK /\ Supervised /\ [Next]_vars => TypeOK' /\ Supervised'
  <2>1. SupTypeOK' /\ Flags' /\ Ranges' => TypeOK'
    BY DEF TypeOK, Flags, Ranges
  <2> QED BY <2>1, NextFlags, NextRanges, PartsAreTypeOK, NextSupervised
<1> QED BY <1>1, InitTyped, InitSupervised, PartsAreTypeOK, PTL DEF Spec

\* At most one production child runs at a time (Stop waits for superviseLoop).
THEOREM OneChildAtATime == Spec => []OneChild
<1>1. TypeOK /\ Supervised => OneChild
  BY SupervisorAssumption DEF Supervised, OnlyLoop, NotBoth, ChildRuns, OneChild, TypeOK, SupTypeOK
<1> QED BY <1>1, AlwaysSupervised, PTL

\* Run leaves no child and no loop behind (its deferred prod.Stop).
THEOREM RunTakesItsChildDown == Spec => []NothingLeftBehind
<1>1. TypeOK /\ Supervised => NothingLeftBehind
  BY SupervisorAssumption DEF Supervised, OnlyLoop, Waiting, NotBoth, ChildRuns, NothingLeftBehind
<1> QED BY <1>1, AlwaysSupervised, PTL

-----------------------------------------------------------------------------
(* What is written and what runs *)

\* Once the file is written it says what was read of the options, and once
\* noteTunWritten has begun, so does tunLive, until the switch is done.
Written == run \in {"noteLive", "noteTime", "noteCrashes", "noteTrip", "stop", "wait", "start"}
Noted == run \in {"noteTime", "noteCrashes", "noteTrip", "stop", "wait", "start"}
AsRead == /\ Written => file = IF opts THEN "with" ELSE "without"
          /\ Noted => (tunLive <=> opts)

\* Every step keeps it, and with it what the files and children carry.
LEMMA NextWritten ==
    TypeOK /\ Supervised /\ AsRead /\ RunsWhatIsWritten /\ [Next]_vars
        => AsRead' /\ RunsWhatIsWritten'
<1> SUFFICES ASSUME TypeOK, Supervised, AsRead, RunsWhatIsWritten, [Next]_vars
             PROVE  AsRead' /\ RunsWhatIsWritten'
  OBVIOUS
<1> USE DEF AsRead, Written, Noted, RunsWhatIsWritten
<1>a. ASSUME UNCHANGED <<file, runVars, tunLive, child, trouble>>
      PROVE  AsRead' /\ RunsWhatIsWritten'
  BY <1>a DEF runVars
<1>b. ASSUME run' \in {"switch", "write", "lastStop", "lastWait", "returned"}
      PROVE  AsRead' /\ RunsWhatIsWritten'
  BY <1>b
<1>c. ASSUME trouble' = TRUE, run' = "idle" PROVE AsRead' /\ RunsWhatIsWritten'
  BY <1>c
<1>d. ASSUME UNCHANGED <<file, opts, tunLive>>, Noted, Noted' PROVE AsRead' /\ RunsWhatIsWritten'
  BY <1>d
<1>1. CASE Switch \/ Reload \/ Refresh \/ Drop \/ Shutdown \/ ReadOptions
           \/ Stop("lastStop", "lastWait", "returned") \/ Stopped("lastWait", "returned")
  BY <1>1, <1>b DEF Switch, Reload, Refresh, Drop, Shutdown, ReadOptions, Stop, Stopped, At
<1>2. CASE GiveUp
  BY <1>2 DEF GiveUp, runVars, supVars
<1>3. CASE SwitchFails
  BY <1>3, <1>c DEF SwitchFails
<1>4. CASE WriteFile
  BY <1>4 DEF WriteFile, At
<1>5. CASE NoteLive
  BY <1>5 DEF NoteLive, At
<1>6. CASE NoteTime \/ NoteCrashes \/ NoteTrip \/ Stop("stop", "wait", "start")
           \/ Stopped("wait", "start")
  BY <1>6, <1>d DEF NoteTime, NoteCrashes, NoteTrip, Stop, Stopped, At, tunVars
<1>7. CASE StartAgain
  <2>1. \A l \in Loop : at[l] = "gone" /\ child[l] = None
    BY <1>7, SupervisorAssumption DEF StartAgain, At, Supervised, OnlyLoop, Waiting, NotBoth,
           ChildRuns
  <2>2. UNCHANGED <<file, opts, tunLive, child>> /\ run = "start" /\ run' = "idle"
    BY <1>7 DEF StartAgain, Start, At, tunVars
  <2>3. tunLive <=> file = "with"
    BY <2>2
  <2> QED BY <2>1, <2>2, <2>3
<1>8. CASE WindowEnds \/ RetryDue \/ DeviceChanges \/ UNCHANGED vars
  BY <1>8, <1>a DEF WindowEnds, RetryDue, DeviceChanges, vars, supVars, tunVars, envVars
<1>9. ASSUME NEW l \in Loop, Supervise(l) PROVE AsRead' /\ RunsWhatIsWritten'
  <2>1. UNCHANGED <<file, run, opts, tunLive, trouble>>
    BY <1>9 DEF Supervise, runVars, tunVars, envVars
  <2>2. \A m \in Loop : child'[m] = child[m] \/ child'[m] \in {None, "fresh", file}
    BY <1>9 DEF Supervise, LoopStep, SetCmd, NoExec, Exec, ReadsConfig, ChildExits, ClearCmd,
                LoopEnds, PauseOver, TypeOK, SupTypeOK
  <2> QED BY <2>1, <2>2
<1>10. ASSUME NEW l \in Loop, Crash(l) \/ NoteTunCrash(l) PROVE AsRead' /\ RunsWhatIsWritten'
  <2>1. UNCHANGED <<file, runVars, tunLive, child, trouble>>
    BY <1>10 DEF Crash, Crashed, NoteTunCrash, LoadLive, LoadTime, Add, Trip, InCallback, tunVars,
                 envVars
  <2> QED BY <2>1, <1>a
<1> QED BY <1>1, <1>2, <1>3, <1>4, <1>5, <1>6, <1>7, <1>8, <1>9, <1>10 DEF Next, SwitchStep

\* Between switches tunLive and the running child are what the file says
\* (SwitchLiveTo writes, notes and restarts in that order).
THEOREM WhatIsWrittenRuns == Spec => []RunsWhatIsWritten
<1>1. Init => AsRead /\ RunsWhatIsWritten
  BY DEF Init, AsRead, Written, Noted, RunsWhatIsWritten
<1> QED BY <1>1, NextWritten, AlwaysSupervised, PTL DEF Spec

-----------------------------------------------------------------------------
(* The evidence of the breaker *)

\* The old count has not been cleared yet; a callback may still add to it.
Uncleared == run \in {"noteTime", "noteCrashes"}
Looking(l) == at[l] \in {"loadTime", "add"}

\* What trips has seen enough.
TripHasEvidence == \A l \in Loop : at[l] = "trip" => liveCrashes + 1 >= CrashLimit

\* With the inbound out, one crash may be counted late, by a callback that saw
\* it live; while the count is still to be cleared, it adds to live crashes.
CountWhenOut ==
    /\ ~ tunLive /\ ~ Uncleared => tunCrashes <= 1
    /\ ~ tunLive /\ ~ Uncleared => \A l \in Loop : Looking(l) => tunCrashes = 0
    /\ ~ tunLive /\ Uncleared => \A l \in Loop : Looking(l) => tunCrashes <= liveCrashes

\* With it live, the count is that of the live crashes or the few there were
\* before it was; a late one may be among them once the callback is done.
CountWhenLive ==
    tunLive => \A l \in Loop :
        /\ at[l] = "onRestart" \/ Looking(l)
              => tunCrashes <= liveCrashes \/ (Uncleared /\ tunCrashes <= 1)
        /\ at[l] = "pause"
              => tunCrashes <= liveCrashes + 1 \/ (Uncleared /\ tunCrashes <= 2)
        /\ at[l] \in {"launch", "exec", "run", "exited", "ended"}
              => tunCrashes <= liveCrashes + 1

\* So it is where no loop is.
CountAlone ==
    tunLive /\ (\A l \in Loop : at[l] = "gone") => tunCrashes <= liveCrashes + 1

Evidence == TripHasEvidence /\ CountWhenOut /\ CountWhenLive /\ CountAlone

\* A loop that moves is the only one, and it has not been told to end while the
\* atomics are set.
LEMMA LoopMoves ==
    ASSUME TypeOK, Supervised, NEW l \in Loop, at[l] # "gone",
           NEW step \in Steps, at' = [at EXCEPT ![l] = step]
    PROVE  /\ at'[l] = step
           /\ \A m \in Loop \ {l} : at'[m] = "gone"
           /\ Noting => ~ cancelled[l]
<1> USE SupervisorAssumption DEF Supervised, OnlyLoop, Waiting, NotBoth, NotCancelled
<1>1. \A m \in Loop \ {l} : at[m] = "gone"
  OBVIOUS
<1>2. at \in [Loop -> Steps]
  BY DEF TypeOK, SupTypeOK
<1>3. Noting => ~ cancelled[l]
  BY DEF Noting
<1> QED BY <1>1, <1>2, <1>3

\* What the move of that loop has to keep.
LEMMA EvidenceOfOne ==
    ASSUME NEW l \in Loop, \A m \in Loop \ {l} : at'[m] = "gone",
           at'[l] = "trip" => liveCrashes' + 1 >= CrashLimit,
           ~ tunLive' /\ ~ Uncleared' => tunCrashes' <= 1,
           ~ tunLive' /\ ~ Uncleared' /\ Looking(l)' => tunCrashes' = 0,
           ~ tunLive' /\ Uncleared' /\ Looking(l)' => tunCrashes' <= liveCrashes',
           tunLive' /\ (at'[l] = "onRestart" \/ Looking(l)')
               => tunCrashes' <= liveCrashes' \/ (Uncleared' /\ tunCrashes' <= 1),
           tunLive' /\ at'[l] = "pause"
               => tunCrashes' <= liveCrashes' + 1 \/ (Uncleared' /\ tunCrashes' <= 2),
           tunLive' /\ at'[l] \in {"launch", "exec", "run", "exited", "ended", "gone"}
               => tunCrashes' <= liveCrashes' + 1
    PROVE  Evidence'
BY DEF Evidence, TripHasEvidence, CountWhenOut, CountWhenLive, CountAlone, Looking

\* Every step keeps the evidence.
LEMMA NextEvidence == TypeOK /\ Supervised /\ Evidence /\ [Next]_vars => Evidence'
<1> SUFFICES ASSUME TypeOK, Supervised, Evidence, [Next]_vars PROVE Evidence'
  OBVIOUS
<1> USE CrashLimitAssumption
<1>t. /\ tunCrashes \in 0 .. CrashLimit /\ liveCrashes \in 0 .. CrashLimit
      /\ at \in [Loop -> Steps]
  BY DEF TypeOK, SupTypeOK
<1>e. TripHasEvidence /\ CountWhenOut /\ CountWhenLive /\ CountAlone
  BY DEF Evidence
<1>a. ASSUME UNCHANGED <<at, tunLive, tunCrashes, liveCrashes>>, Uncleared' <=> Uncleared
      PROVE  Evidence'
  BY <1>a DEF Evidence, TripHasEvidence, CountWhenOut, CountWhenLive, CountAlone, Looking
<1>1. CASE Switch \/ Reload \/ Refresh \/ Drop \/ SwitchFails \/ Shutdown \/ ReadOptions
           \/ WriteFile \/ NoteTime \/ NoteTrip
           \/ Stop("stop", "wait", "start") \/ Stopped("wait", "start")
           \/ Stop("lastStop", "lastWait", "returned") \/ Stopped("lastWait", "returned")
  <2>1. UNCHANGED <<at, tunLive, tunCrashes, liveCrashes>>
    BY <1>1 DEF Switch, Reload, Refresh, Drop, SwitchFails, Shutdown, ReadOptions, WriteFile,
                NoteTime, NoteTrip, Stop, Stopped, Cancel, supVars, tunVars
  <2>2. Uncleared' <=> Uncleared
    BY <1>1 DEF Switch, Reload, Refresh, Drop, SwitchFails, Shutdown, ReadOptions, WriteFile,
                NoteTime, NoteTrip, Stop, Stopped, At, Uncleared
  <2> QED BY <2>1, <2>2, <1>a
<1>2. CASE GiveUp \/ WindowEnds \/ RetryDue \/ DeviceChanges \/ UNCHANGED vars
  <2>1. UNCHANGED <<at, tunLive, tunCrashes, liveCrashes>>
    BY <1>2 DEF GiveUp, WindowEnds, RetryDue, DeviceChanges, vars, supVars, tunVars
  <2>2. Uncleared' <=> Uncleared
    BY <1>2 DEF GiveUp, WindowEnds, RetryDue, DeviceChanges, vars, runVars, Uncleared
  <2> QED BY <2>1, <2>2, <1>a
<1>3. CASE NoteLive
  <2>1. UNCHANGED <<at, tunCrashes, liveCrashes>>
    BY <1>3 DEF NoteLive, supVars
  <2>2. ~ Uncleared /\ Uncleared'
    BY <1>3 DEF NoteLive, At, Uncleared
  <2>3. TripHasEvidence'
    BY <1>e, <2>1 DEF TripHasEvidence
  <2>4. CountWhenOut'
    <3>1. \A l \in Loop : Looking(l) => tunCrashes <= liveCrashes
      BY <1>t, <1>e, <2>2 DEF CountWhenOut, CountWhenLive
    <3> QED BY <2>1, <2>2, <3>1 DEF CountWhenOut, Looking
  <2>5. tunLive \/ tunCrashes <= 1
    BY <1>e, <2>2 DEF CountWhenOut
  <2>6. CountWhenLive'
    BY <1>t, <1>e, <2>1, <2>2, <2>5 DEF CountWhenLive, Looking
  <2>7. CountAlone'
    BY <1>t, <1>e, <2>1, <2>5 DEF CountAlone
  <2> QED BY <2>3, <2>4, <2>6, <2>7 DEF Evidence
<1>4. CASE NoteCrashes
  <2>1. UNCHANGED <<at, tunLive, liveCrashes>> /\ tunCrashes' = 0
    BY <1>4 DEF NoteCrashes, supVars
  <2> QED BY <1>t, <1>e, <2>1
          DEF Evidence, TripHasEvidence, CountWhenOut, CountWhenLive, CountAlone, Looking
<1>5. CASE StartAgain
  <2>1. PICK l \in Loop : at' = [at EXCEPT ![l] = "launch"]
    BY <1>5, StartsAFreeLoop DEF StartAgain
  <2>2. \A m \in Loop : at[m] = "gone"
    BY <1>5, SupervisorAssumption DEF StartAgain, At, Supervised, OnlyLoop, Waiting, NotBoth
  <2>3. UNCHANGED <<tunLive, tunCrashes, liveCrashes>> /\ ~ Uncleared /\ ~ Uncleared'
    BY <1>5 DEF StartAgain, At, Uncleared, tunVars
  <2>4. at'[l] = "launch" /\ \A m \in Loop \ {l} : at'[m] = "gone"
    BY <1>t, <2>1, <2>2
  <2>5. /\ tunLive => tunCrashes <= liveCrashes + 1
        /\ ~ tunLive => tunCrashes <= 1
    BY <1>e, <2>2, <2>3 DEF CountAlone, CountWhenOut
  <2>6. ~ Looking(l)'
    BY <2>4 DEF Looking
  <2> QED BY <2>3, <2>4, <2>5, <2>6, EvidenceOfOne
<1>6. ASSUME NEW l \in Loop, Supervise(l) PROVE Evidence'
  <2>1. /\ UNCHANGED <<tunLive, tunCrashes, liveCrashes>> /\ (Uncleared' <=> Uncleared)
        /\ Uncleared => Noting
    BY <1>6 DEF Supervise, runVars, tunVars, Uncleared, Noting
  <2>2. CASE UNCHANGED at
    BY <2>1, <2>2, <1>a
  <2>3. ASSUME NEW step \in {"launch", "exec", "run", "exited", "ended", "gone"},
               at[l] \in {"launch", "exec", "run", "exited", "ended", "pause"},
               at' = [at EXCEPT ![l] = step],
               step = "gone" => cancelled[l], at[l] = "pause" => ~ Noting
        PROVE  Evidence'
    <3>1. /\ at'[l] = step /\ \A m \in Loop \ {l} : at'[m] = "gone"
          /\ Noting => ~ cancelled[l]
      BY <2>3, LoopMoves DEF Steps
    <3>2. tunLive => tunCrashes <= liveCrashes + 1
      BY <1>t, <1>e, <2>1, <2>3 DEF CountWhenLive
    <3>3. ~ tunLive /\ ~ Uncleared => tunCrashes <= 1
      BY <1>e DEF CountWhenOut
    <3>4. ~ Looking(l)'
      BY <3>1, <2>3 DEF Looking
    <3> QED BY <2>1, <2>3, <3>1, <3>2, <3>3, <3>4, EvidenceOfOne
  <2>4. CASE ReadsConfig(l)
    BY <2>2, <2>4 DEF ReadsConfig
  <2>5. CASE SetCmd(l) \/ NoExec(l) \/ Exec(l) \/ ChildExits(l) \/ ClearCmd(l) \/ LoopEnds(l)
             \/ PauseOver(l)
    BY <1>6, <2>3, <2>5 DEF Supervise, SetCmd, NoExec, Exec, ChildExits, ClearCmd, LoopEnds,
            PauseOver, Goto
  <2> QED BY <1>6, <2>4, <2>5 DEF Supervise, LoopStep
<1>7. ASSUME NEW l \in Loop, Crash(l) PROVE Evidence'
  <2>1. at[l] # "gone" /\ at' = [at EXCEPT ![l] = "onRestart"]
    BY <1>7 DEF Crash, Crashed, Goto
  <2>2. at'[l] = "onRestart" /\ \A m \in Loop \ {l} : at'[m] = "gone"
    BY <2>1, LoopMoves DEF Steps
  <2>3. UNCHANGED <<tunLive, tunCrashes>> /\ (Uncleared' <=> Uncleared)
    BY <1>7 DEF Crash, runVars, Uncleared
  <2>4. tunLive => tunCrashes <= liveCrashes'
    <3>1. tunLive => tunCrashes <= liveCrashes + 1
      BY <1>7, <1>e DEF Crash, Crashed, CountWhenLive
    <3>2. tunLive => liveCrashes' = OneMore(liveCrashes)
      BY <1>7 DEF Crash
    <3> QED BY <1>t, <3>1, <3>2 DEF OneMore
  <2>5. ~ tunLive /\ ~ Uncleared => tunCrashes <= 1
    BY <1>e DEF CountWhenOut
  <2>6. ~ Looking(l)'
    BY <2>2 DEF Looking
  <2> QED BY <2>2, <2>3, <2>4, <2>5, <2>6, EvidenceOfOne
<1>8. ASSUME NEW l \in Loop, NoteTunCrash(l) PROVE Evidence'
  <2>1. UNCHANGED <<tunLive, liveCrashes>> /\ (Uncleared' <=> Uncleared)
    BY <1>8 DEF NoteTunCrash, LoadLive, LoadTime, Add, Trip, InCallback, runVars, tunVars, Uncleared
  <2>2. ASSUME NEW here \in Steps \ {"gone"}, NEW next \in Steps, InCallback(l, here, next)
        PROVE  at[l] = here /\ at'[l] = next /\ \A m \in Loop \ {l} : at'[m] = "gone"
    BY <2>2, LoopMoves DEF InCallback, Goto
  <2>3. CASE LoadLive(l)
    <3>1. /\ at[l] = "onRestart" /\ at'[l] = IF tunLive THEN "loadTime" ELSE "pause"
          /\ \A m \in Loop \ {l} : at'[m] = "gone"
      BY <2>2, <2>3 DEF LoadLive, Steps
    <3>2. tunCrashes' = tunCrashes
      BY <2>3 DEF LoadLive, tunVars
    <3>3. /\ tunLive => tunCrashes <= liveCrashes \/ (Uncleared /\ tunCrashes <= 1)
          /\ ~ tunLive /\ ~ Uncleared => tunCrashes <= 1
      BY <1>e, <3>1 DEF CountWhenLive, CountWhenOut
    <3>4. Looking(l)' <=> tunLive
      BY <3>1 DEF Looking
    <3> QED BY <1>t, <2>1, <3>1, <3>2, <3>3, <3>4, EvidenceOfOne
  <2>4. CASE LoadTime(l)
    <3>1. /\ Looking(l) /\ at'[l] \in {"add", "pause"}
          /\ \A m \in Loop \ {l} : at'[m] = "gone"
      BY <2>2, <2>4 DEF LoadTime, Steps, Looking
    <3>2. tunCrashes' = tunCrashes
      BY <2>4 DEF LoadTime, tunVars
    <3>3. /\ tunLive => tunCrashes <= liveCrashes \/ (Uncleared /\ tunCrashes <= 1)
          /\ ~ tunLive /\ ~ Uncleared => tunCrashes = 0
          /\ ~ tunLive /\ Uncleared => tunCrashes <= liveCrashes
      BY <1>e, <3>1 DEF CountWhenLive, CountWhenOut
    <3>4. at'[l] \notin {"trip", "onRestart", "launch", "exec", "run", "exited", "ended", "gone"}
      BY <3>1
    <3> QED BY <1>t, <2>1, <3>1, <3>2, <3>3, <3>4, EvidenceOfOne
  <2>5. CASE Add(l)
    <3>1. /\ Looking(l) /\ at'[l] = IF tunCrashes' < CrashLimit THEN "pause" ELSE "trip"
          /\ \A m \in Loop \ {l} : at'[m] = "gone"
      BY <2>2, <2>5 DEF Add, Steps, Looking
    <3>2. tunCrashes' \in 0 .. CrashLimit /\ tunCrashes' <= tunCrashes + 1
      BY <1>t, <2>5, OneMoreInRange DEF Add
    <3>3. /\ tunLive => tunCrashes <= liveCrashes \/ (Uncleared /\ tunCrashes <= 1)
          /\ ~ tunLive /\ ~ Uncleared => tunCrashes = 0
          /\ ~ tunLive /\ Uncleared => tunCrashes <= liveCrashes
      BY <1>e, <3>1 DEF CountWhenLive, CountWhenOut
    <3>4. ~ Looking(l)' /\ at'[l] \in {"pause", "trip"}
      BY <3>1 DEF Looking
    <3>5. at'[l] = "trip" => liveCrashes + 1 >= CrashLimit
      BY <1>t, <3>1, <3>2, <3>3
    <3>6. tunLive => tunCrashes' <= liveCrashes + 1 \/ (Uncleared /\ tunCrashes' <= 2)
      BY <1>t, <3>2, <3>3
    <3>7. ~ tunLive /\ ~ Uncleared => tunCrashes' <= 1
      BY <1>t, <3>2, <3>3
    <3> QED BY <2>1, <3>1, <3>4, <3>5, <3>6, <3>7, EvidenceOfOne
  <2>6. CASE Trip(l)
    <3>1. /\ at[l] = "trip" /\ at'[l] = "pause"
          /\ \A m \in Loop \ {l} : at'[m] = "gone"
      BY <2>2, <2>6 DEF Trip, Steps
    <3>2. tunCrashes' = tunCrashes
      BY <2>6 DEF Trip
    <3>3. /\ tunCrashes <= liveCrashes + 1
          /\ ~ tunLive /\ ~ Uncleared => tunCrashes <= 1
      BY <1>t, <1>e, <3>1 DEF TripHasEvidence, CountWhenOut
    <3>4. ~ Looking(l)'
      BY <3>1 DEF Looking
    <3> QED BY <2>1, <3>1, <3>2, <3>3, <3>4, EvidenceOfOne
  <2> QED BY <1>8, <2>3, <2>4, <2>5, <2>6 DEF NoteTunCrash
<1> QED BY <1>1, <1>2, <1>3, <1>4, <1>5, <1>6, <1>7, <1>8 DEF Next, SwitchStep

\* The breaker never trips on fewer crashes in a row with the inbound live than
\* the limit, but for one counted late (noteTunCrash against noteTunWritten).
THEOREM NeverTripsEarly == Spec => TripsOnEvidence
<1> DEFINE Early == tripped = "never" /\ tripped' = "lately" => liveCrashes + 1 >= CrashLimit
<1>1. Init => Evidence
  BY DEF Init, SupInit, Evidence, TripHasEvidence, CountWhenOut, CountWhenLive, CountAlone,
         Uncleared, Looking
<1>2. Evidence /\ [Next]_vars => [Early]_vars
  <2> SUFFICES ASSUME Evidence, [Next]_vars, tripped = "never", tripped' = "lately"
               PROVE  liveCrashes + 1 >= CrashLimit
    OBVIOUS
  <2>1. PICK l \in Loop : Trip(l)
    BY DEF Next, SwitchStep, Switch, Reload, Refresh, Drop, GiveUp, SwitchFails, ReadOptions,
           WriteFile, NoteLive, NoteTime, NoteCrashes, NoteTrip, Stop, Stopped, StartAgain,
           Shutdown, Supervise, Crash, NoteTunCrash, LoadLive, LoadTime, Add, WindowEnds,
           RetryDue, DeviceChanges, vars, tunVars
  <2> QED BY <2>1 DEF Trip, InCallback, Evidence, TripHasEvidence
<1>3. Spec => [](TypeOK /\ Supervised /\ Evidence)
  BY <1>1, NextEvidence, AlwaysSupervised, PTL DEF Spec
<1>4. Spec => [][Early]_vars
  BY <1>2, <1>3, PTL DEF Spec
<1> QED BY <1>4 DEF TripsOnEvidence
=============================================================================
