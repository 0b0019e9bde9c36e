-------------------------- MODULE Proxy0HealthProofs --------------------------
(***************************************************************************)
(* The safety properties of Proxy0Health, for any interfaces, any number   *)
(* of reconcile passes beside each other, and any number of events and     *)
(* faults.                                                                 *)
(***************************************************************************)
EXTENDS Proxy0Health, TLAPS

(* Where a job is only once the profile has its mode. *)
Beyond == {"rest", "others", "bind", "verify", "save", "resave", "settle", "succeeded", "unsaved"}
Allowed(pc) == pc \in Place /\ (~tlsOK => pc \notin Beyond)

(* A configuration of the router, and a job, as an old firmware leaves them. *)
Fit(r) == r \in Router /\ (~tlsOK => r.mode # "tls" /\ r.on = {})
Able(x) ==
    /\ x \in JobState /\ Allowed(x.pc)
    /\ x.pc \notin {"idle", "wait"} => x.cfg \in Config
Jobs == job \in [Job -> JobState] /\ \A j \in Job : Able(job[j])
Inv == Fit(run) /\ Fit(flash) /\ cfg \in Config /\ Jobs /\ events \in Nat /\ events \in Nat /\ events \in Nat

(* What a command or a read makes of its job. *)
Moves(j, then, else) ==
    \/ Goes(j, then) \/ Fails(j, "soon", else) \/ Fails(j, "hour", else)
    \/ Put(j, [job[j] EXCEPT !.pc = else, !.late = TRUE, !.err = IF @ = None THEN "soon" ELSE @])

(* What a step leaves of the invariant. *)
JobsKept == job' \in [Job -> JobState] /\ \A k \in Job : Able(job'[k])
Kept == Fit(run') /\ Fit(flash') /\ cfg' \in Config /\ tlsOK' = tlsOK /\ JobsKept

-----------------------------------------------------------------------------
(* Jobs *)

\* A job that has nothing to do is fit on any firmware.
LEMMA IdleIsAble == Able(Idle) /\ Able([Idle EXCEPT !.pc = "wait"])
<1>1. {} \in SUBSET Iface
  OBVIOUS
<1>2. Idle \in JobState
  BY <1>1 DEF Idle, JobState, Place
<1>3. [Idle EXCEPT !.pc = "wait"] \in JobState
  BY <1>2 DEF JobState, Place
<1>4. Idle.pc = "idle" /\ [Idle EXCEPT !.pc = "wait"].pc = "wait"
  BY DEF Idle
<1>5. Allowed("idle") /\ Allowed("wait")
  BY DEF Allowed, Beyond, Place
<1> QED BY <1>2, <1>3, <1>4, <1>5 DEF Able

\* What is put into a job's place is what it is from then on.
LEMMA PutKeeps ==
    ASSUME Jobs, NEW j \in Job, NEW r, Able(r), Put(j, r)
    PROVE  JobsKept
<1>1. PICK x : Able(x) /\ job' = [job EXCEPT ![j] = x]
  BY IdleIsAble DEF Put
<1> QED BY <1>1 DEF Jobs, Able, JobsKept

\* A job that goes on, or fails, on an allowed way.
LEMMA MovesKeep ==
    ASSUME Jobs, NEW j \in Job, job[j].pc \notin {"idle", "wait"},
           NEW then, NEW else, Allowed(then), Allowed(else), Moves(j, then, else)
    PROVE  JobsKept
<1>1. job[j] \in JobState /\ job[j].cfg \in Config
  BY DEF Jobs, Able
<1>2. CASE Goes(j, then)
  <2>1. Able([job[j] EXCEPT !.pc = then])
    BY <1>1 DEF Able, Allowed, JobState
  <2> QED BY <1>2, <2>1, PutKeeps DEF Goes
<1>3. ASSUME NEW e \in {"soon", "hour"}, Fails(j, e, else)
      PROVE  JobsKept
  <2>1. Able([job[j] EXCEPT !.pc = else, !.err = IF @ = None THEN e ELSE @])
    BY <1>1 DEF Able, Allowed, JobState
  <2> QED BY <1>3, <2>1, PutKeeps DEF Fails
<1>4. ASSUME Put(j, [job[j] EXCEPT !.pc = else, !.late = TRUE, !.err = IF @ = None THEN "soon" ELSE @])
      PROVE  JobsKept
  <2>1. Able([job[j] EXCEPT !.pc = else, !.late = TRUE, !.err = IF @ = None THEN "soon" ELSE @])
    BY <1>1 DEF Able, Allowed, JobState
  <2> QED BY <1>4, <2>1, PutKeeps
<1> QED BY <1>2, <1>3, <1>4 DEF Moves

-----------------------------------------------------------------------------
(* Commands *)

\* The places jobs go to on any firmware.
LEMMA AllowedPlaces ==
    /\ \A pc \in Place \ Beyond : Allowed(pc)
    /\ \A j \in Job : Allowed(AfterUpstream(j)) /\ Allowed(Cleaned(j)) /\ Allowed(DownDone(j))
    /\ tlsOK => \A pc \in Place : Allowed(pc)
BY DEF Allowed, Place, Beyond, AfterUpstream, Cleaned, DownDone

\* A job that is somewhere is known, and so is the interface it works on.
LEMMA AtPlace ==
    ASSUME Inv, NEW j \in Job, NEW pc, At(j, pc), pc \notin {"idle", "wait"}
    PROVE  /\ job[j] \in JobState /\ job[j].pc = pc /\ job[j].pc \notin {"idle", "wait"}
           /\ job[j].cfg \in Config /\ I(j) \in Iface /\ job[j].cur \subseteq Iface
           /\ ~tlsOK => pc \notin Beyond
BY DEF Inv, Jobs, Able, Allowed, At, I, Config, JobState

\* What is left to say of a command once its ways and its effect are known.
LEMMA CommandKeeps ==
    ASSUME Inv, NEW j \in Job, job[j].pc \notin {"idle", "wait"},
           NEW then, NEW else, Allowed(then), Allowed(else), Moves(j, then, else),
           Fit(run'), Fit(flash'), UNCHANGED <<cfg, tlsOK>>
    PROVE  Kept
BY MovesKeep DEF Inv, Kept

-----------------------------------------------------------------------------
(* Steps *)

\* The upstream of the Proxy interface.
LEMMA UpstreamKeeps ==
    ASSUME Inv, NEW j \in Job, Upstream(j) \/ BringsUp(j) \/ SavesUp(j) \/ ReadsUp(j)
    PROVE  Kept
<1>1. CASE BringsUp(j)
  <2>1. At(j, "up") /\ Moves(j, "saveup", AfterUpstream(j)) /\ UNCHANGED <<cfg, tlsOK>>
    BY <1>1 DEF BringsUp, Does, Moves
  <2>2. Fit(run') /\ Fit(flash')
    BY <1>1, <2>1, AtPlace DEF BringsUp, Does, Becomes, Unsent, Inv, Fit, Router
  <2> QED BY <2>1, <2>2, AtPlace, AllowedPlaces, CommandKeeps DEF Place, Beyond
<1>2. CASE SavesUp(j)
  <2>1. At(j, "saveup") /\ Moves(j, "readup", AfterUpstream(j)) /\ UNCHANGED <<cfg, tlsOK>>
    BY <1>2 DEF SavesUp, Does, Moves
  <2>2. Fit(run') /\ Fit(flash')
    BY <1>2, <2>1, AtPlace DEF SavesUp, Does, SaveConfig, Unsent, Inv, Fit, Router
  <2> QED BY <2>1, <2>2, AtPlace, AllowedPlaces, CommandKeeps DEF Place, Beyond
<1>3. CASE Upstream(j)
  <2>1. At(j, "upstream")
    BY <1>3 DEF Upstream
  <2>2. CASE Goes(j, "check") /\ Local
    <3>1. Moves(j, "check", "check") /\ UNCHANGED <<run, flash, cfg, tlsOK>>
      BY <2>2 DEF Moves, Local
    <3> QED BY <2>1, <3>1, AtPlace, AllowedPlaces, CommandKeeps DEF Inv, Fit, Place, Beyond
  <2>3. CASE Does(j, Becomes([run EXCEPT !.ours = @ \cup {I(j)}]), "up", AfterUpstream(j))
    <3>1. Moves(j, "up", AfterUpstream(j)) /\ UNCHANGED <<cfg, tlsOK>>
      BY <2>3 DEF Does, Moves
    <3>2. Fit(run') /\ Fit(flash')
      BY <2>1, <2>3, AtPlace DEF Does, Becomes, Unsent, Inv, Fit, Router
    <3> QED BY <2>1, <3>1, <3>2, AtPlace, AllowedPlaces, CommandKeeps DEF Place, Beyond
  <2> QED BY <1>3, <2>2, <2>3 DEF Upstream
<1>4. CASE ReadsUp(j)
  <2>1. At(j, "readup") /\ UNCHANGED <<run, flash, cfg, tlsOK>>
    BY <1>4 DEF ReadsUp, Reads, Local
  <2>2. Moves(j, "store", AfterUpstream(j)) \/ Moves(j, AfterUpstream(j), AfterUpstream(j))
    BY <1>4 DEF ReadsUp, Reads, Moves
  <2> QED BY <2>1, <2>2, AtPlace, AllowedPlaces, CommandKeeps DEF Inv, Fit, Place, Beyond
<1> QED BY <1>1, <1>2, <1>3, <1>4

\* Before the check is touched: whether it is wanted, needed, possible.
LEMMA CheckKeeps ==
    ASSUME Inv, NEW j \in Job, Check(j) \/ proxy0InUse(j) \/ firmwareOK(j)
    PROVE  Kept
<1>1. CASE Check(j)
  <2> DEFINE r == [[job[j] EXCEPT !.late = FALSE, !.err = None, !.chg = FALSE] EXCEPT
                     !.pc = IF job[j].cfg.off THEN "rread"
                            ELSE IF j \in Reconciler /\ ~due THEN "end" ELSE "inuse"]
  <2>1. At(j, "check") /\ UNCHANGED <<run, flash, cfg, tlsOK>>
    BY <1>1 DEF Check, Local
  <2>2. job[j] \in JobState /\ job[j].cfg \in Config
    BY <2>1, AtPlace
  <2>3. Put(j, r)
    BY <1>1, <2>2 DEF Check, JobState
  <2>4. r \in JobState /\ r.pc \in {"rread", "end", "inuse"} /\ r.cfg = job[j].cfg
    BY <2>2 DEF JobState, Place
  <2>5. Able(r)
    BY <2>2, <2>4, AllowedPlaces DEF Able, Place, Beyond
  <2> QED BY <2>1, <2>3, <2>5, PutKeeps DEF Inv, Kept, Fit
<1>2. CASE proxy0InUse(j)
  <2>1. At(j, "inuse") /\ UNCHANGED <<run, flash, cfg, tlsOK>>
    BY <1>2 DEF proxy0InUse, Reads, Local
  <2>2. Moves(j, "version", "failed") \/ Moves(j, "end", "failed")
    BY <1>2 DEF proxy0InUse, Reads, Moves
  <2> QED BY <2>1, <2>2, AtPlace, AllowedPlaces, CommandKeeps DEF Inv, Fit, Place, Beyond
<1>3. CASE firmwareOK(j)
  <2>1. At(j, "version") /\ UNCHANGED <<run, flash, cfg, tlsOK>>
    BY <1>3 DEF firmwareOK, Local
  <2>2. job[j] \in JobState /\ job[j].cfg \in Config
    BY <2>1, AtPlace
  <2>3. CASE Put(j, [job[j] EXCEPT !.pc = "read", !.late = TRUE])
    <3>1. Able([job[j] EXCEPT !.pc = "read", !.late = TRUE])
      BY <2>2, AllowedPlaces DEF Able, JobState, Place, Beyond
    <3> QED BY <2>1, <2>3, <3>1, PutKeeps DEF Inv, Kept, Fit
  <2>4. CASE Moves(j, "read", "end") \/ Moves(j, "end", "read")
    BY <2>1, <2>4, AtPlace, AllowedPlaces, CommandKeeps DEF Inv, Fit, Place, Beyond
  <2> QED BY <1>3, <2>3, <2>4 DEF firmwareOK, Moves
<1> QED BY <1>1, <1>2, <1>3

\* The check: an old firmware refuses the mode, and no later command is reached.
LEMMA EnsureKeeps ==
    ASSUME Inv, NEW j \in Job, Ensure(j)
    PROVE  Kept
<1>1. CASE ReadsProfile(j)
  <2> DEFINE r == [job[j] EXCEPT !.pc = "make", !.cur = run.on, !.chg = TRUE]
  <2>1. At(j, "read") /\ UNCHANGED <<run, flash, cfg, tlsOK>>
    BY <1>1 DEF ReadsProfile, Reads, Local
  <2>2. job[j] \in JobState /\ job[j].cfg \in Config /\ run.on \subseteq Iface
    BY <2>1, AtPlace DEF Inv, Fit, Router
  <2>3. CASE Put(j, r)
    <3>1. Able(r)
      BY <2>2, AllowedPlaces DEF Able, JobState, Place, Beyond
    <3> QED BY <2>1, <2>3, <3>1, PutKeeps DEF Inv, Kept, Fit
  <2>4. CASE InPlace(run, I(j)) /\ Goes(j, "settle")
    <3>1. tlsOK
      BY <2>4 DEF InPlace, Wanted, Inv, Fit
    <3>2. Moves(j, "settle", "settle")
      BY <2>4 DEF Moves
    <3> QED BY <2>1, <3>1, <3>2, AtPlace, AllowedPlaces, CommandKeeps DEF Inv, Fit, Place
  <2>5. CASE Moves(j, "failed", "failed")
    BY <2>1, <2>5, AtPlace, AllowedPlaces, CommandKeeps DEF Inv, Fit, Place, Beyond
  <2> QED BY <1>1, <2>3, <2>4, <2>5 DEF ReadsProfile, Reads, Moves
<1>2. CASE Makes(j)
  <2>1. At(j, "make") /\ Moves(j, "mode", "unbind0") /\ UNCHANGED <<cfg, tlsOK>>
    BY <1>2 DEF Makes, Does, Moves
  <2>2. Fit(run') /\ Fit(flash')
    BY <1>2, <2>1, AtPlace, Proxy0HealthAssumption DEF Makes, Does, Made, Becomes, Unsent, Inv, Fit, Router
  <2> QED BY <2>1, <2>2, AtPlace, AllowedPlaces, CommandKeeps DEF Place, Beyond
<1>3. CASE SetsMode(j)
  <2>1. At(j, "mode") /\ UNCHANGED <<cfg, tlsOK>>
    BY <1>3 DEF SetsMode, Does, Local
  <2>2. CASE tlsOK
    <3>1. Moves(j, "rest", "unbind0")
      BY <1>3, <2>2 DEF SetsMode, Does, Moves
    <3>2. Fit(run') /\ Fit(flash')
      BY <1>3, <2>2 DEF SetsMode, Does, Becomes, Unsent, Inv, Fit, Router
    <3> QED BY <2>1, <2>2, <3>1, <3>2, AtPlace, AllowedPlaces, CommandKeeps DEF Place
  <2>3. CASE ~tlsOK
    <3>1. Moves(j, "unbind0", "unbind0") /\ UNCHANGED <<run, flash>>
      BY <1>3, <2>3 DEF SetsMode, Moves, Local
    <3> QED BY <2>1, <3>1, AtPlace, AllowedPlaces, CommandKeeps DEF Inv, Fit, Place, Beyond
  <2> QED BY <2>2, <2>3
<1>4. CASE SetsRest(j)
  <2>1. (At(j, "rest")) /\ Moves(j, "others", "failed") /\ UNCHANGED <<cfg, tlsOK>>
    BY <1>4 DEF SetsRest, Does, Moves
  <2>2. tlsOK
    BY <2>1, AtPlace DEF Beyond
  <2>3. Fit(run') /\ Fit(flash')
    BY <1>4, <2>1, <2>2, AtPlace DEF SetsRest, Does, Made, Becomes, Unsent, Inv, Fit, Router
  <2> QED BY <2>1, <2>2, <2>3, AtPlace, AllowedPlaces, CommandKeeps DEF Place
<1>5. CASE Others(j)
  <2>1. (At(j, "others")) /\ Moves(j, "bind", "bind") /\ UNCHANGED <<cfg, tlsOK>>
    BY <1>5 DEF Others, Does, Moves
  <2>2. tlsOK
    BY <2>1, AtPlace DEF Beyond
  <2>3. Fit(run') /\ Fit(flash')
    BY <1>5, <2>1, <2>2, AtPlace DEF Others, Does, Becomes, Unsent, Inv, Fit, Router
  <2> QED BY <2>1, <2>2, <2>3, AtPlace, AllowedPlaces, CommandKeeps DEF Place
<1>6. CASE Binds(j)
  <2>1. (At(j, "bind")) /\ Moves(j, "verify", "failed") /\ UNCHANGED <<cfg, tlsOK>>
    BY <1>6 DEF Binds, Does, Moves
  <2>2. tlsOK
    BY <2>1, AtPlace DEF Beyond
  <2>3. Fit(run') /\ Fit(flash')
    BY <1>6, <2>1, <2>2, AtPlace DEF Binds, Does, Bound, Becomes, Unsent, Inv, Fit, Router
  <2> QED BY <2>1, <2>2, <2>3, AtPlace, AllowedPlaces, CommandKeeps DEF Place
<1>7. CASE SavesCheck(j)
  <2>1. (At(j, "save") \/ At(j, "resave")) /\ Moves(j, "succeeded", "unsaved") /\ UNCHANGED <<cfg, tlsOK>>
    BY <1>7 DEF SavesCheck, Does, Moves
  <2>2. tlsOK
    BY <2>1, AtPlace DEF Beyond
  <2>3. Fit(run') /\ Fit(flash')
    BY <1>7, <2>1, <2>2, AtPlace DEF SavesCheck, Does, SaveConfig, Unsent, Inv, Fit, Router
  <2> QED BY <2>1, <2>2, <2>3, AtPlace, AllowedPlaces, CommandKeeps DEF Place
<1>8. CASE Verifies(j)
  <2> DEFINE r == [job[j] EXCEPT !.pc = "unbind0", !.cur = run.on, !.err = "hour"]
  <2>1. At(j, "verify") /\ UNCHANGED <<run, flash, cfg, tlsOK>>
    BY <1>8 DEF Verifies, Reads, Local
  <2>2. /\ job[j] \in JobState /\ job[j].cfg \in Config /\ run.on \subseteq Iface
        /\ tlsOK
    BY <2>1, AtPlace DEF Inv, Fit, Router, Beyond
  <2>3. CASE Put(j, r)
    <3>1. Able(r)
      BY <2>2, AllowedPlaces DEF Able, JobState, Place, Beyond
    <3> QED BY <2>1, <2>3, <3>1, PutKeeps DEF Inv, Kept, Fit
  <2>4. CASE Moves(j, "save", "failed") \/ Moves(j, "failed", "failed")
    BY <2>1, <2>2, <2>4, AtPlace, AllowedPlaces, CommandKeeps DEF Inv, Fit, Place
  <2> QED BY <1>8, <2>3, <2>4 DEF Verifies, Reads, Moves
<1>9. CASE Unsaved(j)
  <2>1. At(j, "unsaved") /\ UNCHANGED <<run, flash, cfg, tlsOK>>
    BY <1>9 DEF Unsaved, Local
  <2>2. job[j] \in JobState /\ job[j].cfg \in Config
    BY <2>1, AtPlace
  <2>3. Able([job[j] EXCEPT !.pc = "failed", !.err = "soon"])
    BY <2>2, AllowedPlaces DEF Able, JobState, Place, Beyond
  <2> QED BY <1>9, <2>1, <2>3, PutKeeps DEF Unsaved, Inv, Kept, Fit
<1> QED BY <1>1, <1>2, <1>3, <1>4, <1>5, <1>6, <1>7, <1>8, <1>9 DEF Ensure

\* Its removal, and the interface's.
LEMMA RemoveKeeps ==
    ASSUME Inv, NEW j \in Job, Remove(j) \/ DisableProxy0(j) \/ SavesDown(j)
    PROVE  Kept
<1>1. CASE ReadsForRemoval(j)
  <2> DEFINE r == [job[j] EXCEPT !.pc = "unbind0", !.cur = run.on]
  <2>1. At(j, "rread") /\ UNCHANGED <<run, flash, cfg, tlsOK>>
    BY <1>1 DEF ReadsForRemoval, Reads, Local
  <2>2. job[j] \in JobState /\ job[j].cfg \in Config /\ run.on \subseteq Iface
    BY <2>1, AtPlace DEF Inv, Fit, Router
  <2>3. CASE Put(j, r)
    <3>1. Able(r)
      BY <2>2, AllowedPlaces DEF Able, JobState, Place, Beyond
    <3> QED BY <2>1, <2>3, <3>1, PutKeeps DEF Inv, Kept, Fit
  <2>4. CASE Moves(j, "end", "end")
    BY <2>1, <2>4, AtPlace, AllowedPlaces, CommandKeeps DEF Inv, Fit, Place, Beyond
  <2> QED BY <1>1, <2>3, <2>4 DEF ReadsForRemoval, Reads, Moves
<1>2. CASE Unbinds(j)
  <2>1. At(j, "unbind0") /\ Moves(j, "delete", "delete") /\ UNCHANGED <<cfg, tlsOK>>
    BY <1>2 DEF Unbinds, Does, Moves
  <2>2. Fit(run') /\ Fit(flash')
    BY <1>2, <2>1, AtPlace DEF Unbinds, Does, Becomes, Unsent, Inv, Fit, Router
  <2> QED BY <2>1, <2>2, AtPlace, AllowedPlaces, CommandKeeps DEF Place, Beyond
<1>3. CASE Deletes(j)
  <2>1. At(j, "delete") /\ Moves(j, "dsave", Cleaned(j)) /\ UNCHANGED <<cfg, tlsOK>>
    BY <1>3 DEF Deletes, Does, Moves
  <2>2. Fit(run') /\ Fit(flash')
    BY <1>3, <2>1, AtPlace, Proxy0HealthAssumption DEF Deletes, Does, Becomes, Unsent, Inv, Fit, Router
  <2> QED BY <2>1, <2>2, AtPlace, AllowedPlaces, CommandKeeps DEF Place, Beyond
<1>4. CASE SavesDeletion(j)
  <2>1. At(j, "dsave") /\ Moves(j, Cleaned(j), Cleaned(j)) /\ UNCHANGED <<cfg, tlsOK>>
    BY <1>4 DEF SavesDeletion, Does, Moves
  <2>2. Fit(run') /\ Fit(flash')
    BY <1>4, <2>1, AtPlace DEF SavesDeletion, Does, SaveConfig, Unsent, Inv, Fit, Router
  <2> QED BY <2>1, <2>2, AtPlace, AllowedPlaces, CommandKeeps DEF Place, Beyond
<1>5. CASE DisableProxy0(j)
  <2>1. At(j, "down") /\ Moves(j, "savedown", "end") /\ UNCHANGED <<cfg, tlsOK>>
    BY <1>5 DEF DisableProxy0, Does, Moves
  <2>2. Fit(run') /\ Fit(flash')
    BY <1>5, <2>1, AtPlace DEF DisableProxy0, Does, Becomes, Unsent, Inv, Fit, Router
  <2> QED BY <2>1, <2>2, AtPlace, AllowedPlaces, CommandKeeps DEF Place, Beyond
<1>6. CASE SavesDown(j)
  <2>1. At(j, "savedown") /\ Moves(j, DownDone(j), "end") /\ UNCHANGED <<cfg, tlsOK>>
    BY <1>6 DEF SavesDown, Does, Moves
  <2>2. Fit(run') /\ Fit(flash')
    BY <1>6, <2>1, AtPlace DEF SavesDown, Does, SaveConfig, Unsent, Inv, Fit, Router
  <2> QED BY <2>1, <2>2, AtPlace, AllowedPlaces, CommandKeeps DEF Place, Beyond
<1> QED BY <1>1, <1>2, <1>3, <1>4, <1>5, <1>6 DEF Remove

\* The notes the daemon keeps.
LEMMA NotesKeep ==
    ASSUME Inv, NEW j \in Job, Notes(j)
    PROVE  Kept
<1>1. CASE needsSave(j)
  <2>1. At(j, "settle") /\ UNCHANGED <<run, flash, cfg, tlsOK>> /\ tlsOK
    BY <1>1, AtPlace DEF needsSave, Local, Beyond
  <2>2. Moves(j, "resave", "resave") \/ Moves(j, "succeeded", "succeeded")
    BY <1>1 DEF needsSave, Moves
  <2> QED BY <2>1, <2>2, AtPlace, AllowedPlaces, CommandKeeps DEF Inv, Fit, Place
<1>2. CASE succeeded(j)
  <2>1. At(j, "succeeded") /\ Moves(j, "end", "end") /\ UNCHANGED <<run, flash, cfg, tlsOK>>
    BY <1>2 DEF succeeded, Local, Moves
  <2> QED BY <2>1, AtPlace, AllowedPlaces, CommandKeeps DEF Inv, Fit, Place, Beyond
<1>3. CASE failed(j)
  <2>1. At(j, "failed") /\ UNCHANGED <<run, flash, cfg, tlsOK>>
    BY <1>3 DEF failed, Local
  <2>2. Moves(j, "retry", "retry") \/ Moves(j, "end", "end")
    BY <1>3 DEF failed, Moves
  <2> QED BY <2>1, <2>2, AtPlace, AllowedPlaces, CommandKeeps DEF Inv, Fit, Place, Beyond
<1>4. CASE startRetry(j)
  <2>1. UNCHANGED <<run, flash, cfg, tlsOK>>
    BY <1>4 DEF startRetry, Local
  <2>2. CASE j = "retrier"
    BY <1>4, <2>1, <2>2, IdleIsAble, PutKeeps DEF startRetry, Inv, Kept, Fit
  <2>3. CASE j # "retrier"
    <3>1. PICK w \in {job["retrier"], [Idle EXCEPT !.pc = "wait"]} :
             job' = [job EXCEPT ![j] = Idle, !["retrier"] = w]
      BY <1>4, <2>3 DEF startRetry
    <3>2. Able(w) /\ Able(Idle) /\ "retrier" \in Job
      BY <3>1, IdleIsAble DEF Inv, Jobs, Job, Daemon
    <3> QED BY <2>1, <3>1, <3>2 DEF Inv, Jobs, Able, Kept, JobsKept, Fit
  <2> QED BY <2>2, <2>3
<1> QED BY <1>1, <1>2, <1>3, <1>4 DEF Notes

\* What starts a job, by the daemon or by a shell, and what a shell does besides.
LEMMA StartsKeep ==
    ASSUME Inv, \/ \E j \in Reconciler : Passes(j)
                \/ Retrier \/ Hour \/ Cli \/ PurgeReads \/ Proxy0Set \/ Proxy0Off
    PROVE  Kept
<1>j. {"retrier", "cli", "purge", "startup"} \subseteq Job /\ Reconciler \subseteq Job
  BY DEF Job, Daemon
<1>c. \A c \in Config, pc \in Place \ Beyond : Able([[Idle EXCEPT !.cfg = c] EXCEPT !.pc = pc])
  BY IdleIsAble, AllowedPlaces DEF Able, JobState
<1>i. \A c, pc : /\ [Idle EXCEPT !.cfg = c, !.pc = pc] = [[Idle EXCEPT !.cfg = c] EXCEPT !.pc = pc]
                  /\ [Idle EXCEPT !.pc = pc, !.cfg = c] = [[Idle EXCEPT !.cfg = c] EXCEPT !.pc = pc]
  BY DEF Idle
<1>1. ASSUME NEW j \in Reconciler, Passes(j) PROVE Kept
  <2>1. Put(j, [Idle EXCEPT !.pc = "upstream", !.cfg = cfg]) /\ UNCHANGED <<run, flash, cfg, tlsOK>>
    BY <1>1 DEF Passes, Local
  <2>2. Able([Idle EXCEPT !.pc = "upstream", !.cfg = cfg])
    BY <1>c, <1>i DEF Inv, Place, Beyond
  <2> QED BY <1>j, <2>1, <2>2, PutKeeps DEF Inv, Kept, Fit
<1>2. CASE Retries
  <2>1. UNCHANGED <<run, flash, cfg, tlsOK>>
    BY <1>2 DEF Retries, Local
  <2>2. Able([Idle EXCEPT !.pc = "check", !.cfg = cfg])
    BY <1>c, <1>i DEF Inv, Place, Beyond
  <2>3. CASE UNCHANGED job
    BY <2>1, <2>3 DEF Inv, Jobs, Kept, JobsKept, Fit
  <2>4. CASE Put("retrier", [Idle EXCEPT !.pc = "check", !.cfg = cfg])
    BY <1>j, <2>1, <2>2, <2>4, PutKeeps DEF Inv, Kept, Fit
  <2> QED BY <1>2, <2>3, <2>4 DEF Retries
<1>3. CASE Ends
  BY <1>3, <1>j, IdleIsAble, PutKeeps DEF Ends, Local, Inv, Kept, Fit
<1>4. CASE Hour
  BY <1>4 DEF Hour, Local, Inv, Jobs, Kept, JobsKept, Fit
<1>5. CASE OldDown
  <2>1. At("cli", "olddown") /\ Moves("cli", "oldsave", "upstream") /\ UNCHANGED <<cfg, tlsOK>>
    BY <1>5 DEF OldDown, Does, Moves
  <2>2. Fit(run') /\ Fit(flash')
    BY <1>5 DEF OldDown, Does, Becomes, Unsent, Inv, Fit, Router
  <2> QED BY <1>j, <2>1, <2>2, AtPlace, AllowedPlaces, CommandKeeps DEF Place, Beyond
<1>6. CASE OldSave
  <2>1. At("cli", "oldsave") /\ Moves("cli", "upstream", "upstream") /\ UNCHANGED <<cfg, tlsOK>>
    BY <1>6 DEF OldSave, Does, Moves
  <2>2. Fit(run') /\ Fit(flash')
    BY <1>6 DEF OldSave, Does, SaveConfig, Unsent, Inv, Fit, Router
  <2> QED BY <1>j, <2>1, <2>2, AtPlace, AllowedPlaces, CommandKeeps DEF Place, Beyond
<1>7. CASE Stores
  <2>1. At("cli", "store") /\ cfg' = job["cli"].cfg /\ UNCHANGED <<run, flash, tlsOK>>
    BY <1>7 DEF Stores
  <2>2. Moves("cli", "check", "check") \/ Moves("cli", "end", "end")
    BY <1>7 DEF Stores, Moves
  <2>3. JobsKept /\ cfg' \in Config
    BY <1>j, <2>1, <2>2, AtPlace, AllowedPlaces, MovesKeep DEF Inv, Place, Beyond
  <2> QED BY <2>1, <2>3 DEF Inv, Kept, Fit
<1>8. CASE PurgeReads
  <2>1. At("purge", "purge") /\ UNCHANGED <<run, flash, cfg, tlsOK>>
    BY <1>8 DEF PurgeReads, Reads, Local
  <2>2. Moves("purge", "down", "end") \/ Moves("purge", "rread", "end")
    BY <1>8 DEF PurgeReads, Reads, Moves
  <2> QED BY <1>j, <2>1, <2>2, AtPlace, AllowedPlaces, CommandKeeps DEF Inv, Fit, Place, Beyond
<1>9. CASE Proxy0Set
  <2>1. PICK i \in Iface, d \in BOOLEAN, pc \in {"olddown", "upstream"} :
           Put("cli", [Idle EXCEPT !.cfg = [iface |-> i, enabled |-> TRUE, off |-> d], !.pc = pc])
    BY <1>9 DEF Proxy0Set
  <2>2. [iface |-> i, enabled |-> TRUE, off |-> d] \in Config
    BY DEF Config
  <2>3. Able([Idle EXCEPT !.cfg = [iface |-> i, enabled |-> TRUE, off |-> d], !.pc = pc])
    BY <1>c, <1>i, <2>2 DEF Place, Beyond
  <2>4. UNCHANGED <<run, flash, cfg, tlsOK>>
    BY <1>9 DEF Proxy0Set, Local
  <2> QED BY <1>j, <2>1, <2>3, <2>4, PutKeeps DEF Inv, Kept, Fit
<1>10. CASE Proxy0Off
  <2>1. Put("cli", [Idle EXCEPT !.cfg = [cfg EXCEPT !.enabled = FALSE], !.pc = "down"])
    BY <1>10 DEF Proxy0Off
  <2>2. [cfg EXCEPT !.enabled = FALSE] \in Config
    BY DEF Inv, Config
  <2>3. Able([Idle EXCEPT !.cfg = [cfg EXCEPT !.enabled = FALSE], !.pc = "down"])
    BY <1>c, <1>i, <2>2 DEF Place, Beyond
  <2>4. UNCHANGED <<run, flash, cfg, tlsOK>>
    BY <1>10 DEF Proxy0Off, Local
  <2> QED BY <1>j, <2>1, <2>3, <2>4, PutKeeps DEF Inv, Kept, Fit
<1> QED BY <1>1, <1>2, <1>3, <1>4, <1>5, <1>6, <1>7, <1>8, <1>9, <1>10 DEF Retrier, Cli

\* What ends the daemon's jobs, or the router's changes.
LEMMA EnvironmentKeeps ==
    ASSUME Inv, Purge \/ Restart \/ Reboot \/ Drift
    PROVE  Kept
<1>s. Able(Started) /\ Able(Idle) /\ Able([Idle EXCEPT !.pc = "purge", !.cfg = cfg])
  BY IdleIsAble, AllowedPlaces DEF Able, JobState, Started, Inv, Place, Beyond
<1>d. Dead(Daemon) \in [Job -> JobState] /\ \A k \in Job : Able(Dead(Daemon)[k])
  BY <1>s DEF Dead, Inv, Jobs, Able
<1>1. CASE Purge
  BY <1>1, <1>s, <1>d DEF Purge, Inv, Kept, JobsKept, Fit, Able
<1>2. CASE Restart
  BY <1>2, <1>s, <1>d DEF Restart, Local, Inv, Kept, JobsKept, Fit, Able
<1>3. CASE Reboot
  BY <1>3, <1>s DEF Reboot, Inv, Kept, JobsKept, Fit, Able
<1>4. CASE Drift
  <2>1. UNCHANGED <<flash, cfg, job, tlsOK>> /\ Fit(run')
    BY <1>4, Proxy0HealthAssumption DEF Drift, Inv, Fit, Router
  <2> QED BY <2>1 DEF Inv, Jobs, Kept, JobsKept, Fit
<1> QED BY <1>1, <1>2, <1>3, <1>4

-----------------------------------------------------------------------------
(* The theorems *)

\* The invariant holds at the start: nothing is bound, and the start-up job has begun.
LEMMA InitInv == Init => Inv
<1> SUFFICES ASSUME Init PROVE Inv
  OBVIOUS
<1>1. PICK site \in Sites :
         /\ cfg = [iface |-> Home, enabled |-> site.enabled, off |-> site.off]
         /\ run = (IF site.used THEN [Bare EXCEPT !.ours = {Home}, !.up = {Home}] ELSE Bare)
         /\ flash = run
  BY DEF Init
<1>2. site.enabled \in BOOLEAN /\ site.off \in BOOLEAN
  BY Proxy0HealthAssumption
<1>3. cfg \in Config
  BY <1>1, <1>2, Proxy0HealthAssumption DEF Config
<1>4. {} \in SUBSET Iface /\ {Home} \in SUBSET Iface
  BY Proxy0HealthAssumption
<1>5. Fit(run)
  BY <1>1, <1>4, Proxy0HealthAssumption DEF Bare, Fit, Router
<1>6. Able(Idle) /\ Able([Idle EXCEPT !.pc = "upstream", !.cfg = cfg])
  BY <1>3, IdleIsAble, AllowedPlaces DEF Able, JobState, Place, Beyond
<1>7. Jobs
  BY <1>6 DEF Init, Jobs, Able
<1> QED BY <1>1, <1>3, <1>5, <1>7 DEF Inv, Init

\* A step is counted as an event, as a fault, or not at all.
LEMMA StepsCount == Next => Smooth \/ Event \/ Fault
<1> DEFINE Counts == Smooth \/ Event \/ Fault
<1>1. ASSUME NEW j, Upstream(j) \/ BringsUp(j) \/ SavesUp(j) \/ ReadsUp(j) \/ Check(j) \/ proxy0InUse(j)
             \/ firmwareOK(j) \/ Notes(j) \/ DisableProxy0(j) \/ SavesDown(j) \/ Passes(j)
      PROVE  Counts
  BY <1>1 DEF Upstream, BringsUp, SavesUp, ReadsUp, Check, proxy0InUse, firmwareOK, Notes, needsSave,
     succeeded, failed, startRetry, DisableProxy0, SavesDown, Passes, Does, Reads
<1>2. ASSUME NEW j, Ensure(j) PROVE Counts
  BY <1>2 DEF Ensure, ReadsProfile, Makes, SetsMode, SetsRest, Others, Binds, Verifies, SavesCheck, Unsaved,
     Does, Reads
<1>3. ASSUME NEW j, Remove(j) PROVE Counts
  BY <1>3 DEF Remove, ReadsForRemoval, Unbinds, Deletes, SavesDeletion, Does, Reads
<1>4. ASSUME Retrier \/ Hour \/ Cli \/ PurgeReads \/ Proxy0Set \/ Proxy0Off \/ Purge \/ Restart \/ Reboot \/ Drift
      PROVE  Counts
  BY <1>4 DEF Retrier, Retries, Ends, Hour, Cli, OldDown, OldSave, Stores, PurgeReads, Proxy0Set, Proxy0Off,
     Purge, Restart, Reboot, Drift, Does, Reads
<1> QED BY <1>1, <1>2, <1>3, <1>4 DEF Next, Step

\* Every step keeps it.
LEMMA NextInv == Inv /\ [Next]_vars => Inv'
<1> SUFFICES ASSUME Inv, [Next]_vars PROVE Inv'
  OBVIOUS
<1>1. CASE Next
  <2>1. Kept
    BY <1>1, UpstreamKeeps, CheckKeeps, EnsureKeeps, RemoveKeeps, NotesKeep, StartsKeep,
       EnvironmentKeeps DEF Next, Step
  <2>2. events' \in Nat
    BY <1>1, StepsCount DEF Smooth, Event, Fault, Inv
  <2> QED BY <2>1, <2>2 DEF Kept, JobsKept, Inv, Jobs, Fit, Able, Allowed
<1>2. CASE UNCHANGED vars
  BY <1>2 DEF vars, Inv, Jobs, Fit, Able, Allowed
<1> QED BY <1>1, <1>2

\* Whatever the configuration in flash, what the running one becomes and what the jobs
\* still have to do are of one kind, and that is inductive.
THEOREM AlwaysInv == Spec => []Inv
<1> QED BY InitInv, NextInv, PTL DEF Spec

\* On a firmware without `mode tls' no job ever binds the check: the mode comes first, the
\* bind last, and a refused mode ends the attempt (EnsureProxy0HealthCheck).
THEOREM NeverBound == Spec => []NeverBoundWithoutTLS
<1>1. Inv => NeverBoundWithoutTLS
  BY DEF Inv, Fit, NeverBoundWithoutTLS
<1> QED BY <1>1, AlwaysInv, PTL

-----------------------------------------------------------------------------
(* The purge *)

(* Where the package's removal is: alone, in this order, and past the interface only when
   that is down or not this project's. *)
Past == {"savedown", "rread", "unbind0", "delete", "dsave"}
Removal ==
    /\ ~purged => job["purge"].pc = "idle"
    /\ purged => \A j \in Job \ {"purge"} : job[j].pc = "idle"
    /\ job["purge"].pc \in {"idle", "purge", "down"} \cup Past
    /\ job["purge"].pc # "idle" => ~job["purge"].chg
    /\ job["purge"].pc \in Past => I("purge") \notin run.ours \cap run.up

(* What the purge's own steps are, as far as its place and the interface go. *)
PurgeStep == PurgeReads \/ DisableProxy0("purge") \/ SavesDown("purge") \/ Remove("purge")

\* Jobs are records, one for each name.
LEMMA JobsAreRecords ==
    ASSUME Inv
    PROVE  /\ job \in [Job -> JobState] /\ "purge" \in Job /\ "cli" \in Job /\ "retrier" \in Job
           /\ "startup" \in Job /\ Reconciler \subseteq Job /\ run \in Router /\ flash \in Router
BY DEF Inv, Jobs, Fit, Job, Daemon

\* A job other than the purge leaves the purge's place and history as they are.
LEMMA PutElsewhere ==
    ASSUME Inv, NEW j \in Job \ {"purge"}, NEW r, Put(j, r)
    PROVE  job'["purge"] = job["purge"]
BY JobsAreRecords DEF Put

\* While a purge is under way nothing else takes a step of its own.
LEMMA Alone ==
    ASSUME Inv, Removal, purged, Next
    PROVE  PurgeStep \/ Reboot \/ Drift \/ Hour
<1>1. \A j \in Job \ {"purge"} : job[j].pc = "idle"
  BY DEF Removal
<1>2. ASSUME NEW j \in Job, Step(j) PROVE j = "purge"
  BY <1>1, <1>2 DEF Step, Upstream, BringsUp, SavesUp, ReadsUp, Check, proxy0InUse, firmwareOK, Ensure,
     ReadsProfile, Makes, SetsMode, SetsRest, Others, Binds, Verifies, SavesCheck, Unsaved, Remove,
     ReadsForRemoval, Unbinds, Deletes, SavesDeletion, Notes, needsSave, succeeded, failed, startRetry,
     DisableProxy0, SavesDown, At
<1>3. ASSUME Step("purge") PROVE PurgeStep
  <2>1. job["purge"].pc \in {"idle", "purge", "down"} \cup Past
    BY DEF Removal
  <2> QED
    BY <1>3, <2>1 DEF Step, Upstream, BringsUp, SavesUp, ReadsUp, Check, proxy0InUse, firmwareOK, Ensure,
       ReadsProfile, Makes, SetsMode, SetsRest, Others, Binds, Verifies, SavesCheck, Unsaved, Notes,
       needsSave, succeeded, failed, startRetry, At, Past, PurgeStep
<1>4. ASSUME NEW j \in Reconciler, Passes(j) PROVE FALSE
  BY <1>4 DEF Passes
<1>5. ~Retrier /\ ~Cli
  BY <1>1, JobsAreRecords DEF Retrier, Retries, Ends, Cli, OldDown, OldSave, Stores, At
<1>6. ~Proxy0Set /\ ~Proxy0Off /\ ~Purge /\ ~Restart
  BY DEF Proxy0Set, Proxy0Off, Purge, Restart
<1> QED BY <1>2, <1>3, <1>4, <1>5, <1>6 DEF Next, PurgeStep

(* A step of the purge, in short: from where to where, and what it does to the router. *)
Onward(pcs) ==
    /\ job'["purge"].pc \in pcs /\ \A j \in Job \ {"purge"} : job'[j] = job[j]
    /\ job'["purge"].pc # "idle" => job'["purge"].cfg = job["purge"].cfg /\ ~job'["purge"].chg

\* The ways of a command or a read of the purge.
LEMMA PurgeMoves ==
    ASSUME Inv, Removal, job["purge"].pc # "idle",
           NEW then \in Place, NEW else \in Place, Moves("purge", then, else),
           NEW pcs, \A pc \in {then, else} : (IF pc = "end" THEN "idle" ELSE pc) \in pcs
    PROVE  Onward(pcs)
<1>1. job \in [Job -> JobState] /\ "purge" \in Job /\ ~job["purge"].chg
  BY JobsAreRecords DEF Removal
<1>2. job["purge"] \in JobState /\ Idle.pc = "idle"
  BY <1>1 DEF Idle
<1>3. CASE Goes("purge", then)
  BY <1>1, <1>2, <1>3 DEF Goes, Put, Onward, JobState
<1>4. ASSUME NEW e, Fails("purge", e, else) PROVE Onward(pcs)
  BY <1>1, <1>2, <1>4 DEF Fails, Put, Onward, JobState
<1>5. CASE Put("purge", [job["purge"] EXCEPT !.pc = else, !.late = TRUE, !.err = IF @ = None THEN "soon" ELSE @])
  BY <1>1, <1>2, <1>5 DEF Put, Onward, JobState
<1> QED BY <1>3, <1>4, <1>5 DEF Moves

\* Each step of the purge, by its place: the interface goes down before anything else, and
\* `up' and `ours' never grow.
LEMMA PurgeSteps ==
    ASSUME Inv, Removal, purged, PurgeStep
    PROVE  /\ UNCHANGED purged /\ job["purge"].pc # "idle"
           /\ run'.up \subseteq run.up /\ run'.ours = run.ours
           /\ flash' = flash \/ flash' = run
           /\ run'.on = run.on \/ job["purge"].pc \in Past
           /\ \/ Onward({"down", "idle"}) /\ job["purge"].pc = "purge"
              \/ /\ Onward({"rread", "idle"}) /\ job["purge"].pc = "purge" /\ UNCHANGED run
                 /\ I("purge") \notin run.ours \/ job'["purge"].pc = "idle"
              \/ /\ Onward({"savedown", "idle"}) /\ job["purge"].pc = "down"
                 /\ I("purge") \notin run'.up \/ job'["purge"].pc = "idle"
              \/ Onward(Past \cup {"idle"}) /\ job["purge"].pc \in Past
<1>0. /\ job \in [Job -> JobState] /\ "purge" \in Job /\ run \in Router /\ flash \in Router
      /\ job["purge"].pc # "idle" => ~job["purge"].chg
  BY JobsAreRecords DEF Removal
<1>1. CASE PurgeReads
  <2>1. At("purge", "purge") /\ UNCHANGED <<run, flash, purged>>
    BY <1>1 DEF PurgeReads, Reads, Local
  <2>2. CASE I("purge") \in run.ours
    <3>1. Moves("purge", "down", "end")
      BY <1>1, <2>2 DEF PurgeReads, Reads, Moves
    <3>2. Onward({"down", "idle"})
      BY <2>1, <3>1, PurgeMoves DEF Place, At
    <3> QED BY <2>1, <3>2 DEF At
  <2>3. CASE I("purge") \notin run.ours
    <3>1. Moves("purge", "rread", "end")
      BY <1>1, <2>3 DEF PurgeReads, Reads, Moves
    <3>2. Onward({"rread", "idle"})
      BY <2>1, <3>1, PurgeMoves DEF Place, At
    <3> QED BY <2>1, <2>3, <3>2 DEF At
  <2> QED BY <2>2, <2>3
<1>2. CASE DisableProxy0("purge")
  <2>1. At("purge", "down") /\ UNCHANGED <<purged>> /\ Moves("purge", "savedown", "end")
    BY <1>2 DEF DisableProxy0, Does, Moves
  <2>2. Onward({"savedown", "idle"})
    BY <2>1, PurgeMoves DEF Place, At
  <2>3. /\ flash' = flash
        /\ run' = run \/ run' = [run EXCEPT !.up = @ \ {I("purge")}]
    BY <1>2 DEF DisableProxy0, Does, Becomes, Unsent
  <2>4. Goes("purge", "savedown") => run' = [run EXCEPT !.up = @ \ {I("purge")}]
    <3>1. \/ Becomes([run EXCEPT !.up = @ \ {I("purge")}])
          \/ Fails("purge", "soon", "end") \/ Fails("purge", "hour", "end")
          \/ Put("purge", [job["purge"] EXCEPT !.pc = "end", !.late = TRUE, !.err = IF @ = None THEN "soon" ELSE @])
      BY <1>2 DEF DisableProxy0, Does
    <3>2. Goes("purge", "savedown") => job'["purge"].pc = "savedown"
      BY <1>0 DEF Goes, Put, JobState
    <3>3. Fails("purge", "soon", "end") \/ Fails("purge", "hour", "end") => job'["purge"].pc = "idle"
      BY <1>0 DEF Fails, Put, JobState, Idle
    <3>4. Put("purge", [job["purge"] EXCEPT !.pc = "end", !.late = TRUE, !.err = IF @ = None THEN "soon" ELSE @])
             => job'["purge"].pc = "idle"
      BY <1>0 DEF Put, JobState, Idle
    <3> QED BY <3>1, <3>2, <3>3, <3>4 DEF Becomes
  <2>5. ~Goes("purge", "savedown") => job'["purge"].pc = "idle"
    BY <1>0, <2>1 DEF Moves, Fails, Put, JobState, Idle
  <2> QED BY <1>0, <2>1, <2>2, <2>3, <2>4, <2>5 DEF At, Router
<1>3. CASE SavesDown("purge")
  <2>1. At("purge", "savedown") /\ UNCHANGED <<run, purged>> /\ Moves("purge", "rread", "end")
    BY <1>3 DEF SavesDown, Does, Moves, DownDone, SaveConfig, Unsent
  <2>2. Onward({"rread", "idle"})
    BY <2>1, PurgeMoves DEF Place, At
  <2>3. flash' = flash \/ flash' = run
    BY <1>3 DEF SavesDown, Does, SaveConfig, Unsent
  <2> QED BY <2>1, <2>2, <2>3 DEF At, Onward, Past
<1>4. CASE ReadsForRemoval("purge")
  <2>1. At("purge", "rread") /\ UNCHANGED <<run, flash, purged>>
    BY <1>4 DEF ReadsForRemoval, Reads, Local
  <2>2. CASE Moves("purge", "end", "end")
    <3>1. Onward({"idle"})
      BY <2>1, <2>2, PurgeMoves DEF Place, At
    <3> QED BY <2>1, <3>1 DEF At, Onward, Past
  <2>3. CASE Put("purge", [job["purge"] EXCEPT !.pc = "unbind0", !.cur = run.on])
    <3>1. Onward({"unbind0"})
      BY <1>0, <2>1, <2>3 DEF Put, Onward, JobState, At
    <3> QED BY <2>1, <3>1 DEF At, Onward, Past
  <2> QED BY <1>4, <2>2, <2>3 DEF ReadsForRemoval, Reads, Moves
<1>5. CASE Unbinds("purge")
  <2>1. At("purge", "unbind0") /\ UNCHANGED purged /\ Moves("purge", "delete", "delete")
    BY <1>5 DEF Unbinds, Does, Moves
  <2>2. Onward({"delete"})
    BY <2>1, PurgeMoves DEF Place, At
  <2>3. flash' = flash /\ (run' = run \/ run' = [run EXCEPT !.on = @ \ job["purge"].cur])
    BY <1>5 DEF Unbinds, Does, Becomes, Unsent
  <2> QED BY <1>0, <2>1, <2>2, <2>3 DEF At, Onward, Past, Router
<1>6. CASE Deletes("purge")
  <2>1. At("purge", "delete") /\ UNCHANGED purged /\ Moves("purge", "dsave", "end")
    BY <1>0, <1>6 DEF Deletes, Does, Moves, Cleaned, At
  <2>2. Onward({"dsave", "idle"})
    BY <2>1, PurgeMoves DEF Place, At
  <2>3. /\ flash' = flash
        /\ run' = run \/ run' = [run EXCEPT !.mode = None, !.full = FALSE, !.on = {}]
    BY <1>6 DEF Deletes, Does, Becomes, Unsent
  <2> QED BY <1>0, <2>1, <2>2, <2>3 DEF At, Onward, Past, Router
<1>7. CASE SavesDeletion("purge")
  <2>1. At("purge", "dsave") /\ UNCHANGED <<run, purged>> /\ Moves("purge", "end", "end")
    BY <1>0, <1>7 DEF SavesDeletion, Does, Moves, Cleaned, At, SaveConfig, Unsent
  <2>2. Onward({"idle"})
    BY <2>1, PurgeMoves DEF Place, At
  <2>3. flash' = flash \/ flash' = run
    BY <1>7 DEF SavesDeletion, Does, SaveConfig, Unsent
  <2> QED BY <2>1, <2>2, <2>3 DEF At, Onward, Past
<1> QED BY <1>1, <1>2, <1>3, <1>4, <1>5, <1>6, <1>7 DEF PurgeStep, Remove

\* At the start nothing is being removed.
LEMMA InitRemoval == Init => Removal
<1> SUFFICES ASSUME Init PROVE Removal
  OBVIOUS
<1>1. "purge" \in Job /\ ~purged /\ Idle.pc = "idle"
  BY DEF Init, Job, Idle
<1>2. job["purge"] = Idle
  BY <1>1 DEF Init
<1> QED BY <1>1, <1>2 DEF Removal, Past

\* The removal's invariant, step by step: before it has begun, begun, cut short, its own.
LEMMA NextRemoval == Inv /\ Removal /\ [Next]_vars => Removal'
<1> SUFFICES ASSUME Inv, Removal, [Next]_vars PROVE Removal'
  OBVIOUS
<1>0. job \in [Job -> JobState] /\ "purge" \in Job /\ run \in Router /\ flash \in Router
  BY JobsAreRecords
<1>1. CASE UNCHANGED vars
  BY <1>1 DEF vars, Removal, I
<1>2. CASE Next /\ purged
  <2>1. CASE PurgeStep
    <3>1. \A j \in Job \ {"purge"} : job'[j].pc = "idle"
      BY <1>2, <2>1, PurgeSteps DEF Removal, Onward
    <3>2. job'["purge"].pc \in {"down", "idle"} \cup Past /\ purged'
      BY <1>2, <2>1, PurgeSteps DEF Onward, Past
    <3>3. job'["purge"].pc # "idle" => ~job'["purge"].chg /\ I("purge")' = I("purge")
      BY <1>2, <2>1, PurgeSteps DEF Onward, I
    <3>4. ASSUME job'["purge"].pc \in Past PROVE I("purge") \notin run'.ours \cap run'.up
      BY <1>2, <2>1, <3>4, PurgeSteps DEF Onward, Past, Removal
    <3> QED BY <3>1, <3>2, <3>3, <3>4 DEF Removal, Past
  <2>2. CASE Reboot
    <3>1. purged' /\ \A j \in Job : job'[j] = Idle
      BY <1>2, <2>2 DEF Reboot
    <3> QED BY <1>0, <3>1 DEF Removal, Idle, Past
  <2>3. CASE Drift
    <3>1. /\ UNCHANGED <<job, purged>> /\ run'.up = run.up
          /\ run'.ours \subseteq run.ours
      BY <1>0, <2>3 DEF Drift, Router
    <3> QED BY <3>1 DEF Removal, I
  <2>4. CASE Hour
    BY <2>4 DEF Hour, Local, Removal, I
  <2> QED BY <1>2, <2>1, <2>2, <2>3, <2>4, Alone
<1>3. CASE Next /\ ~purged
  <2>0. job["purge"].pc = "idle"
    BY <1>3 DEF Removal
  <2>1. CASE Purge
    <3>1. /\ purged' /\ job'["purge"] = [Idle EXCEPT !.pc = "purge", !.cfg = cfg]
          /\ \A j \in Job \ {"purge"} : job'[j] = Dead(Daemon)[j]
      BY <1>0, <2>1 DEF Purge, Dead
    <3>2. \A j \in Job \ {"purge"} : job'[j].pc = "idle"
      BY <2>1, <3>1 DEF Purge, Dead, At, Idle, Job
    <3>3. job'["purge"].pc = "purge" /\ ~job'["purge"].chg
      BY <3>1 DEF Idle
    <3> QED BY <3>1, <3>2, <3>3 DEF Removal, Past
  <2>2. CASE ~Purge
    <3>1. UNCHANGED purged /\ job'["purge"].pc = "idle"
      <4>1. ASSUME NEW j \in Job, Step(j) PROVE UNCHANGED purged /\ job'["purge"].pc = "idle"
        <5>1. j # "purge"
          BY <2>0, <4>1 DEF Step, Upstream, BringsUp, SavesUp, ReadsUp, Check, proxy0InUse, firmwareOK, Ensure,
             ReadsProfile, Makes, SetsMode, SetsRest, Others, Binds, Verifies, SavesCheck, Unsaved, Remove,
             ReadsForRemoval, Unbinds, Deletes, SavesDeletion, Notes, needsSave, succeeded, failed, startRetry,
             DisableProxy0, SavesDown, At
        <5>2. UNCHANGED purged
          BY <4>1 DEF Step, Upstream, BringsUp, SavesUp, ReadsUp, Check, proxy0InUse, firmwareOK, Ensure,
             ReadsProfile, Makes, SetsMode, SetsRest, Others, Binds, Verifies, SavesCheck, Unsaved, Remove,
             ReadsForRemoval, Unbinds, Deletes, SavesDeletion, Notes, needsSave, succeeded, failed, startRetry,
             DisableProxy0, SavesDown, Does, Reads, Local
        <5>3. (\E r : Put(j, r)) \/ startRetry(j)
          BY <4>1 DEF Step, Upstream, BringsUp, SavesUp, ReadsUp, Check, proxy0InUse, firmwareOK, Ensure,
             ReadsProfile, Makes, SetsMode, SetsRest, Others, Binds, Verifies, SavesCheck, Unsaved, Remove,
             ReadsForRemoval, Unbinds, Deletes, SavesDeletion, Notes, needsSave, succeeded, failed,
             DisableProxy0, SavesDown, Does, Reads, Goes, Fails
        <5>4. (\E r : Put(j, r)) => job'["purge"] = job["purge"]
          BY <5>1, PutElsewhere
        <5>5. startRetry(j) => job'["purge"] = job["purge"]
          BY <1>0, <5>1, PutElsewhere DEF startRetry
        <5> QED BY <2>0, <5>2, <5>3, <5>4, <5>5
      <4>2. ASSUME NEW j \in Reconciler, Passes(j) PROVE UNCHANGED purged /\ job'["purge"].pc = "idle"
        <5>1. j \in Job \ {"purge"}
          BY JobsAreRecords, Proxy0HealthAssumption
        <5> QED BY <2>0, <4>2, <5>1, PutElsewhere DEF Passes, Local
      <4>3. CASE Retrier
        BY <2>0, <4>3, PutElsewhere, JobsAreRecords DEF Retrier, Retries, Ends, Local
      <4>4. CASE Hour \/ Drift
        BY <2>0, <4>4 DEF Hour, Drift, Local
      <4>5. CASE Cli
        BY <2>0, <4>5, PutElsewhere, JobsAreRecords DEF Cli, OldDown, OldSave, Stores, Does, Goes, Fails
      <4>6. CASE PurgeReads
        BY <2>0, <4>6 DEF PurgeReads, At
      <4>7. CASE Proxy0Set \/ Proxy0Off
        BY <2>0, <4>7, PutElsewhere, JobsAreRecords DEF Proxy0Set, Proxy0Off, Local
      <4>8. CASE Restart
        BY <1>0, <2>0, <4>8 DEF Restart, Local, Dead, Idle
      <4>9. CASE Reboot
        BY <1>0, <4>9 DEF Reboot, Idle
      <4> QED BY <1>3, <2>2, <4>1, <4>2, <4>3, <4>4, <4>5, <4>6, <4>7, <4>8, <4>9 DEF Next
    <3> QED BY <1>3, <3>1 DEF Removal, Past
  <2> QED BY <2>1, <2>2
<1> QED BY <1>1, <1>2, <1>3

\* However a purge is refused, late or cut short, none of its steps leaves the interface up
\* and pointing at the dead inbound without the check it had (purgeProxy0).
THEOREM PurgeKeeps == Spec => PurgeKeepsFallback
<1>1. ASSUME Inv, Removal, [Next]_vars, purged, job["purge"].pc # "idle", events' = events
      PROVE  LET i == I("purge") IN
             /\ Falls(run, i) => Falls(run', i)
             /\ Falls(flash, i) /\ Falls(run, i) => Falls(flash', i)
  <2>1. CASE UNCHANGED vars \/ Hour
    BY <2>1 DEF vars, Hour, Local, Falls
  <2>2. CASE PurgeStep
    <3>1. CASE job["purge"].pc \in Past
      BY <1>1, <2>2, <3>1, PurgeSteps DEF Falls, Removal
    <3>2. CASE job["purge"].pc \notin Past
      BY <1>1, <2>2, <3>2, PurgeSteps DEF Falls
    <3> QED BY <3>1, <3>2
  <2>3. ~Event
    BY <1>1 DEF Inv, Event
  <2>4. ~Reboot /\ ~Drift
    BY <2>3 DEF Reboot, Drift
  <2> QED BY <1>1, <2>1, <2>2, <2>4, Alone
<1>2. Inv /\ Removal /\ [Next]_vars => [purged /\ job["purge"].pc # "idle" /\ events' = events =>
          LET i == I("purge") IN
          /\ Falls(run, i) => Falls(run', i)
          /\ Falls(flash, i) /\ Falls(run, i) => Falls(flash', i)]_vars
  BY <1>1
<1> QED BY <1>2, InitInv, NextInv, InitRemoval, NextRemoval, PTL DEF Spec, PurgeKeepsFallback
=============================================================================
