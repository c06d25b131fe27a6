----------------------------- MODULE Autopilot -----------------------------
(* The measuring campaign of a device (autopilot-browser.mjs) and what the  *)
(* verifier of its captures admits (verify-evidence.mjs).  The page awaits  *)
(* timers, fetches and worker messages; the operator may press every button *)
(* that is enabled in between.  Durations are full, scaled or cut short.    *)
EXTENDS Naturals, SequencesExt

CONSTANTS Devices, None,
          Hidden,   \* devices whose class needs the lifecycle cycles
          Steps,    \* the repetitions of a campaign: "timed" or "normal", in order
          MaxAsks, MaxTime, MaxCaptures, MaxStops \* bounds: lock requests at once, locks and runs, captures, presses of Stop

AutopilotAssumption == Hidden \subseteq Devices /\ Steps \in Seq({"timed", "normal"}) \ {<<>>}

VARIABLES form, mode, held, \* the device and mode fields; whether device fields are disabled
          asking, lock,     \* lockSelection calls that wait for /status; the selection lock
          camp,             \* the campaign: where it is, and what its capture will say
          stopped, stops,
          worker, stray, starting, handling, \* the miner: see below
          zombie,           \* a lifecycle session whose loop goes on
          captures, now
fields == <<form, mode, held>>
miner == <<worker, stray, starting, handling>>
vars == <<fields, asking, lock, camp, stopped, stops, miner, zombie, captures, now>>

(* Work belongs to the running session ("live") or to one that is over:     *)
(* worker is the active one, a stray runs without being the active one,     *)
(* starting are the startWork calls that wait for a template, and handling  *)
(* is a solution that waits for the node.                                   *)
Ages == {"live", "old"}
Age(x) == IF x = "live" THEN "old" ELSE x
Mining == worker # None \/ stray # None
Idle == [at |-> "idle", step |-> 0, full |-> TRUE, begun |-> 0, lock |-> None, quiet |-> TRUE, cut |-> FALSE,
         device |-> None, mode |-> None, awaits |-> None]
InSession == camp.at \in {"warm", "measure", "hidden"}

Init ==
    /\ form \in Devices /\ mode \in {"physical", "rehearsal"} /\ held = FALSE /\ asking = <<>> /\ lock = None
    /\ camp = Idle /\ stopped = FALSE /\ stops = 0 /\ worker = None /\ stray = None /\ starting = {} /\ handling = None
    /\ zombie = FALSE /\ captures = <<>> /\ now = 1
-----------------------------------------------------------------------------
SetForm(d) == ~held /\ form' = d /\ UNCHANGED <<mode, held, asking, lock, camp, stopped, stops, miner, zombie, captures, now>>
SetMode(m) == mode' = m /\ UNCHANGED <<form, held, asking, lock, camp, stopped, stops, miner, zombie, captures, now>>

(* lockSelection: the fields are read, the tip is asked for, and then the   *)
(* lock is set.                                                             *)
AskLock ==
    /\ ~held /\ captures = <<>> /\ Len(asking) < MaxAsks /\ asking' = Append(asking, form)
    /\ UNCHANGED <<fields, lock, camp, stopped, stops, miner, zombie, captures, now>>
LockAnswer(i) ==
    /\ asking' = RemoveAt(asking, i) /\ now < MaxTime /\ now' = now + 1
    /\ lock' = [device |-> asking[i], at |-> now] /\ held' = TRUE
    /\ UNCHANGED <<form, mode, camp, stopped, stops, miner, zombie, captures>>
LockFails(i) == asking' = RemoveAt(asking, i) /\ UNCHANGED <<fields, lock, camp, stopped, stops, miner, zombie, captures, now>>
(* resetLock                                                                *)
Unlock ==
    /\ held /\ captures = <<>> /\ lock' = None /\ held' = FALSE
    /\ UNCHANGED <<form, mode, asking, camp, stopped, stops, miner, zombie, captures, now>>
-----------------------------------------------------------------------------
(* startWork until its template comes: the active worker is terminated.     *)
StartWork(age) == worker' = None /\ starting' = starting \cup {age} /\ UNCHANGED stray
(* A session begins: miningSession up to its first template.                *)
OldWork == worker' = None /\ stray' = Age(stray) /\ starting' = {Age(x) : x \in starting} /\ handling' = Age(handling)
(* The end of runCampaign, after its last step or an error.                 *)
Finish == camp' = Idle /\ stopped' = FALSE /\ OldWork
Session(c) == camp' = [c EXCEPT !.awaits = "first"] /\ stopped' = FALSE /\ OldWork

(* The next repetition, or the lifecycle cycles, or the end.                *)
Begin(c, step) ==
    LET next == [Idle EXCEPT !.step = step, !.full = c.full, !.begun = now, !.lock = lock] IN
    IF step <= Len(Steps) /\ Steps[step] = "timed" THEN Session([next EXCEPT !.at = "warm"])
    ELSE IF step <= Len(Steps) THEN camp' = [next EXCEPT !.at = "baseline"] /\ UNCHANGED <<stopped, miner>>
    ELSE IF step = Len(Steps) + 1 /\ lock # None /\ lock.device \in Hidden THEN Session([next EXCEPT !.at = "hidden"])
    ELSE Finish
Run ==
    /\ camp.at = "idle" /\ lock # None /\ now < MaxTime /\ Len(captures) < MaxCaptures /\ now' = now + 1
    /\ Begin([Idle EXCEPT !.full = (mode = "physical")], 1)
    /\ UNCHANGED <<fields, asking, lock, stops, zombie, captures>>

(* The template the session's own loop waits for; an error of the first one *)
(* ends the campaign, unless it waits for the lifecycle cycles.             *)
Open ==
    /\ camp.awaits # None
    /\ \/ /\ camp' = [camp EXCEPT !.awaits = None] /\ worker' = IF stopped THEN None ELSE "live"
          /\ stray' = (IF worker = None THEN stray ELSE worker) /\ UNCHANGED <<stopped, starting, handling>>
       \/ camp.awaits = "poll" /\ camp' = [camp EXCEPT !.awaits = None] /\ UNCHANGED <<stopped, miner>>
       \/ camp.awaits = "first" /\ camp.at # "hidden" /\ Finish
    /\ UNCHANGED <<fields, asking, lock, stops, zombie, captures, now>>
Template(age) ==
    /\ age \in starting /\ starting' = starting \ {age}
    /\ \/ worker' = age /\ stray' = (IF worker = None THEN stray ELSE worker)
       \/ UNCHANGED <<worker, stray>>
    /\ UNCHANGED <<fields, asking, lock, camp, stopped, stops, handling, zombie, captures, now>>
(* A worker finds a solution and ends; the handler asks the node.           *)
Solve ==
    /\ handling = None
    /\ \/ worker # None /\ handling' = worker /\ worker' = None /\ UNCHANGED stray
       \/ stray # None /\ handling' = stray /\ stray' = None /\ UNCHANGED worker
    /\ UNCHANGED <<fields, asking, lock, camp, stopped, stops, starting, zombie, captures, now>>
(* Stale or invalid work is replaced at once; after a submission only while *)
(* the session runs.                                                        *)
Handled ==
    /\ handling # None /\ handling' = None
    /\ \/ StartWork(handling)
       \/ UNCHANGED <<worker, stray, starting>>
    /\ UNCHANGED <<fields, asking, lock, camp, stopped, stops, zombie, captures, now>>
(* The poll of a session that saw another tip.                              *)
Poll ==
    /\ \/ InSession /\ camp.awaits = None /\ ~stopped /\ camp' = [camp EXCEPT !.awaits = "poll"] /\ worker' = None /\ UNCHANGED <<stray, starting>>
       \/ zombie /\ ~stopped /\ StartWork("old") /\ UNCHANGED camp
    /\ UNCHANGED <<fields, asking, lock, stopped, stops, handling, zombie, captures, now>>
-----------------------------------------------------------------------------
(* interactionProbe of the baseline, while something mines.                 *)
Probe ==
    /\ camp.at = "baseline" /\ Mining /\ camp' = [camp EXCEPT !.quiet = FALSE]
    /\ UNCHANGED <<fields, asking, lock, stopped, stops, miner, zombie, captures, now>>
BaselineEnds ==
    /\ camp.at = "baseline" /\ IF stopped THEN Finish ELSE Session([camp EXCEPT !.at = "warm"])
    /\ UNCHANGED <<fields, asking, lock, stops, zombie, captures, now>>
(* The loop of the warm-up sees that its time is over, or the stop.         *)
WarmEnds ==
    /\ camp.at = "warm" /\ camp.awaits = None /\ IF stopped THEN Finish ELSE Session([camp EXCEPT !.at = "measure"])
    /\ UNCHANGED <<fields, asking, lock, stops, zombie, captures, now>>
(* The end of the measurement: createCapture reads the fields and waits for *)
(* the telemetry.                                                           *)
Packing(c) == [c EXCEPT !.at = "package", !.device = form, !.mode = mode]
MeasureEnds ==
    /\ camp.at = "measure" /\ camp.awaits = None /\ camp' = Packing([camp EXCEPT !.cut = stopped]) /\ OldWork
    /\ UNCHANGED <<fields, asking, lock, stopped, stops, zombie, captures, now>>
(* runLifecycle: five cycles, then the loop is given 100 ms to see the      *)
(* stop; it sleeps up to 250.                                               *)
CyclesDone ==
    /\ camp.at = "hidden"
    /\ \/ camp' = Packing(camp) /\ OldWork /\ zombie' \in BOOLEAN /\ UNCHANGED stopped
       \/ camp.awaits = "first" /\ Finish /\ UNCHANGED zombie
    /\ UNCHANGED <<fields, asking, lock, stops, captures, now>>
Package ==
    LET c == [kind |-> IF camp.step <= Len(Steps) THEN Steps[camp.step] ELSE "lifecycle", device |-> camp.device, mode |-> camp.mode,
              lock |-> lock, begun |-> camp.begun, full |-> camp.full, cut |-> camp.cut, quiet |-> camp.quiet, held |-> camp.lock] IN
    /\ camp.at = "package" /\ captures' = Append(captures, c) /\ camp' = [camp EXCEPT !.at = "sent"]
    /\ UNCHANGED <<fields, asking, lock, stopped, stops, miner, zombie, now>>
(* The local agent answered, or there is none.                              *)
Continue ==
    /\ camp.at = "sent"
    /\ IF stopped \/ Len(captures) >= MaxCaptures \/ now >= MaxTime THEN Finish /\ UNCHANGED now ELSE Begin(camp, camp.step + 1) /\ now' = now + 1
    /\ UNCHANGED <<fields, asking, lock, stops, zombie, captures>>

(* The stop button.  In the lifecycle step nobody answers any more.         *)
Stop ==
    /\ camp.at # "idle" /\ stops < MaxStops /\ stops' = stops + 1 /\ stopped' = TRUE /\ worker' = None
    /\ camp' = IF camp.at = "hidden" THEN [camp EXCEPT !.at = "stuck", !.awaits = None] ELSE camp
    /\ UNCHANGED <<fields, asking, lock, stray, starting, handling, zombie, captures, now>>
ZombieEnds ==
    /\ zombie /\ stopped /\ zombie' = FALSE /\ worker' = None
    /\ UNCHANGED <<fields, asking, lock, camp, stopped, stops, stray, starting, handling, captures, now>>

Next ==
    \/ \E d \in Devices : SetForm(d)
    \/ \E m \in {"physical", "rehearsal"} : SetMode(m)
    \/ AskLock \/ Unlock \/ Run \/ Stop \/ \E i \in DOMAIN asking : LockAnswer(i) \/ LockFails(i)
    \/ Open \/ Solve \/ Handled \/ Poll \/ \E age \in Ages : Template(age)
    \/ Probe \/ BaselineEnds \/ WarmEnds \/ MeasureEnds \/ CyclesDone \/ Package \/ Continue \/ ZombieEnds
Spec == Init /\ [][Next]_vars
(* Timers fire and fetches settle.                                          *)
Fairness == WF_vars(Open) /\ WF_vars(BaselineEnds) /\ WF_vars(WarmEnds) /\ WF_vars(MeasureEnds) /\ WF_vars(Package) /\ WF_vars(Continue)
FairSpec == Spec /\ Fairness
-----------------------------------------------------------------------------
(* verifyEvidenceBundle, for a capture that claims to be physical.          *)
NoClock(c) == c.mode = "physical" /\ c.lock # None /\ c.lock.device = c.device /\ (c.kind = "lifecycle" \/ (c.full /\ ~c.cut)) (* Mutant: the times of lock and run are not compared. *)
Admitted(c) ==
    /\ c.mode = "physical" /\ c.lock # None /\ c.lock.device = c.device /\ c.lock.at < c.begun
    /\ c.kind = "lifecycle" \/ (c.full /\ ~c.cut)

(* The variables have their types.                                          *)
TypeOK ==
    /\ form \in Devices /\ held \in BOOLEAN /\ Len(asking) <= MaxAsks /\ (lock = None \/ lock.at < now) /\ camp.step \in 0..(Len(Steps) + 1)
    /\ (camp.at = "idle" => camp = Idle) /\ {worker, stray, handling} \subseteq Ages \cup {None} /\ starting \subseteq Ages /\ Len(captures) <= MaxCaptures + 1

(* Whatever the operator presses while it runs: a capture that the verifier *)
(* admits names the lock that was set when its run began.                   *)
AdmittedHonest == \A i \in DOMAIN captures : Admitted(captures[i]) => captures[i].held = captures[i].lock

(* A campaign without lifecycle cycles ends after Stop is pressed.          *)
StopEnds == []<>(stopped => camp.at = "idle")

=============================================================================
