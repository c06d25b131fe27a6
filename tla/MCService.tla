------------------------------ MODULE MCService ------------------------------
(* What serves the miners and measures them: a share coordinator, the page  *)
(* that mines, the campaign of a device, and the verdict on what campaigns  *)
(* collect.  A behaviour is about one of them, its `part'; the others stay  *)
(* where they start.                                                        *)
EXTENDS Naturals, TLC

CONSTANTS Parts, None, c1, c2, d1, d2, l1, l2, a1

VARIABLES part,
          up, shares, lines, unended, cut, jobs, live, calls, tip, acked, refused, faults, \* ShareCoordinator
          form, mode, held, asking, lock, camp, stopped, stops,                    \* Autopilot
          worker, stray, starting, handling, zombie, captures, now,
          staging, bundle, job, report, aborted, imports, failed,                 \* EvidencePortfolio
          lp, mining, wallet, pow, obs, cooling, cursor                           \* MiningLoop, and `tip'
shareVars == <<up, shares, lines, unended, cut, jobs, live, calls, tip, acked, refused, faults>>
campVars == <<form, mode, held, asking, lock, camp, stopped, stops, worker, stray, starting, handling, zombie, captures, now>>
portVars == <<staging, bundle, job, report, aborted, imports, failed>>
pageVars == <<lp, mining, wallet, pow, obs, cooling, cursor>>
vars == <<part, shareVars, campVars, portVars, pageVars>>

(* Two handlers at a time; and an address more than a coinbase has outputs. *)
Handlers == {c1, c2}
Handler == {c1}
Two == {1, 2}
Three == {1, 2, 3}
OnlyTwo == {2}
OnlyOne == {1}
NoNonce == {}
Atoms3 == {3}
Atoms2 == {2}
Shares == INSTANCE ShareCoordinator WITH Clients <- Handlers, Addresses <- OnlyOne, Nonces <- Two, BlockNonces <- OnlyTwo,
    WindowSize <- 2, MaxOutputs <- 2, Rewards <- Atoms3, MaxJobs <- 2, MaxTip <- 1, MaxFaults <- 0
CutShares == INSTANCE ShareCoordinator WITH Clients <- Handler, Addresses <- OnlyOne, Nonces <- Two, BlockNonces <- OnlyTwo,
    WindowSize <- 2, MaxOutputs <- 2, Rewards <- Atoms3, MaxJobs <- 2, MaxTip <- 0, MaxFaults <- 1
Payouts == INSTANCE ShareCoordinator WITH Clients <- Handler, Addresses <- Three, Nonces <- OnlyOne, BlockNonces <- NoNonce,
    WindowSize <- 3, MaxOutputs <- 2, Rewards <- Atoms2, MaxJobs <- 3, MaxTip <- 0, MaxFaults <- 0

(* Two classes of device whose fields change while the tip is asked for     *)
(* twice; and a class with lifecycle cycles, whose run may be stopped.      *)
DeviceClasses == {d1, d2}
Second == {d2}
NoCycles == {}
OneNormal == <<"normal">>
Campaign == INSTANCE Autopilot WITH Devices <- DeviceClasses, Hidden <- NoCycles, Steps <- OneNormal, MaxAsks <- 2,
    MaxTime <- 4, MaxCaptures <- 1, MaxStops <- 0
Lifecycle == INSTANCE Autopilot WITH Devices <- Second, Hidden <- Second, Steps <- OneNormal, MaxAsks <- 1,
    MaxTime <- 4, MaxCaptures <- 2, MaxStops <- 1

(* Three machines of two classes; some captures are of no use: broken off,  *)
(* mislabelled, rehearsed, or contaminated.                                 *)
OneCapture(id, class, device, kind, rate, how, flaws, stages, collects) ==
    [id |-> id, class |-> class, device |-> device, isa |-> device, form |-> class, kind |-> kind, rep |-> 1, rate |-> rate,
     mode |-> how, flaws |-> flaws, stages |-> stages, collects |-> collects]
Good(id, class, device, kind, rate) == OneCapture(id, class, device, kind, rate, "physical", {}, TRUE, TRUE)
Pure1 == Good(1, d1, 1, "pure", 1)
Pure2 == Good(3, d2, 2, "pure", 3)
Exported == {<<Pure1, Good(2, d1, 1, "normal", 1)>>, <<Pure2, Good(4, d2, 2, "normal", 3), Good(5, d2, 2, "lifecycle", 3)>>,
             <<Good(6, d1, 3, "pure", 9)>>,
             <<OneCapture(7, d2, 2, "pure", 3, "rehearsal", {}, TRUE, TRUE), OneCapture(8, d1, 1, "pure", 1, "physical", {}, FALSE, TRUE)>>,
             <<Pure1, OneCapture(9, d1, 1, "normal", 1, "physical", {}, TRUE, FALSE)>>,
             <<OneCapture(10, d1, 1, "normal", 1, "physical", {"contaminated", "provenance"}, TRUE, TRUE)>>, <<>>}
Collected == UNION {{e[i] : i \in DOMAIN e} : e \in Exported}
Posts == {Pure1}
NoPosts == {}
Short == {e \in Exported : e # <<>> /\ e[1] = Pure1}
Portfolio == INSTANCE EvidencePortfolio WITH Captures <- Collected, Exports <- Exported, Posted <- NoPosts,
    Required <- DeviceClasses, Cycled <- Second, MinReps <- 1, MinIsa <- 2, MinForms <- 2, MaxRatio <- 3, MaxImports <- 3, MaxFaults <- 1, faults <- failed
Agent == INSTANCE EvidencePortfolio WITH Captures <- Collected, Exports <- Short, Posted <- Posts,
    Required <- DeviceClasses, Cycled <- Second, MinReps <- 1, MinIsa <- 2, MinForms <- 2, MaxRatio <- 3, MaxImports <- 1, MaxFaults <- 1, faults <- failed

(* Two activations of the loop in one page, on direct work.                 *)
Activations == {l1, l2}
OneAddress == {a1}
NoCoordinators == <<>>
Page == INSTANCE MiningLoop WITH Loops <- Activations, Coordinators <- NoCoordinators, Addresses <- OneAddress,
    MaxTip <- 1, MaxAsks <- 1, MaxPosts <- 1, Quiet <- FALSE

ASSUME Page!LoopAssumption
ASSUME Portfolio!PortfolioAssumption /\ Agent!PortfolioAssumption
ASSUME CutShares!ShareCoordinatorAssumption
ASSUME Shares!ShareCoordinatorAssumption /\ Payouts!ShareCoordinatorAssumption /\ Campaign!AutopilotAssumption /\ Lifecycle!AutopilotAssumption
-----------------------------------------------------------------------------
Init == /\ part \in Parts /\ Portfolio!Init /\ Page!Init
        /\ IF part = "lifecycle" THEN Lifecycle!Init ELSE Campaign!Init
        /\ CASE part = "payouts" -> Payouts!Init [] part = "cut shares" -> CutShares!Init [] OTHER -> Shares!Init
        /\ part \notin {"campaign", "lifecycle"} => form = d1 /\ mode = "physical"

OfShares(name, A) == part = name /\ A /\ UNCHANGED <<part, campVars, portVars, pageVars>>
OfCampaign(name, A) == part = name /\ A /\ UNCHANGED <<part, shareVars, portVars, pageVars>>
OfPortfolio(name, A) == part = name /\ A /\ UNCHANGED <<part, shareVars, campVars, pageVars>>
OfPage(name, A) ==
    part = name /\ A /\ UNCHANGED <<part, up, shares, lines, unended, cut, jobs, live, calls, acked, refused, faults, campVars, portVars>>
Next == OfShares("shares", Shares!Next) \/ OfShares("cut shares", CutShares!Next) \/ OfShares("payouts", Payouts!Next) \/ OfCampaign("campaign", Campaign!Next) \/ OfCampaign("lifecycle", Lifecycle!Next)
        \/ OfPortfolio("portfolio", Portfolio!Next) \/ OfPortfolio("agent", Agent!Next)
        \/ OfPage("page", Page!Next)
Spec == Init /\ [][Next]_vars
Symmetry == Permutations(Handlers) \cup Permutations(Activations)
-----------------------------------------------------------------------------
(* A proof of work is paid once and a receipt is kept, through restarts     *)
(* that can read the log, and all can unless an append was cut short; the   *)
(* signed weights are those of the log, the split pays the reward, and work *)
(* can be had while there are no more addresses than outputs.  The page     *)
(* offers only what it found for the work it offers, and a worker it knows  *)
(* of is watched, however its activations overlap.                          *)
SharesSound ==
    /\ part = "shares" => Shares!TypeOK /\ Shares!SharesOnce /\ Shares!ReceiptsKept /\ Shares!ReadableUnlessCut /\ Shares!ProofMatchesLog
    /\ part = "cut shares" =>
         CutShares!TypeOK /\ CutShares!SharesOnce /\ CutShares!ReceiptsKept /\ CutShares!ReadableUnlessCut /\ CutShares!ProofMatchesLog
    /\ part = "payouts" => Payouts!TypeOK /\ Payouts!SplitExact /\ Payouts!WorkAvailable
    /\ part = "page" => Page!TypeOK /\ Page!WorkIsWatched /\ Page!OffersItsOwn

(* A capture the verifier admits names the lock of its run; a portfolio     *)
(* that is supported rests on whole bundles, whatever failed meanwhile.     *)
CapturesHonest ==
    /\ part = "campaign" => Campaign!TypeOK /\ Campaign!AdmittedHonest
    /\ part = "lifecycle" => Lifecycle!TypeOK /\ Lifecycle!AdmittedHonest
    /\ part = "portfolio" => Portfolio!TypeOK /\ Portfolio!SupportedSound /\ Portfolio!OnlyBadAborts /\ Portfolio!PassedStays
    /\ part = "agent" => Agent!TypeOK /\ Agent!OnlyBadAborts /\ Agent!PassedStays
=============================================================================
