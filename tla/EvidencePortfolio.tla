------------------------- MODULE EvidencePortfolio -------------------------
(* From captures to a verdict on a portfolio: a capture is staged, its      *)
(* files are copied into a bundle, the bundle is sealed with a manifest of  *)
(* digests and verified, and the bundles together are judged.               *)
(* import-browser-portfolio.mjs does it for an export of the page, and the  *)
(* local agent (desktop-agent.mjs) for one capture at a time, each under a  *)
(* root of its own.  Either may be killed, and files may be damaged.        *)
EXTENDS Naturals, FiniteSets, FiniteSetsExt, SequencesExt

CONSTANTS Captures,   \* records: see TypeOK
          Exports,    \* what the page may hand over: sequences of captures
          Posted,     \* captures of a page that has a local agent
          Required, Cycled, \* the classes of the contract; those that need lifecycle cycles
          MinReps, MinIsa, MinForms, MaxRatio,
          None, MaxImports, MaxFaults \* bounds: imports; kills and damaged bundles

PortfolioAssumption == /\ Cycled \subseteq Required /\ {MinReps, MinIsa, MinForms, MaxRatio} \subseteq Nat
                       /\ Posted \subseteq Captures /\ Exports \subseteq Seq(Captures) /\ IsFiniteSet(Captures)
                       /\ \A c \in Captures : c.flaws \subseteq {"class", "contaminated", "incomplete", "provenance", "other"}

VARIABLES staging, bundle, \* directories by root and run id
          job,             \* what a process works on, by root
          report,          \* import-summary.json
          aborted,         \* captures at which a process ended with an error
          imports, faults
vars == <<staging, bundle, job, report, aborted, imports, faults>>

Roots == {"import", "agent"}
Kinds == {"pure", "normal"}
Capture(r) == job[r].list[job[r].i]
At(r, step) == job[r] # None /\ job[r].at = step

Init ==
    /\ staging = [r \in Roots |-> [c \in Captures |-> "none"]] /\ bundle = staging
    /\ job = [r \in Roots |-> None] /\ report = None /\ aborted = {} /\ imports = 0 /\ faults = 0
-----------------------------------------------------------------------------
(* What the verifier finds wrong: with the capture itself (its flaws), or   *)
(* with what became of its bundle.                                          *)
Errors(c, dir, mode) ==
    IF dir \in {"none", "part", "lost"} THEN {"incomplete"}
    ELSE c.flaws \cup (IF dir = "changed" THEN {"provenance"} ELSE {}) \cup (IF c.mode # mode THEN {"provenance"} ELSE {})
(* verdictFor: the first kind of error it looks for.                        *)
Verdict(errors) ==
    IF errors = {} THEN "PASS" ELSE
    LET order == <<"class", "contaminated", "incomplete", "provenance", "other">>
        first == Min({n \in DOMAIN order : order[n] \in errors}) IN order[first]
Passes(c, dir, mode) == Verdict(Errors(c, dir, mode)) = "PASS"

(* verifyPortfolio, over the bundles there are.                             *)
RowsOf(valid, class) == {c \in valid : c.class = class}
ClassComplete(rows, class) ==
    /\ rows # {} /\ Cardinality({c.device : c \in rows}) = 1
    /\ \A k \in Kinds : LET reps == {c.rep : c \in {x \in rows : x.kind = k}} IN
          Cardinality({c \in rows : c.kind = k}) >= MinReps /\ 1..MinReps \subseteq reps
    /\ class \in Cycled => \E c \in rows : c.kind = "lifecycle"
(* Twice the median, so that it stays a number.                             *)
MedianRate(rows) ==
    LET rates == SetToSortSeq({c \in rows : c.kind = "pure"}, LAMBDA x, y : x.rate < y.rate \/ (x.rate = y.rate /\ x.id < y.id))
        n == Len(rates) IN
    IF n = 0 THEN 0 ELSE rates[((n + 1) \div 2)].rate + rates[((n \div 2) + 1)].rate
(* Diversity is counted over the first row of each class.                   *)
FirstRow(rows) == CHOOSE c \in rows : \A x \in rows : c.id <= x.id
Selected(valid) == {FirstRow(RowsOf(valid, class)) : class \in {k \in Required : RowsOf(valid, k) # {}}}
Portfolio(dirs, mode) ==
    LET runs == {c \in Captures : dirs[c] # "none"}
        valid == {c \in runs : Passes(c, dirs[c], mode)}
        medians == {MedianRate(RowsOf(valid, class)) : class \in Required}
        complete == /\ valid = runs /\ \A class \in Required : ClassComplete(RowsOf(valid, class), class)
                    /\ Cardinality({c.isa : c \in Selected(valid)}) >= MinIsa
                    /\ Cardinality({c.form : c \in Selected(valid)}) >= MinForms /\ 0 \notin medians IN
    IF ~complete THEN "INSUFFICIENT"
    ELSE IF \A c \in valid : c.mode = "rehearsal" THEN "REHEARSAL_ONLY"
    ELSE IF Max(medians) > MaxRatio * Min(medians) THEN "SPECIALIZED"
    ELSE IF \A c \in valid : c.mode = "physical" THEN "SUPPORTED" ELSE "INSUFFICIENT"
-----------------------------------------------------------------------------
Work(list) == [list |-> list, i |-> 1, at |-> IF list = <<>> THEN "judge" ELSE "clear", passed |-> {}, since |-> faults]
Import(e) ==
    /\ job["import"] = None /\ imports < MaxImports /\ imports' = imports + 1
    /\ job' = [job EXCEPT !["import"] = Work(e)] /\ UNCHANGED <<staging, bundle, report, aborted, faults>>
(* POST /_rde/capture: the page sends a capture when it has made it.        *)
Post(c) ==
    /\ job["agent"] = None /\ bundle["agent"][c] = "none" /\ c \notin aborted
    /\ job' = [job EXCEPT !["agent"] = Work(<<c>>)] /\ UNCHANGED <<staging, bundle, report, aborted, imports, faults>>

Put(dirs, r, v) == [dirs EXCEPT ![r][Capture(r)] = v]
GoOn(r, step) == job' = [job EXCEPT ![r].at = step] /\ UNCHANGED aborted
Abort(r) == job' = [job EXCEPT ![r] = None] /\ aborted' = aborted \cup {Capture(r)}

(* The capture is written and what an earlier run left is removed.          *)
Clear(r) ==
    /\ At(r, "clear") /\ staging' = Put(staging, r, "none") /\ bundle' = Put(bundle, r, "none")
    /\ GoOn(r, "stage") /\ UNCHANGED <<report, imports, faults>>
(* prepareStaging: refuses a directory that exists, and some captures.      *)
Stage(r) ==
    /\ At(r, "stage")
    /\ IF staging[r][Capture(r)] # "none" THEN Abort(r) /\ UNCHANGED staging
       ELSE IF Capture(r).stages THEN GoOn(r, "collect") /\ staging' = Put(staging, r, "whole")
       ELSE Abort(r) /\ \E dir \in {"none", "part"} : staging' = Put(staging, r, dir)
    /\ UNCHANGED <<bundle, report, imports, faults>>
(* collectEvidence: the sections are copied and looked at ...               *)
Collect(r) ==
    /\ At(r, "collect")
    /\ IF bundle[r][Capture(r)] # "none" THEN Abort(r) /\ UNCHANGED bundle
       ELSE /\ bundle' = Put(bundle, r, "part")
            /\ IF Capture(r).collects THEN GoOn(r, "seal") ELSE Abort(r)
    /\ UNCHANGED <<staging, report, imports, faults>>
(* ... and then integrity.json and manifest.json are written.               *)
Seal(r) ==
    /\ At(r, "seal") /\ bundle' = Put(bundle, r, "sealed") /\ GoOn(r, "verify")
    /\ UNCHANGED <<staging, report, imports, faults>>
Verify(r) ==
    LET c == Capture(r)
        last == job[r].i = Len(job[r].list) IN
    /\ At(r, "verify") /\ UNCHANGED <<staging, bundle, report, aborted, imports, faults>>
    /\ job' = IF r = "agent" THEN [job EXCEPT !["agent"] = None]
              ELSE [job EXCEPT !["import"].passed = @ \cup (IF Passes(c, bundle["import"][c], c.mode) THEN {c} ELSE {}),
                               !["import"].at = IF last THEN "judge" ELSE "clear", !["import"].i = IF last THEN @ ELSE @ + 1]
(* The portfolio is judged when all captures of the export are of one mode. *)
Judge ==
    LET list == job["import"].list IN
    /\ At("import", "judge") /\ job' = [job EXCEPT !["import"] = None]
    /\ report' = [passed |-> job["import"].passed, dirs |-> bundle["import"], since |-> job["import"].since,
                  verdict |-> IF list # <<>> /\ \A i \in DOMAIN list : list[i].mode = list[1].mode
                              THEN Portfolio(bundle["import"], list[1].mode) ELSE None]
    /\ UNCHANGED <<staging, bundle, aborted, imports, faults>>

(* The process is killed; the step it was in may be half done.              *)
Kill(r) ==
    /\ job[r] # None /\ faults < MaxFaults /\ faults' = faults + 1 /\ job' = [job EXCEPT ![r] = None]
    /\ \/ UNCHANGED <<staging, bundle>>
       \/ At(r, "stage") /\ staging' = Put(staging, r, "part") /\ UNCHANGED bundle
       \/ At(r, "collect") /\ bundle' = Put(bundle, r, "part") /\ UNCHANGED staging
    /\ UNCHANGED <<report, aborted, imports>>
Damage(r, c) ==
    /\ bundle[r][c] = "sealed" /\ faults < MaxFaults /\ faults' = faults + 1
    /\ \E dir \in {"changed", "lost"} : bundle' = [bundle EXCEPT ![r][c] = dir]
    /\ UNCHANGED <<staging, job, report, aborted, imports>>

Next ==
    \/ \E e \in Exports : Import(e)
    \/ \E c \in Posted : Post(c)
    \/ \E r \in Roots : Clear(r) \/ Stage(r) \/ Collect(r) \/ Seal(r) \/ Verify(r) \/ Kill(r)
    \/ Judge \/ \E r \in Roots : \E c \in Captures : Damage(r, c)
Spec == Init /\ [][Next]_vars
-----------------------------------------------------------------------------
(* The variables have their types.                                          *)
TypeOK ==
    /\ \A c \in Captures : c.kind \in Kinds \cup {"lifecycle"} /\ c.mode \in {"physical", "rehearsal"} /\ {c.stages, c.collects} \subseteq BOOLEAN
    /\ \A r \in Roots : staging[r] \in [Captures -> {"none", "part", "whole"}] /\ bundle[r] \in [Captures -> {"none", "part", "sealed", "changed", "lost"}]
    /\ imports <= MaxImports /\ faults <= MaxFaults

(* Whatever was imported before, killed or damaged: a portfolio reported as *)
(* supported has, in every required class, one device and an untouched      *)
(* physical capture of every workload and repetition, and nothing else that *)
(* is broken or rehearsed lies beside them.                                 *)
SupportedSound ==
    report # None /\ report.verdict = "SUPPORTED" =>
        /\ \A c \in Captures : report.dirs[c] # "none" => report.dirs[c] = "sealed" /\ c.mode = "physical" /\ c.flaws = {}
        /\ \A class \in Required, k \in Kinds, n \in 1..MinReps :
              \E c \in Captures : report.dirs[c] = "sealed" /\ c.class = class /\ c.kind = k /\ c.rep = n
        /\ \A c, x \in Captures : report.dirs[c] = "sealed" /\ report.dirs[x] = "sealed" /\ c.class = x.class /\ c.class \in Required
              => c.device = x.device

(* A process that was killed does not stand in the way of the next one:     *)
(* only a capture that can never be packaged ends it with an error.         *)
OnlyBadAborts == \A c \in aborted : ~c.stages \/ ~c.collects

(* A bundle the report passed stays as it is through later imports, unless  *)
(* something failed since that import began or one works on it again.       *)
PassedStays ==
    report # None /\ report.since = faults =>
        \A c \in report.passed : bundle["import"][c] = "sealed" \/ (job["import"] # None /\ c = Capture("import"))

=============================================================================
