---------------------------- MODULE BranchRules ----------------------------
(* The rules a branch must follow on both sides of the activation of full   *)
(* targets (activation-reorg-candidate.mjs, difficulty-timestamp-candidate  *)
(* .mjs, full-target-migration-candidate.mjs).  The target after activation *)
(* depends on the branch: its anchor is the block before.  Numbers are      *)
(* small: hashes have HashBits bits, a radix is 4 where the code has 65536, *)
(* and the polynomial for 2^(i/4) is its rounded value.                     *)
EXTENDS Integers, SequencesExt, Sums

CONSTANTS HashBits,   \* MAX_HASH is 2^HashBits - 1
          Activation, \* activation_height
          TargetSeconds, HalfLife, RetargetInterval, MtpWindow, FutureDrift, LegacyDrift,
          StartBits, MinBits, MaxBits

RulesAssumption ==
    /\ {Activation, HalfLife, TargetSeconds, RetargetInterval, MtpWindow, HashBits, MinBits, StartBits, MaxBits} \subseteq Nat \ {0}
    /\ {FutureDrift, LegacyDrift} \subseteq Nat /\ Activation >= 2
    /\ MinBits <= StartBits /\ StartBits <= MaxBits /\ MaxBits < HashBits

(* A block: id stands for its hash, and orders blocks as hashes do; it      *)
(* commits to "bits" or to a "target".                                      *)
Nothing == 0
Power[n \in Nat] == IF n = 0 THEN 1 ELSE 2 * Power[n - 1]
MaxHash == Power[HashBits] - 1
TargetOfBits(b) == MaxHash \div Power[b]
PowLimit == TargetOfBits(MinBits)
WorkOfTarget(t) == Power[HashBits] \div (t + 1)
Work(b) == IF b.mode = "bits" THEN Power[b.level] ELSE WorkOfTarget(b.level)
ChainWork(chain) == SumSeq([i \in DOMAIN chain |-> Work(chain[i])])
TipId(chain) == IF chain = <<>> THEN Nothing ELSE Last(chain).id

Clamp(x, low, high) == IF x < low THEN low ELSE IF x > high THEN high ELSE x
(* Math.round(Math.log2(e / a)), kept between -2 and 2.                     *)
RoundedLog2(e, a) ==
    CHOOSE d \in -2..2 : /\ d = -2 \/ 32 * e * e >= Power[2 * d + 4] * a * a
                         /\ d = 2 \/ 32 * e * e < Power[2 * d + 6] * a * a
(* nextDifficulty                                                           *)
NextBits(chain) ==
    IF chain = <<>> THEN StartBits
    ELSE IF (Len(chain) + 1) % RetargetInterval # 1 \/ Len(chain) < RetargetInterval THEN Last(chain).level
    ELSE LET span == Last(chain).ts - chain[Len(chain) - RetargetInterval + 1].ts
             delta == RoundedLog2(TargetSeconds * (RetargetInterval - 1), IF span > 1 THEN span ELSE 1)
         IN  Clamp(Last(chain).level + delta, MinBits, MaxBits)

(* asertTargetCandidate: an absolute schedule from the branch's anchor.     *)
Radix == 4
Factor == <<4, 5, 6, 7>>
TruncDiv(a, b) == IF a >= 0 THEN a \div b ELSE -((-a) \div b)
AsertTarget(anchor, parentTs, height, ts) ==
    LET late == (ts - parentTs) - TargetSeconds * (height - Activation + 1)
        exponent == TruncDiv(late * Radix, HalfLife)
        shifts == exponent \div Radix \* rounds down
        scaled == anchor * Factor[exponent - shifts * Radix + 1]
        shifted == IF shifts < 0 THEN scaled \div Power[-shifts] ELSE scaled * Power[shifts]
    IN  Clamp(shifted \div Radix, 1, PowLimit)

(* deriveBranchActivationContext and expectedBranchTarget                   *)
Prefix(chain, h) == SubSeq(chain, 1, IF h < Len(chain) THEN h ELSE Len(chain))
ExpectedTarget(chain, ts) ==
    LET before == Prefix(chain, Activation - 1)
    IN  AsertTarget(TargetOfBits(NextBits(before)), Last(before).ts, Len(chain) + 1, ts)

MedianTimePast(chain) ==
    LET first == IF Len(chain) > MtpWindow THEN Len(chain) - MtpWindow + 1 ELSE 1
        times == SortSeq([i \in 1..(Len(chain) - first + 1) |-> chain[first + i - 1].ts], <)
    IN  times[Len(times) \div 2 + 1]

(* legacyIntrinsicVerdict and activatedIntrinsicVerdict                     *)
Linked(chain, b) == b.prev = TipId(chain) /\ (chain # <<>> => b.ts >= Last(chain).ts)
LegacyValid(chain, b) == b.mode = "bits" /\ b.level = NextBits(chain)
ActivatedValid(chain, b) ==
    /\ b.mode = "target" /\ b.ts > MedianTimePast(chain) /\ b.level = ExpectedTarget(chain, b.ts)
(* validateBranchBlock without an arrival time                              *)
ValidBlock(chain, b) ==
    /\ Linked(chain, b)
    /\ IF Len(chain) + 1 < Activation THEN LegacyValid(chain, b) ELSE ActivatedValid(chain, b)
(* validateBranchChain, and the arrival time of the blocks from a height on *)
ValidChain(chain) == \A h \in DOMAIN chain : ValidBlock(Prefix(chain, h - 1), chain[h])
InTime(chain, from, now) ==
    \A h \in from..Len(chain) : chain[h].ts <= now + (IF h < Activation THEN LegacyDrift ELSE FutureDrift)

(* compareBranchForks: "a" is preferred.                                    *)
Heavier(a, b) == ChainWork(a) > ChainWork(b) (* Mutant: ties are left as they are. *)
Preferred(a, b) ==
    IF ChainWork(a) # ChainWork(b) THEN ChainWork(a) > ChainWork(b)
    ELSE IF Len(a) # Len(b) THEN Len(a) > Len(b) ELSE TipId(a) < TipId(b)

(* buildFullActivationTemplate, and the legacy template before it.          *)
Mined(chain, id, ts) ==
    [id |-> id, prev |-> TipId(chain), ts |-> ts,
     mode |-> IF Len(chain) + 1 < Activation THEN "bits" ELSE "target",
     level |-> IF Len(chain) + 1 < Activation THEN NextBits(chain) ELSE ExpectedTarget(chain, ts)]
=============================================================================
