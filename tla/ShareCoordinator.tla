--------------------------- MODULE ShareCoordinator ---------------------------
(***************************************************************************)
(* A share coordinator (authoritative/share-coordinator.mjs, its adapter   *)
(* pplns-http-adapter.mjs and fae-share-coordinator-v1-candidate.mjs).     *)
(* Miners ask for work and submit shares of it; the last shares decide how *)
(* the reward of a block is split.  Handlers interleave at every await,    *)
(* and the chain moves meanwhile.  The log of shares outlives the process. *)
(***************************************************************************)
EXTENDS Integers, Sequences, FiniteSets, Sums

CONSTANTS
  Clients,       \* requests that may be handled at one time
  Addresses,     \* numbers, in the order of localeCompare
  Nonces,
  BlockNonces,   \* those whose hash also meets the difficulty of a block
  WindowSize, MaxOutputs,
  Rewards,       \* what subsidy and fees of a block may come to, in atoms
  MaxJobs, MaxTip, MaxFaults

ShareCoordinatorAssumption ==
  /\ Addresses \cup Rewards \subseteq Nat /\ BlockNonces \subseteq Nonces
  /\ {WindowSize, MaxOutputs, MaxJobs, MaxTip, MaxFaults} \subseteq Nat
  /\ WindowSize >= 1 /\ MaxOutputs >= 1

VARIABLES
  up,      \* the process runs; FALSE also when it refused to start
  shares,  \* ledger.shares
  lines,   \* the lines of the log file; one that does not parse has seq 0
  unended, \* the last of them has no newline
  cut,     \* history: an append was cut short, or failed with its line written
  jobs,    \* every job made, the i-th at i
  live,    \* those in the map of jobs
  calls,   \* the handler of each client, and what it read so far
  tip,     \* the tip of the upstream node, by number
  acked,   \* the shares a client has a receipt for
  refused, \* the log could not be replayed
  faults
vars == <<up, shares, lines, unended, cut, jobs, live, calls, tip, acked, refused, faults>>

Idle == [at |-> "idle"]
Init ==
  /\ up = TRUE /\ shares = <<>> /\ lines = <<>> /\ unended = FALSE /\ cut = FALSE
  /\ jobs = <<>> /\ live = {} /\ calls = [c \in Clients |-> Idle]
  /\ tip = 0 /\ acked = {} /\ refused = FALSE /\ faults = 0
-----------------------------------------------------------------------------
(* ShareLedger                                                              *)
LastOf(s) == SubSeq(s, IF Len(s) > WindowSize THEN Len(s) - WindowSize + 1 ELSE 1, Len(s))

Window(s) == LastOf(s)

Weights(s, fallback) ==
  LET w == Window(s)
      counted == {w[i].address : i \in DOMAIN w} IN
  IF w = <<>> THEN [a \in {fallback} |-> 1]
  ELSE [a \in counted |-> Cardinality({i \in DOMAIN w : w[i].address = a})]

(* allocatePplnsOutputs: the last address takes what rounding left; the     *)
(* outputs of zero atoms are dropped.                                       *)
Total(weights) == SumOver(weights, DOMAIN weights)
Part(reward, weights, a) == (reward * weights[a]) \div Total(weights)
Rounded(reward, weights) == [a \in DOMAIN weights |-> Part(reward, weights, a)]
First(weights) == CHOOSE a \in DOMAIN weights : \A b \in DOMAIN weights : a <= b
Last(weights) == CHOOSE a \in DOMAIN weights : \A b \in DOMAIN weights : a >= b

Amounts(reward, weights) ==
  [a \in DOMAIN weights |->
     IF a # Last(weights) THEN Part(reward, weights, a)
     ELSE reward - SumOver(Rounded(reward, weights), DOMAIN weights \ {a})]
Allocate(reward, weights) ==
  LET all == Amounts(reward, weights)
      paid == {a \in DOMAIN all : all[a] > 0} IN [a \in paid |-> all[a]]

(* createDistributedTemplate names the first address in the header, and     *)
(* validateTemplate refuses it if the first output pays another one.        *)
Payable(reward, weights) ==
  /\ Cardinality(DOMAIN weights) <= MaxOutputs
  /\ First(weights) \in DOMAIN Allocate(reward, weights)
-----------------------------------------------------------------------------
Running(c) == up /\ calls[c].at # "idle"
Goto(c, call) == calls' = [calls EXCEPT ![c] = call]

(* createWork, up to its request for a template.                            *)
AskWork(c) ==
  /\ up /\ calls[c].at = "idle" /\ Len(jobs) < MaxJobs
  /\ \E a \in Addresses :
       Goto(c, [at |-> "template", address |-> a, count |-> Len(shares),
                weights |-> Weights(shares, a)])
  /\ UNCHANGED <<up, shares, lines, unended, cut, jobs, live, tip, acked, refused, faults>>

ProvenCount(call) == call.count

GiveWork(c) ==
  /\ Running(c) /\ calls[c].at = "template" /\ Len(jobs) < MaxJobs
  /\ \E reward \in Rewards :
       /\ Payable(reward, calls[c].weights)
       /\ jobs' = Append(jobs, [tip |-> tip, address |-> calls[c].address, reward |-> reward,
                                count |-> ProvenCount(calls[c]), weights |-> calls[c].weights,
                                outputs |-> Allocate(reward, calls[c].weights)])
  /\ live' = live \cup {Len(jobs')}
  /\ Goto(c, Idle)
  /\ UNCHANGED <<up, shares, lines, unended, cut, tip, acked, refused, faults>>

(* pruneJobs: a job expires, or gives way to newer ones.                    *)
Expire ==
  /\ \E j \in live : live' = live \ {j}
  /\ UNCHANGED <<up, shares, lines, unended, cut, jobs, calls, tip, acked, refused, faults>>

(* submitShare, up to its request for the status of the node.               *)
Submit(c) ==
  /\ up /\ calls[c].at = "idle"
  /\ \E j \in live, n \in Nonces : Goto(c, [at |-> "status", job |-> j, nonce |-> n])
  /\ UNCHANGED <<up, shares, lines, unended, cut, jobs, live, tip, acked, refused, faults>>

(* The status is here; a job of another tip is dropped.                     *)
CheckTip(c) ==
  /\ Running(c) /\ calls[c].at = "status"
  /\ IF jobs[calls[c].job].tip = tip
     THEN Goto(c, [calls[c] EXCEPT !.at = "hash"]) /\ UNCHANGED live
     ELSE Goto(c, Idle) /\ live' = live \ {calls[c].job}
  /\ UNCHANGED <<up, shares, lines, unended, cut, jobs, tip, acked, refused, faults>>

ShareOf(call) ==
  [job |-> call.job, nonce |-> call.nonce, address |-> jobs[call.job].address]

(* Mutant: a share is only new if the job is still there.                   *)
SeenIfLive(share) == share.job \notin live
Seen(share) == share \in {shares[i] : i \in DOMAIN shares}

Line(share) == [seq |-> Len(shares) + 1, share |-> share]
Unreadable(line) == [line EXCEPT !.seq = 0]

(* durableAppendLine: the line comes behind what the file holds; joined to  *)
(* one without a newline it makes one line that does not parse.             *)
Behind(line) ==
  IF unended THEN [lines EXCEPT ![Len(lines)] = Unreadable(line)] ELSE Append(lines, line)

Logged(share) == Behind(Line(share))

(* An append ends early: part of the line is written, or all but its        *)
(* newline, or all of it when fsync fails or before the ledger knows.       *)
CutShort(share) ==
  /\ \/ lines' = Behind(Unreadable(Line(share))) /\ unended' = TRUE
     \/ lines' = Behind(Line(share)) /\ unended' \in BOOLEAN
  /\ cut' = TRUE

(* makeShareReceipt: the miner has it in writing that its share counts.     *)
Receipt(share) == acked' = acked \cup {share}

(* ledger.append and what follows: a receipt, or the block to be submitted. *)
AppendShare(c) ==
  /\ Running(c) /\ calls[c].at = "hash"
  /\ LET share == ShareOf(calls[c]) IN
     IF Seen(share)
     THEN Goto(c, Idle) /\ UNCHANGED <<shares, lines, unended, acked>>
     ELSE /\ shares' = Append(shares, share)
          /\ lines' = Logged(share) /\ unended' = FALSE
          /\ IF calls[c].nonce \in BlockNonces
             THEN Goto(c, [calls[c] EXCEPT !.at = "block"]) /\ UNCHANGED acked
             ELSE Goto(c, Idle) /\ Receipt(share)
  /\ UNCHANGED <<up, cut, jobs, live, tip, refused, faults>>

(* A call of the disk fails: append throws and the ledger stays as it was,  *)
(* whatever the file has got of the line; the process goes on.              *)
AppendFails(c) ==
  /\ Running(c) /\ calls[c].at = "hash" /\ ~Seen(ShareOf(calls[c]))
  /\ faults < MaxFaults /\ faults' = faults + 1
  /\ CutShort(ShareOf(calls[c])) \/ UNCHANGED <<lines, unended, cut>>
  /\ Goto(c, Idle)
  /\ UNCHANGED <<up, shares, jobs, live, tip, acked, refused>>

(* blockSubmitter: the node takes the block if the tip is still that of the *)
(* job; then every job is void.                                             *)
SubmitBlock(c) ==
  /\ Running(c) /\ calls[c].at = "block"
  /\ jobs[calls[c].job].tip = tip /\ tip < MaxTip
  /\ tip' = tip + 1 /\ live' = {}
  /\ Receipt(ShareOf(calls[c]))
  /\ Goto(c, Idle)
  /\ UNCHANGED <<up, shares, lines, unended, cut, jobs, refused, faults>>

(* A request to the node fails, or is refused: the handler throws.  The     *)
(* node may have taken the block, its answer being lost.                    *)
UpstreamFails(c) ==
  /\ Running(c) /\ calls[c].at # "hash"
  /\ Goto(c, Idle)
  /\ \/ UNCHANGED tip
     \/ /\ calls[c].at = "block" /\ jobs[calls[c].job].tip = tip /\ tip < MaxTip
        /\ tip' = tip + 1
  /\ UNCHANGED <<up, shares, lines, unended, cut, jobs, live, acked, refused, faults>>

TipMoves ==
  /\ tip < MaxTip /\ tip' = tip + 1
  /\ UNCHANGED <<up, shares, lines, unended, cut, jobs, live, calls, acked, refused, faults>>

(* The process ends, in the middle of an append or not; jobs are not kept.  *)
Stop ==
  /\ up /\ up' = FALSE
  /\ shares' = <<>> /\ live' = {} /\ calls' = [c \in Clients |-> Idle]
  /\ UNCHANGED <<jobs, tip, acked, refused>>
  /\ \/ UNCHANGED <<lines, unended, cut, faults>>
     \/ \E c \in Clients :
          /\ calls[c].at = "hash" /\ ~Seen(ShareOf(calls[c])) /\ CutShort(ShareOf(calls[c]))
          /\ faults < MaxFaults /\ faults' = faults + 1

(* ShareLedger.load: any line that does not parse, or is out of order, or   *)
(* was seen before, makes it throw; nothing repairs the file.               *)
Distinct(log) == \A i, k \in DOMAIN log : log[i] = log[k] => i = k
Replayed == [i \in DOMAIN lines |-> lines[i].share]
Readable == \A i \in DOMAIN lines : lines[i].seq = i

Restart ==
  /\ ~up /\ ~refused
  /\ IF Readable /\ Distinct(Replayed) THEN up' = TRUE /\ shares' = Replayed /\ UNCHANGED refused
                                   ELSE refused' = TRUE /\ UNCHANGED <<up, shares>>
  /\ UNCHANGED <<lines, unended, cut, jobs, live, calls, tip, acked, faults>>

Next ==
  \/ \E c \in Clients :
       \/ AskWork(c) \/ GiveWork(c) \/ Submit(c) \/ CheckTip(c) \/ AppendShare(c)
       \/ AppendFails(c) \/ SubmitBlock(c) \/ UpstreamFails(c)
  \/ Expire \/ TipMoves \/ Stop \/ Restart
Spec == Init /\ [][Next]_vars
-----------------------------------------------------------------------------
TypeOK ==
  /\ {up, unended, cut, refused} \subseteq BOOLEAN /\ tip \in 0..MaxTip /\ faults \in 0..MaxFaults
  /\ live \subseteq DOMAIN jobs /\ Len(jobs) <= MaxJobs
  /\ \A c \in Clients : calls[c].at \in {"idle", "template", "status", "hash", "block"}

(* One proof of work is paid once, whoever submits it again, while the      *)
(* first submission is under way, after an append that failed, or after a   *)
(* restart; so a load never finds it twice.                                 *)
SharesOnce == Distinct(shares) /\ (Readable => Distinct(Replayed))

(* A share with a receipt counts as long as the process runs, and in every  *)
(* later one whose start does not refuse the log.                           *)
In(share, log) == \E i \in DOMAIN log : log[i] = share
ReceiptsKept == \A s \in acked : (up => In(s, shares)) /\ (Readable => In(s, Replayed))

(* The log can be read, and says what the process knows, unless an append   *)
(* was once cut short: no order of handlers, receipts, stops and starts     *)
(* breaks it, and no other start is refused.  (After such an append it may  *)
(* never be read again: the next line is joined to what was left.)          *)
ReadableUnlessCut ==
  /\ ~cut => Readable /\ (up => shares = Replayed)
  /\ refused => cut

(* The signed proof of a job tells the truth: its weights are those of the  *)
(* window that ends with the share it names, whatever was appended while    *)
(* the template was fetched, and also after a restart.                      *)
Truthful(job, log) ==
  job.count <= Len(log) /\ job.weights = Weights(SubSeq(log, 1, job.count), job.address)
ProofMatchesLog ==
  \A j \in DOMAIN jobs : (up => Truthful(jobs[j], shares)) /\ (Readable => Truthful(jobs[j], Replayed))

(* The split pays out the reward, and no address more or less than its part *)
(* by one atom for each address.                                            *)
SplitExact ==
  \A j \in DOMAIN jobs :
    LET o == jobs[j].outputs
        w == jobs[j].weights IN
    /\ SumOver(o, DOMAIN o) = jobs[j].reward
    /\ \A a \in DOMAIN o : o[a] - Part(jobs[j].reward, w, a) \in 0..Cardinality(DOMAIN w) - 1

(* Work can be had for any window with no more addresses than outputs, if   *)
(* the reward has an atom for each of its shares.  (With more addresses no  *)
(* job can be made, hence no share, and the window stays as it is.)         *)
WorkAvailable ==
  \A a \in Addresses, reward \in Rewards :
    LET w == Weights(shares, a) IN
    reward >= WindowSize /\ Cardinality(DOMAIN w) <= MaxOutputs => Payable(reward, w)

=============================================================================
