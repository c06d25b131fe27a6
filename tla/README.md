# A verification project for the FAE test network

TLA+ modules, TLC configurations and TLAPS proofs about the test network in this
repository. Paths below are relative to the repository; `auth/` stands for
`sovereign-forge/node/authoritative/`.

## 1. The system and its parts

| Part | Code | State it keeps | What makes it correct | Modules |
|---|---|---|---|---|
| Ledger rules | `auth/fae-v4-core.mjs`, `auth/pplns-activation.mjs` | one state object: chain, transactions, UTXOs, three mempool indexes | indexes agree; the template is minable; value is conserved; a payment confirms once; a reorganisation drops nothing that is still valid | `Sums`, `Ledger` |
| Peer node | `auth/fae-v4-peer-node.mjs` | the state object in memory, its JSON file, a write lock, a sync under way | handlers are turns of the lock; a candidate validated against an old snapshot never replaces a better chain; what is written can be loaded | `FaeNode`, `ForkChoice` |
| Durable state store | `auth/durable-state-store.mjs` | primary, temporary and backup file, each with a generation | whatever a crash leaves can be loaded, and a save that returned is not lost | `CrashFiles`, `DurableStore`, `DurableRegister` |
| Node recovery | `auth/node-state-recovery.mjs`, `sovereign-forge/node/fae-node-v6-candidate.mjs` | which of raw file and durable store wins at start; a checkpoint timer | a start never loses a state that was acknowledged and loads; a state that stays is checkpointed | `NodeRecovery` |
| Share coordinator, PPLNS | `auth/share-coordinator.mjs`, `auth/pplns-http-adapter.mjs`, `sovereign-forge/node/fae-share-coordinator-v1-candidate.mjs` | share log with a hash chain, jobs, window of weights | payouts add up; a share counts once; the log can be read again, with every receipt | `ShareCoordinator` |
| SQL ledger and edge functions | `sovereign-forge/supabase/` | tables of blocks, transactions, UTXOs, reservations | a rejected block leaves no row behind; reads outside the lock do not decide | `SqlLedger` |
| Secure channel | `auth/secure-channel.mjs` | sessions, sequence numbers, expiry | a call runs at most once and always ends | `RemoteCalls`, `SecureChannel` |
| Mining page | `mining.js`, `coordinator-trust.js` | template, worker generations, tip observer, coordinator health, pins | stale work ends; what is offered was found for it; a pin only moves forward | `WorkSession`, `MiningLoop`, `CoordinatorTrust` |
| Standalone miner | `standalone/fae-miner.mjs`, `standalone/mining-core.mjs` | counters, the node it selected | it always reconnects and always stops; its counters bracket what the node did | `StandaloneMiner` |
| Wallet page | `wallet.js`, `core.js`, `wallet-transactions.js` | accounts, saved records, history of an address | change comes back; a page keeps what it uses; an older answer never replaces a newer one | `WalletKeys`, `WalletHistory` |
| Peer tables | `auth/peer-{guard,directory,trust}.mjs`, the discovery candidates | bounded tables of addresses, descriptors, candidates, pins | bounds hold; bans and anchors go last; a pin changes only by approval | `PeerGuard`, `PeerDirectory`, `PeerView`, `PeerTrust` |
| Activation and difficulty candidates | `auth/activation-*`, `auth/full-target-*`, `auth/difficulty-timestamp-*`, `lab/full-target-*` | two-regime chains | all branches are on one schedule; nodes agree; outputs and mempool survive reorganisations | `BranchRules`, `ShadowNode`, `ReorgState` |
| Legacy node, explorer | `sovereign-forge/node/fae-node.mjs`, `explorer-read.mjs`, `explorer/` | chain, mempool, state file; a page and its answers | nodes converge; pages of an address miss nothing | `LegacyNode`, `Explorer` |
| Device evidence | `lab/representative-device-*` | campaign lock, sessions, captures; staging and bundles | only honest captures are admitted; a supported portfolio is whole | `Autopilot`, `EvidencePortfolio` |
| Independent operator | `lab/independent-operator-readiness/` | a run and its bundle | honest evidence is admitted; the run ends | `OperatorRun` |

`sovereign-forge/browser/mining.js` and `sovereign-forge/browser/coordinator-trust.js` are
byte-for-byte copies of `mining.js` and `coordinator-trust.js`; the modules
speak about both.

How they interact. Wallets and miners call a peer node over HTTP; peer nodes
call each other over the secure channel (`/tx`, `/blocks`, `/headers`,
`/peer/ancestor`) and poll every configured peer on a timer. Every handler that
changes the state runs in the write lock (`serial`), applies one ledger
operation and awaits `persist()`. The v6 process wraps the node: before it is
created, recovery chooses a state from two stores, and a timer writes checkpoints
into the durable store. The share coordinator sits in front of a node as a
miner; the SQL ledger is a second, central implementation of the ledger rules.

What is hard: a sync spans many awaits and adopts its result against a state
that has moved; writes fail after memory has changed; the process may die or
lose power between any two calls on the file system, also while it repairs the
files of an earlier crash; a reorganisation re-admits transactions that depend on
each other; answers of a browser page arrive in any order. `PROJECT.json` lists
these hazards with their lines and the properties aimed at each.

## 2. The modules

    Sums - Ledger - FaeNode - MCFaeNode              CrashFiles - DurableStore - MCDurableStore
                      :  implements                                 :  implements
                    ForkChoice - MCForkChoice                     DurableRegister - NodeRecovery

    RemoteCalls <.. SecureChannel                    BranchRules - ShadowNode
    WorkSession <.. MiningLoop                       LegacyNode - Explorer

    MCPeers    composes  PeerGuard, PeerDirectory, PeerView, PeerTrust, SecureChannel
    MCClients  composes  MiningLoop, CoordinatorTrust, WalletKeys, WalletHistory, StandaloneMiner, Autopilot, OperatorRun
    MCService  composes  ShareCoordinator, Autopilot, EvidencePortfolio
    MCChains   composes  NodeRecovery, SqlLedger, ShadowNode, ReorgState, LegacyNode, Explorer

    SumsProofs - FaeNodeProofs, SqlLedgerProofs
    SumsProofs - ForkChoiceProofs, MiningProofs, PeersProofs
    DurableStoreProofs    RecoveryProofs

The four composing modules hold parts that do not talk to each other. A
variable `part`, chosen in the initial state, says which one moves; a part is
an instance of a module with values for its constants, and every property is
guarded by the part it speaks about. One part may appear several times with
different values, each for a question of its own.

### Ledger, FaeNode

`Ledger` holds the rules as operators on a record with the field names of the
program's state object: `AcceptError` / `AcceptTxInto` (`acceptTxInto`),
`EnvelopeOk`, `TxsApply`, `AppendBlock` (`validateBlockEnvelope`,
`applyConfirmedTx`, the two `appendBlockFrom...`), `BlockOn` and
`SelectedPending` (the template), `ReplayOn` (`replayPrefix` and the download
of a branch), `VerifyPersistedState` and `Reconcile`
(`reconcileDetachedTransactions`, with its passes).

`FaeNode` has one record per node in `state`, the file in `disk`, and a
downloaded candidate in `syncing`. One action is one turn of the write lock:
`SubmitTx` (from a wallet or a peer), `SubmitBlock`, `ReceiveBlock`,
`SyncFetch` (the snapshot, the download and the validation, outside the lock),
`SyncAdopt` (the second comparison and the reconciliation, in it), `Crash`,
`Restart`. A write either lands (`Commit`) or throws after memory has changed
(`CommitUnpersisted`); no handler restores the old memory.

Abstractions. Transactions are numbers, so that the txid comparisons mean
something; keys, signatures and addresses are fixed by the transaction, and the
model's transactions spend outputs of their own signer. Block hashes are ordered
numbers of a miner's choice. A block carries a `work` instead of difficulty and
timestamps; the retarget of two branches may differ, so work is free. A coinbase
is one output (a PPLNS coinbase splits it). A synchronisation that meets a peer
which reorganises during the download throws in the code and is no step here.
The eleven checkpointed legacy blocks are one genesis block. Peers are
honest nodes running this code.

### ForkChoice

The same network without a ledger: chains of linked blocks in memory, in files
and in downloads, `Mine`, `Receive`, `Fetch`, `Adopt`, `Save`, `Stop`, `Resume`,
and `Better`, the comparison `preferred`. `FaeNode` implements it
(`ImplementsForkChoice`: the refinement mapping forgets everything but hashes,
parents and works), so what is proved of ForkChoice for all instances speaks
about the chains of the code.

### DurableStore, CrashFiles, DurableRegister, NodeRecovery

`CrashFiles` is the environment: directory entries, inodes, what the running
system reads (`names`, `data`) and what a power loss may leave (`dirs`, `kept`).
Writing empties a file first, an fsync settles one file, the directory sync
settles the names; whether an fsync of a file settles names as well
(`Journaled`) is a constant, and the main run assumes the weaker file system.
`DurableStore` has one action per file-system call of `writeSnapshot`, in the
order of the code (`OpenTemporary` ... `RenameTemporary`, `Complete`), and
`Load`, `Save`, `Fail` (a call throws), `Quit`, `Kill`, `PowerLoss`,
`DamageAtRest`. `value` is the state of the last save that returned, `doubt`
those of saves begun since. The directory sync is taken to work;
`fsyncDirectory` ignores file systems that cannot do it.

`DurableRegister` says what the store promises: a load returns the state of the
last save that returned, or of a save begun after it. It does not promise that
two loads agree while a save is in doubt, and the store does not keep that
either: a healed state may be overtaken by the file of the interrupted save.

`NodeRecovery` uses the register in place of the store: the raw file that is
written with every change and never fsynced, both writes at boot, stop, kill and
power loss. A state has a rank (its chain), a number of payments and `loads`:
whether `verifyPersistedState` accepts it, since a node may have one that does
not (finding `node_reload`). A raw file that does not load counts as none, and a
checkpoint of such a state throws. The heal inside `store.load()` may fail, and
then the raw file is taken, or the node refuses. `main` is where the main module
of `fae-node-v6-candidate.mjs` is: its `startup` checkpoint, the first sync and the
checkpoint behind it, then the interval. A checkpoint of the module that throws
ends it before `setInterval`, and the process, whose handlers catch every
exception, serves on without a timer. A checkpoint that is asked for while another
runs is skipped, and one at shutdown that throws leaves the process up (`stuck`).

### Chains: SqlLedger, BranchRules, ShadowNode, ReorgState, LegacyNode, Explorer

`SqlLedger` has the tables as functions and one action per statement or request
between which others may run: `accept_tx` in its statements, the template and
`submitBlock` of the edge function in their separate reads, and `accept_block`
in the version named by a constant (`v2`, its atomic candidate, `v3`). A
transaction that throws leaves nothing; one that returns `ok:false` commits what
it wrote. The recursion of `After` and `Pending` is a function over positions, and
the inputs of a transaction are spent up to the first that cannot be, as one
set, so that both can be reasoned about. `BranchRules` has the targets and timestamps of a branch on both sides
of the activation, with small numbers; `ShadowNode` the nodes that sync headers
first under those rules, with the clock read again at every stage; `ReorgState`
outputs, maturity and mempool while the tip moves between two branches. Its
mempool is a set of rows, since each row keeps its number and the code sorts by
it (`Ordered`), and its loops are functions over positions.
`LegacyNode` is the older node with whole-chain synchronisation; what waits in a
reorganisation is put in order by ranks (`Ordered`) and offered in passes
(`Pass`), recursive functions over positions, as many passes as there are
transactions: one that accepts nothing is the last that could. `Explorer` adds
a reader of one of its nodes and a page whose answers come in any order.

### Peers: PeerGuard, PeerDirectory, PeerView, PeerTrust, SecureChannel, RemoteCalls

The bounded tables, with one action per request, descriptor, probe, hello or
tick; times are kept as what is left of them, so that clocks need no bound.
`SecureChannel` numbers and seals calls over connections that lose, replay,
delay and reorder; `RemoteCalls` says what its callers may rely on.

### Clients: MiningLoop, WorkSession, CoordinatorTrust, WalletKeys, WalletHistory, StandaloneMiner, Autopilot, EvidencePortfolio, OperatorRun

In the page modules an `await` is a value of a program counter and what runs
between two awaits is one action; users press what is enabled in between.
`WorkSession` is the promise of `lab/mining-tip-sync/work-identity.mjs`, which
the loop of the page implements. Two activations of the loop may be alive at one
time (`Loops`), two pages share one storage (`Tabs`), and a request may fail
wherever the page awaits one, the `refresh` of the loop included, which then ends
it. `ShareCoordinator` has the same form on the server: two handlers interleave at
every await while the chain moves and the process restarts from its log. An append
may be cut short: then a part of the line is in the file, or the line without its
newline, or all of it without the ledger knowing (`CutShort`), and the next line
comes behind what is there (`Behind`).

## 3. What is checked

| Run | Instance | Shows |
|---|---|---|
| `node` | 2 nodes; 4 transactions: a parent, its child (with a smaller id), a conflicting payment, one spending a mined coinbase; 3 blocks; era of 2 blocks, cap 9, activation at height 3 | `TypeOK`, `MempoolCoherent`, `TemplateMinable`, `ValueConserved`, `ConfirmedOnce`, `RestartLosesNothing`, `OnlyPreferredChains`, `NoNeedlessDrop` |
| `node_faults` | 2 nodes; parent and child; 2 blocks; one crash, one failed write; no activation | the refinement `ImplementsForkChoice` |
| `node_reload` | 3 nodes; parent and child; 2 blocks; no faults | violates `PersistedStateLoads` (section 5) |
| `fork_choice` | 3 nodes, 2 blocks of work 1 or 2, 1 stop, any write may fail, fairness | `TypeOK`, `ChainsLinked`, `TipNamesChain`, `OnlyBetterChains`, `FilesOnlyImprove`, `Convergence` |
| `durable` | 2 saves, 2 kills, 2 power losses, 1 failing call, POSIX directory | `TypeOK`, `AlwaysLoads`, `ImplementsRegister` |
| `durable_damage` | 4 saves, 1 kill, 1 power loss, 1 failing call, 1 damaged file, journaling | `PreviousAtWorst` |
| `peers` | `MCPeers`, 7 parts | tables within bounds, bans and anchors go last, gossip proves nothing, pins follow approvals, peers come back, `ImplementsRemoteCalls` |
| `clients` | `MCClients`, 13 parts | miners, wallet and evidence sound, pins go forward, no older answer, `ImplementsWorkSession`, everything that must end ends |
| `service` | `MCService`, 8 parts | shares paid once, receipts kept, the log readable unless an append was cut short, splits exact; overlapping activations of a page sound; admitted captures honest, portfolios sound |
| `chains` | `MCChains`, 13 parts | SQL tables, boots, shadow nodes, reorganisations, legacy nodes and explorer sound |
| `chains_live` | `MCChains`, 3 parts | checkpoints catch up while there is a timer; shadow nodes and legacy nodes agree |
| `sql_partial` | `MCChains`, part `chosen2` | violates `BlocksWhole` (section 5) |

The parts of the composing modules:

* `MCPeers`. `guard`: three addresses, a table of two, bans that do not double.
  `bans`: two addresses in a table of one, bans that double. `directory`: a peer
  with two endpoints, another, and the node itself, in a table of three: room for
  two of a source and of an identity, for one of a group and one not yet proven.
  `view`: an anchor with a live and a dead endpoint against a full view; `room`:
  the same with room for all. `trust`: one endpoint that goes through up to four
  identities, three faults. `channel`: two calls, room for one session and a
  second that takes its place, two faults.
* `MCClients`. `mining`: one coordinator and direct work, two requests of the
  observer at once; `switch`: the same with two addresses; `follow` (tips up to
  5) and `rotation` (two coordinators) leave the user out (`Quiet`), for the
  refinement and for liveness. All four have one activation of the loop.
  `MaxPosts` bounds how many solutions of an older worker may be on their way.
  `pins`: one coordinator that rotates twice and once loses its identity or changes
  its window, or the page is loaded again. `pins of two`: two pages that share the
  pins of such a coordinator, for safety and for `CatchesUp`; `shared pins`: two
  pages and two coordinators, of which one rotates. `keys`: one page, two
  handlers at once, all ways to another account; `two pages`: two that create
  accounts in one storage, one handler in each. `history`: two addresses, four
  refreshes. `miner`: three tips, one set-back. `stop`: one device, a timed and a
  normal repetition, one press of Stop. `operator`: chain up to height 2 and
  work 3, one tick between events, the clock set back once; the environment only
  moves while the runner watches, since what happens outside a watch is not
  looked at.
* `MCService`. `shares`: two handlers, two nonces for one address (what tells
  shares apart is the nonce), two jobs, a block of others, stops and restarts as
  often as one likes. `cut shares`: one handler and one append that fails or is cut
  short, with the process or without it; what follows on the torn line is what
  counts there. `page`: two activations of the loop on direct work, with every
  button, hint, failure and late answer. `payouts`: three addresses for
  two outputs and a window of three. `campaign`: two classes of device, without
  lifecycle cycles, and `lifecycle`: one with cycles and a Stop. `portfolio`: up
  to three imports, one fault, one repetition required; `agent`: single
  captures.
* `MCChains`. `recovery`: two chains, one payment, each state with and without
  `loads`, four saves, one stop or kill, one power loss, two failed writes or heals;
  `ranks`: three chains without payments, three saves and one failure; `serving`: as
  `recovery`, with nine saves, one failure and no power loss, for liveness.
  `version2`, `atomic2`, `version3`: a payment, its child and (only in `version2`)
  a rival, two miners, of which one chooses what its block carries in the latter two; `chosen2`: version 2 with such a miner alone.
  `shadow`: a node that syncs, clocks that go on; `forks`: three blocks after an
  early activation; `syncs`: two nodes that sync with faults. `reorg`: blocks up
  to height 6, activation and fork at 3, maturity 3, and six transactions: a
  parent and its child, a rival of the parent and a child of the rival that is
  numbered before it, one that spends a coinbase of after the activation, and one
  that names an input twice. `legacy`, `faulty`,
  `meeting`: two nodes and two or three blocks, without faults, with a crash and
  a failed write, and for liveness. `pages`, `visits`: the explorer over them.

Bounds. Three blocks make forks of one against two and a reorganisation that
detaches a block; equal work arises from one block each. An era of two
blocks and a cap of nine bring the halving (4, 4, 1 atoms) and the cut last
reward within reach, so the template refusal at an exhausted supply is met, and
activation at height 3 is crossed in both directions by reorganisations. Two
kills and two power losses interrupt a save and the heal of the start after it.
Tables of one to four rows are full after a few steps. All constants whose
names begin with `Max` and that the code does not name are bounds of the model;
the constants' comments say so. The runs that disable the deadlock check end
because a bound is used up; `fork_choice` does not disable it.

Fairness. `FairSpec` of ForkChoice asks of every pair of nodes that a fetch
which stays possible happens (`syncPeers` runs on a timer against all configured
peers) and of every node that it decides on what it fetched (the write lock is
granted in order). Nothing forces mining, stopping or restarting; a stopped
node may stay down, and `Convergence` speaks of running nodes. In the composing
modules a condition of weak fairness may name actions of several parts: only
one part moves in a behaviour, so the condition says of each part what it would
say alone. What is fair is a timer that fires (`Tick`, `Poll`, `Sync`,
`Checkpoint`), a request that is answered, fails or times out in the end, and a
program that goes on after an await; never a user, a miner that finds a block, or
a fault. An answer may always be lost, so what depends on one is stated as "comes
about, unless it fails again and again".

Each property of a passing run has a mutant in `PROJECT.json`: a plausible bug
of the code (a dropped comparison, a forgotten reset, a missing fsync) under
which TLC finds it violated. The mutated operators stand above the ones they
replace and say what they leave out.

Why the properties are what they are. `MempoolCoherent` states the two facts
every handler relies on: the three mempool indexes describe the same set, and
each pending transaction comes after those it spends. `NoNeedlessDrop` is what
the retry passes of the reconciliation are for. `FilesOnlyImprove` is about a
failed write: memory runs ahead of the file, a crash goes back, and still no
file is ever replaced by a worse chain. `PreviousAtWorst` is
restricted to one interruption because it is false after two: a crash during
the backup copy leaves a torn backup, which the heal at the next start does not
repair, and if the primary is then damaged nothing is left. It is checked and
proved for file systems whose fsync of a file settles the directory too; the
register of `ImplementsRegister` needs no such promise.

## 4. What is proved

Every theorem is for all values of the constants that meet the assumptions of
the modules (`LedgerAssumption`, `FaeNodeAssumption`, `ForkChoiceAssumption`,
`CrashFilesAssumption`, `DurableStoreAssumption`, `NodeRecoveryAssumption`,
`ChannelAssumption`, `ViewAssumption`, `ShareCoordinatorAssumption`,
`LoopAssumption`, `MinerAssumption`, `KeysAssumption`, `HistoryAssumption`,
`SqlAssumption`, `GuardAssumption`, `DirectoryAssumption`, `PortfolioAssumption`,
`AutopilotAssumption`, `RulesAssumption`, `ShadowAssumption`, and the `TrustAssumption` of `PeerTrust` and
that of `CoordinatorTrust`); TLC evaluates the same assumptions on every
instance. A few theorems also assume of `None` that it is none of the values it
stands beside (`NoneIsApart`, `NoneIsNoLock`), as null is none in the code.

### The ledger (`SumsProofs`, `FaeNodeProofs`)

`LedgerAssumption`: transactions and hashes are numbers that differ from each
other and from the checkpoint's, every hash is above the checkpoint's, a
transaction has inputs and outputs, names no input twice and makes positive
outputs, works are positive, an era has a block.

`Sound(s)` is what every operation keeps:

* `LedgerType`: the fields have their types, fees are never negative;
* `ChainSound`: blocks are numbered by height, no hash and no transaction is
  there twice;
* `ConfirmedSound`: the records marked confirmed are those of the chain, at the
  height of their block; no two spend one output; what they spend was created
  by the chain; `utxos` has exactly what the chain created, with the amount of
  its creator, and the spent flag is set exactly where a confirmed transaction
  spends;
* `PoolSound`: the three mempool indexes are those of the pending records, and
  each input of one is unspent on the chain or made by an earlier one;
* `FeesSound`: the fee kept in a record is what its inputs have over its
  outputs, whichever index they were read from;
* `Balanced`: what is unspent plus the fees burned before the activation is what
  was issued, and that is below the cap.

None can be left out. That a template's block is accepted needs the order of the
pool, the amounts of the outputs and the fees recorded at admission together;
that value is conserved when a block is appended needs that its transactions are
new, that they spend distinct unspent outputs and that the outputs they make are
new, so the finite sum over `utxos` loses the inputs and gains the outputs and
the coinbase. The first part of
`FaeNodeProofs` shows that `EmptyState` is sound and that an
accepted transaction, an appended block, a replay of a branch, the reload of a
file and a reconciliation keep a state sound, with what each leaves alone.
`SumsProofs` and the beginning of `FaeNodeProofs` hold what these rest on: sums of sequences and
over finite sets, overlays of functions, selected subsequences, the folds of
replay and reconciliation as recursive functions. (A recursive function is shown
to exist by a set-theoretic induction on its approximations, because the
library's induction theorems take an operator parameter; an induction over
finite sets is the lemma `SubsetInduction`, about a set of subsets.)

### The nodes (`FaeNodeProofs`)

`Inductive` is `Shapes` (domains and bounds), `BlocksSound` (found blocks are
typed and have distinct hashes), `StatesSound` (every memory is `Sound` and made
of blocks that exist), `CandidatesSound` (so is every candidate, with nothing
pending) and `FilesSound` (so is the chain of every file, its records are typed,
and without failed writes it holds the chain and the pending payments of the
memory). The last two are needed because a candidate and a file are used in a
later step than the one that made them. `NodesSound` is `Spec => []Inductive`;
from it follow

* `TypeCorrect`, `PoolsCoherent`, `EachConfirmedOnce`, `ValueIsConserved`:
  the parts of `Sound` read as the invariants of the run `node`;
* `TemplatesMinable`: the template of a running node is a block the same node
  accepts: the selected prefix of a pool in dependency order applies one by one,
  and its fees are the ones the block claims;
* `RestartsLoseNothing`: without failed writes, a file that loads gives back the
  chain, the outputs and the pending set (that it loads is exactly what section 5
  refutes);
* `PreferredChainsOnly` and `NothingNeedlesslyDropped`, action properties: a
  step of a running node goes to a chain it prefers, also when it adopts a
  candidate chosen against an older state; and what it forgets its new state
  could not take. For the second, a pass of the reconciliation that admits
  nothing is shown to be a fixed point and the passes to be enough to reach one.

### The nodes implement ForkChoice (`FaeNodeProofs`)

`NodesImplementForkChoice`: `Spec => ImplementsForkChoice`. The mapping takes a
block to its hash, parent and work. Besides `Inductive` it needs `Started`: a
running node, a file and a candidate have at least the checkpoint, and a node
that does not run has nothing in memory. One lemma per action says which step or
stutter of ForkChoice it is; a synchronisation's fetch and adoption are two
steps there too. With it, the theorems about ForkChoice hold of the nodes.

### The hosted ledger (`SqlLedgerProofs`)

For any transactions with inputs and a positive output (`SqlAssumption`, what
`verifyTx` asks), any submissions, miners, subsidy and cap, and all three
versions of `accept_block`:

* `SupplyByTheRule`: `Spec => []SupplyByRule`, with miners that list anything. The
  tip and the sum of the rewards are read in separate requests before the lock;
  `Fair` says what of them is still true when a block is there: its height
  is at most the next, and if it is the next, the reward is the due one.
* `TablesTyped`, `ReservedForOne`, `NothingMadeOrLost`, `BlocksAreWhole`,
  `NoTemplateRefused`: the other parts of `SqlSound`. They suppose
  `Version = "v2" => Choosers = {}`: with a miner that chooses, version 2 breaks
  `BlocksWhole`, which is the finding `sql_partial`.

`SqlInv` is `Supplied`; `Books`, what the tables say; `Submitted`, what a
submission between two of its statements has locked and may rely on; `Stands`,
that the template of a miner that keeps to it can still be accepted while its
height is the next; and that none was refused. `Books` is

* `Sound(Tables)`: an output is there exactly for a confirmed transaction, with
  its amount; what a pending one spends is unspent or made by a pending one; two
  pending ones spend nothing in common, and `spends` and `outs` say so;
* `Listed`: every transaction that came in is in `mempool` once, after those it
  spends;
* `Whole`: a block's coinbase is there and its transactions are confirmed;
* `Covered`: a pending or confirmed transaction has a fee of nothing or more;
* `ValueKept`.

`Submitted` is what makes the statements of a submission add up: the row of every
input it has passed is locked by it, and no block takes a row that is locked,
so at the insert all its inputs are still there, though others may have
reserved them since, which the unique keys find out. For a block, `Through` says
of the tables after each of its transactions that they are sound and who
is confirmed so far. `Stands` needs `Listed`: a prefix of the pending
ones in order has each parent before its child, so each of its transactions
finds its inputs (`Ready`); a later submission only adds to the end.

### ForkChoice (`ForkChoiceProofs`)

For every set of nodes, hashes and works and every bound on stops:

* `TypeCorrect`, and `ChainsStayLinked`: `Spec => []ChainsLinked`. A new block
  continues the tip of a linked chain, and a fresh hash keeps hashes unique.
* `TipsNameChains`: `Spec => []TipNamesChain`. Linked chains with the same tip
  agree block by block backwards, since hashes are unique and every block names
  its parent; the checkpoint's parent hash belongs to no block, so they have the
  same length. The descent is a least-counterexample argument.
* `NodesOnlyImprove`: `Spec => OnlyBetterChains`. Appending adds positive work;
  an adoption repeats the comparison.
* `FilesImprove`: `Spec => FilesOnlyImprove`. It needs an invariant of its own:
  a file never holds a better chain than the memory of its running node, and a
  transitivity lemma for `Better`.

### The nodes across the activation (`ForkChoiceProofs`)

For any nodes, trusted base, timestamps and hashes, any page and locator sizes,
and any widths and bounds of the difficulty rules that `RulesAssumption` and
`ShadowAssumption` admit (`Shadow` is the instance of `ShadowNode`):

* `ShadowNodesSound`: `[]StartsAgain`, and `OnlyBetter` and `NothingEarly` of
  every step. The awaits of a sync leave its node free to append and to be asked,
  so what it has read is of an older chain. `Underway` says what is still true of
  it: the chain only grows meanwhile, so the part in common (`Same`) stays in
  common, and the comparison repeated under the lock compares with the chain of
  that moment. That an appended block gains work needs the rules themselves:
  `AsertRange` and `ExpectedRange` bound the target of any schedule between one
  and the limit, so that `WorkPositive` holds in both modes; the powers of two are
  a recursive function, which exists by induction (`DoublesExist`). `EarlyIsLater`
  turns what the headers stage checked of the new blocks by its own clock into
  `NothingEarly` of the adoption, however the clock is corrected between.

### Outputs and mempool across reorganisations (`ForkChoiceProofs`)

For any transactions with numbered inputs and a positive output, any heights of
the fork and the activation, and any maturity, reward and bounds on blocks
(`ReorgAssumption`; `Reorgs` is the instance of `ReorgState`):

* `ReorgsSound`: `[](PoolSound /\ Conserved)`, and `StaysSpendable` of every step.
* `ReorgsDropNothing`: `NothingNeedless` of every step, for any numbers. What is
  left out although it could be taken is only ever a child numbered before a parent
  it spends from that is in the mempool afterwards (`BeforeParent`): the code looks
  at each row once, in the order of the numbers
  (`activation-state-transition-candidate.mjs:94`), and a node can have such numbers
  (finding `node_reload`).

`ReorgInv` is `StatesFit`: a state is finite, what a confirmed transaction spent is
there and spent, an output of a transaction is only there if it is confirmed,
unspent outputs and fees are worth the coinbases, and up to the fork the two
states are one; and `PoolFits` of the mempool and the state of the active branch,
whichever of them changed. `ReconcileFits` shows it of any candidates
and any state, which covers the submission, the block and the reorganisation at
once. The sums of `Conserved` run over different sets before and after, so
`SumsProofs` has what it takes to move one term. For `NothingNeedless` the order
has to be a position for every row: `RanksOrdered` counts the rows before each.
What was refused at its turn for an input that was reserved is refused at the end,
since reservations stay; what was refused for one that was missing could only be
taken if its parent came later.

### The older nodes and their explorer (`ForkChoiceProofs`)

For any nodes, transactions with finitely many inputs and a positive output,
hashes, reward and size of blocks (`LegacyAssumption`; `Legacy` is the instance of
`Explorer`, which extends `LegacyNode`):

* `LegacySound`: `[](TypeOK /\ TemplateApplies /\ ToldSurvives)`.
* `LegacyDropsNothing`: `NothingNeedless` of every step.
* `ExplorerHolds`: `[](TemplateApplies /\ HistoryIsBalance /\ NoEndlessLoading)` of
  the nodes with a page over them, if the page asks one of the nodes.

`LegacyInv` says of every state there is, in memory, in a file or fetched, that it
is in order (`StateOk`): what was confirmed spent outputs that were made, each once
and by its owner (`PastOk`); what is pending spends what is unspent or made by one
before it, no two the same (`PendingOk`); the numbers are within the counter. And
what a node said yes to is known to its memory and its file. The properties of the
mempool hold although the numbers do not follow the order: `TemplateApplies` needs
only the order in which transactions were accepted, which a block keeps when it
takes some of them out (`LegacyOmitKeeps`). `LegacyReconciles` is the induction over
the passes: after k of them, either nothing that waits can be accepted or at least
k transactions were, and there are no more than that to accept.

`HistoryIsBalance` follows from `PastOk` alone (`EventsAddUp`). Each confirmed event
of an address stands for the outputs it brings and those it takes (sums over parts,
`SumOverParts`); no two events share one, the former are what the address owns of
what was made, the latter what it owns of what was spent, so the difference is what
it owns unspent, fees included. `NoEndlessLoading` needs that the request of the
page one is on is in flight while the pane loads: an answer to another request ends
the loading whatever it says, but for a search whose only match is the page one is
on, and that is a block, never the search that is taken away (`ViewInv`).

### The durable store (`DurableStoreProofs`)

For any number of inodes, saves, kills, power losses, failing calls and damages,
with or without journaling (inodes are positive numbers, the paths are the three
of the store, torn content is no snapshot):

* `TypeCorrect`: `Spec => []TypeOK`. The inductive form adds that files hold
  only states whose save was begun, and that the file a call works on exists.
* `LoadsUntilDamage`: `Spec => [](damages = 0 => AlwaysLoads)`. The invariant is
  that in every directory a power loss may leave, the primary is a whole settled
  file on an inode that neither the temporary file nor the backup uses; that the
  temporary file is settled from its fsync to the rename; and that once a save
  has returned every possible directory has a primary. Without the fsync of
  the temporary file the rename would break the first part.
* `RegisterImplemented`: if `MaxDamages = 0` then `Spec => ImplementsRegister`.
  The invariant `FullInv` adds: every whole file that a crash may leave in any
  possible directory holds a state the register may give, or is neither the
  primary nor of a higher generation than it (`FilesRecent`); the generation
  being written is not behind that of the primary, whatever saves failed before
  (`Generations`); at the rename of a save the backup, if there is one, is a
  settled copy of the primary about to be replaced (`BackupReady`). The last is
  what lets `doubt` become empty when a save returns: all older files are
  outranked by the new primary.
* `PreviousSurvives`: if `Journaled = TRUE` and `MaxDamages <= 1` then
  `Spec => []PreviousAtWorst`. `FullInv` holds with one damaged file as well,
  if what the register may give is replaced by what is as new as the save before
  the last (`Recent`). `SpareInv` adds that a second solid file always exists:
  the backup shares no inode with the other names (`Apart`); until the first
  interruption the backup is solid, or, while it is written anew, the temporary
  file is (`Spare`); afterwards one of them is, whenever the store is stopped;
  the damage takes one of two (`Left`), and a save never begins without a solid
  primary. Journaling is needed: without it a power loss during the backup copy
  may take the name of the temporary file, although its content was synced,
  and leave a torn backup and the primary alone; with `Journaled = FALSE` TLC
  finds such a run.

Each operation of `CrashFiles` has a lemma that says what it leaves alone; the
step proofs use these and not the definitions.

### Recovery of a node (`RecoveryProofs`)

For any number of saves, changes, stops, power losses and failing writes, on top
of the register the durable store was proved to be:

* `ChainsComeBack`: `RecoverySpec => [][BootKeepsChain]_allVars`. The store may
  give back any save begun since the last that returned, so `RanksOk` says that
  these, and the state in memory, are on chains as good as that one's, unless a
  heal failed since: then the boot goes on from the raw file without looking at the
  store. The boot replaces a raw file that does not load, or is on a lesser chain,
  before it starts from it, so a node only starts on a state that loads (`BootOk`).
* `AcknowledgedComesBack`: `BootKeepsAcknowledged`. Until a power loss takes its
  content, the raw file has what was acknowledged or a better chain the store
  put there (`AckedOk`). It speaks of acknowledged states that load: one that does
  not gives way to the last checkpoint, and what was acknowledged since is lost
  (section 5).
* `CheckpointsComeBack`: `BootKeepsCheckpoint`, if `SameDirectory`. `PoolsOk`
  says that without failed writes nothing a power loss may leave of the raw file
  is behind the last finished save: the directory sync of a save settles the
  raw file's name as well. With the store elsewhere this part is false, and so is
  the property.
* `RefusalsAreFirst`: `RefusesOnlyUnsaved`: once a save has returned, a start is
  refused only if the heal fails in that very start. It and `RecoveryTypeOK` follow
  from the types of the invariant.

The run `chains` checks them in its parts `recovery` and `ranks`.

### The secure channel (`PeersProofs`)

For any number of calls, sessions, faults and restarts of the peer:

* `ImplementsCallsSafely`: `Spec => Promise!Safety`, the safety half of
  `ImplementsRemoteCalls`. A call runs at most once and has run when it
  returns. `Inv` is `Types`; `HubBounded`, `HubKnown` and `HubUnique` (the
  peer's map keeps its bound, holds each session once, and only sessions the
  caller opened, never ahead of it); `Numbered` (an asked call has one number of
  a session, below the caller's next one); `FramesAbout` (every frame under way,
  in a handler or sent at any time is about its call's number); and `Once`: a
  request that was taken is not taken again, because its session is past its
  number or is gone from the map. A session that is gone does not come back: a
  new one has a new id, and eviction and expiry remove a session whole.
* `ChannelTypeOK`: `Spec => []TypeOK`, from the same `Inv`.

The other half of `ImplementsRemoteCalls`, that every call ends, is liveness
and stays with TLC.

### The trust store (`PeersProofs`)

For any number of endpoints, identities, failing writes and restarts
(`Trust` is the instance of `PeerTrust` the theorems speak about):

* `PinsAreApproved`: `[][PinsFollowApprovals]_vars`. A pending rotation, in
  memory or in the file it may be read back from, was asked for and is not used
  up (`Rotations`): a rotation that was written uses up the requests for its
  endpoint, and with it goes every pending one.
* `RetiredKeepOut`: `[][RetiredStaysOut]_vars`. It needs `Ahead` (where memory is
  ahead of the file because a write failed, an operator asked for it) and
  `Written` (what is written is pinned in memory and is not retired).
* `TrustTypeOK`.

### The directory (`PeersProofs`)

For any keys, groups and sources, any ceilings and any order of gossip, probes,
expiries and changes of the policy (`Directory` is the instance of
`PeerDirectory` the theorems speak about):

* `DirectoryBounded`: `Spec => []TypeOK`. The invariant `DirInv` looks at the
  table as the set of its records (`Listed`), one per key (`Fine`), of which the
  protected source only lists the node's own (`SelfIsOwn`), and says that all
  ceilings hold of it (`Held`). What an eviction does to the set is a `Cut`: it
  takes records that are not protected, leaves no more of them than the limit,
  takes none where the limit was kept, and where it was passed by one takes one
  of the lowest rank. A cut takes records away, so the ceilings enforced before
  it still hold after it (`HeldFewer`); a new record can only pass those of its
  own source, group and identity, which are cut last. A mark changes one record
  in its place (`Replaced`). That the positions the code would evict one after
  the other are those of the smallest rank and age (`Gone`) is an induction over
  the number of records (`FirstToGo`, `NthIs`).
* `GossipIsNoProof`: `GossipProvesNothing` and `SelfStays`. Before a descriptor
  is taken every ceiling holds, so each is passed by one at most. A new record
  that is proven takes the place of its older self, of the same source, and
  passes none; any other is of the lowest rank itself, and nothing proven is
  (`OneWeak`). Only the ceiling of an identity is enforced before the new record
  is there to be compared, so that one may cost a proven endpoint of the same
  identity (`RegisterSpares`).

### The share coordinator (`MiningProofs`)

For any number of handlers, addresses, shares and jobs, any window and any
reward, and any number of appends that fail or are cut short; `Inv` is `Counters`,
`MemoryOk`, `FileOk`, `JobsOk` and `CallsOk`.

* `PaidOnce`, `ReceiptsHonoured`: `SharesOnce` and `ReceiptsKept`. A handler
  between two awaits knows only what it read; `CallsOk` says what of it still
  holds when it goes on: its job was made, and before its block is submitted
  its share is in the ledger. Memory says what was promised (`MemoryOk`). Of the
  file, `FileOk` says: if every line parses and is in order, then it begins with
  what is in memory, has no share twice, and, when the process is down, says what
  was promised. An append that failed with its line written makes the next line
  carry a number that was used, so the file does not parse any more.
* `LogReadable`: `ReadableUnlessCut`, also from `FileOk`. That a receipt is kept
  for ever is not so: after a line that was cut short the log may be lost (section
  5), and these theorems do not claim it.
* `ProofsTruthful`: `ProofMatchesLog`. A job's weights are those of the window
  ending with the share its proof names. The handler reads the log, awaits the
  template and makes the job while other handlers append. The log only grows,
  so the prefix that was read stays a prefix of it (`PrefixKept`), and with it
  the weights of every call and job.
* `SplitsExact`: `SplitExact`. Outputs add up to the reward exactly. Each
  address's part is rounded down; by an induction over the addresses
  (`RoundingLeaves`) the parts never exceed the reward and leave less than one
  atom per address, which the last address of the order takes.
* `WorkIsAvailable`: `WorkAvailable`. With an atom of reward for each share of
  the window, each address of it gets at least one, so no job is refused for an
  output without value. It needs that the weights add up to the length of the
  window (`CountsAddUp`).
* `CoordinatorTypeOK`: `Spec => []TypeOK`.

The run `service` checks these as parts of `SharesSound`, in `shares`, `cut shares`
and `payouts`.

### What pages believe of coordinators (`MiningProofs`)

For any number of coordinators, rotations, lost identities and restarts
(`Pages` is the instance of `CoordinatorTrust` the theorems speak about).
`PageInv` is `Owned` and `Counted` (what a coordinator signs with is of its own
line, and its log counts shares), `Opened` (a descriptor a page is checking is
genuine: one the coordinator reached, with certificates that are), `Pinned` (so
is every pin), and `Proved` (a proof signed by a coordinator that never changed
its window has the weights of its number of shares).

* `HonestNotAccused`: `AccusedDidIt`, for any number of pages. Two proofs that
  contradict each other name the same signer and the same number of shares; by
  `Proved` they then have the same weights, unless the window was changed.
* `PinsAdvance`: `[][PinsOnlyAdvance]_vars`. `AuthorizedAdvances` says what the
  certificates a page accepts do to its pin: those newer than it begin where it
  stands and follow each other without a gap, so a published chain moves a pin
  forward on its own line or is refused.
* `PagesGoOn`: `[][PagesOnlyAdvance]_vars`: the identity a page works for only
  changes to a later one of its line. It needs `Ordered`: what a page works for and
  the descriptor it is checking are not ahead of the coordinator, and the
  descriptor is not behind what the page works for.

All are for any number of pages, and `PagesTypeOK` is proved beside them. A page
reads all pins, awaits its checks and writes all pins back; `PinsOnlyAdvance`
compares with what it read, for that is all the code promises. Compared with what
is written at that moment a pin may go back when two pages overlap (section 5);
`CatchesUp`, checked for two pages, says that this does not last.

### The mining loop of a page (`MiningProofs`)

For any number of activations of the loop in one page, any chain, coordinators,
addresses and bounds on requests and messages under way, with every fault (`Loop`
is the instance of `MiningLoop`). `LoopInv` is `Activations` (what an activation
may hold at each await; no two have the token of one observer), `OneWorker` (the
worker the page knows of is that of an activation which waits for it and has the
rejection), `Observers` (timer, active observer and requests that have the number
of an activation are about its work) and `Watched` (on direct work with a worker
the token is with its observer, which has a timer or a request). That a new
generation or token can be had at all is a pigeonhole over what is still carried.

* `OverlapIsSafe`: `WorkIsWatched` and `OffersItsOwn`. The activations share the
  worker, the rejection and the observer of the page; each takes all three at once
  (`localPow`, `startDirectTipObserver`), so they are of one activation, and the
  generation keeps what another worker found from it.
* `OnlyStaleIsCancelled`: `[][CancelsOnlyStale]_vars`. The token decides: an
  answer that is heeded is about the work of the one activation that has the
  token (`Observers`), so its parent is the one that is stale.

What does not hold with two activations is `NoneWaitsInVain` (section 5): the
activation whose worker another one has replaced waits for ever. With one
activation it is checked, as are `StaleWorkStops`, `FollowsTip` and the refinement
`ImplementsWorkSession`, the last in all four parts of `clients` that run a loop,
with the faults of `mining` and `switch`. `TypeOK` stays with TLC.

### The standalone miner (`MiningProofs`)

* `MinerReports`: `TypeOK` and `CountersBracket`, for any chain, delays, lost
  answers and falls of the node. `MinerInv` bounds the blocks the node took from
  this miner by the height and the falls (`ours <= tip + 2 * back`), so that the
  counters do not stop before the node does.

### The wallet page (`RecoveryProofs`)

* `ChangeReturns`: `TypeOK` and `ChangeComesBack`, for any number of pages,
  accounts and handlers under way: what `sendFAE` awaits does not matter, since
  key and change are read in one turn and the node refuses inputs of another key.
* `PagesKeepTheirOwn`: `[][KeepsItsOwn]_vars`, for any number of pages: what a page
  does itself never takes what it uses out of the storage. Handlers that await
  derive an account and then save and use it in one turn. Two pages write one
  storage, and a page may go on with an account that another page has replaced
  there (section 5).
* `RowsAreOfTheActive`: `TypeOK`, `RowsBelong` and `ClaimsAreTrue`, for any
  addresses and answers. Only a refresh that is the last one and of the active
  address may touch the panel, so all it shows is of that address (`PanelOk`);
  that a page without an address has one refresh at most (`OnlyOne`) is what
  keeps an early refresh from emptying the panel of an address selected later.
* `NoOlderAnswer`: `[][NeverOlder]_vars`.

### The candidate view (`PeersProofs`)

For any finite sets of candidates and pinned identities, any grouping and any
positive ceilings (`View` is the instance of `PeerView`):

* `ViewBounded`: `Bounded`, part of `TypeOK`: no more rows than the ceiling, and
  no more endpoints of one identity than its own.
* `AnchorsStay`: `[][AnchorsKept]_vars`, if `AnchorsFit`: the pinned identities,
  each with as many endpoints as it may have, fit into the table. (The defaults
  of the code are 512 rows of four endpoints each; an operator pins a few.) If
  an anchor were left out, the table would be full of rows of the same rank,
  which are endpoints of other anchors; counted identity by identity
  (`FewOfEach`, by `SubsetInduction`) there are too few of them. Without
  `AnchorsFit` an anchor can push out another, in the code as well.

The second half of `AnchorsKept`, that a live row only gives way to rows as good,
speaks of rows whose own probe does not fail in the step. The proof did not go
through without this: a row that fails is no longer live when the bound is
applied, and TLC finds the step once every candidate is `Unsteady`.

### The guard (`PeersProofs`)

For any addresses, any budgets and any ceilings (`Guard` is the instance of
`PeerGuard`), if a ban needs a score of at least four, which is the largest
penalty (20 by default; the code takes less, and then scores leave their range):

* `GuardBounded`: `TypeOK`: the table has no more addresses than it may, scores,
  bans and doublings stay in their ranges. `Doublings` is a recursive function,
  which exists and is positive by induction (`DoublingsExist`).
* `BansGoLast`: `[][BannedGoLast]_vars`. `Spared` says of every way from one
  table to another that an address left out was not banned, or that all of a full
  table were and none for less time; pruning, making room and taking in compose.

### The evidence of devices (`MiningProofs`)

For any captures and exports (`Evidence` is the instance of `EvidencePortfolio`):

* `BundlesStay`: `OnlyBadAborts` and `PassedStays`, through kills, damaged
  bundles and an import and an agent at the same time. `EvInv` says of each root
  which directories the process that works on it has already made (`Ready`), and
  that what passed is sealed, unless it is the capture that is being made again
  (`InHand`) or something failed since. An empty export is judged at once: the
  first version of the model left it out, and the invariant did not hold.
* `SupportIsSound`: `SupportedSound`: a supported portfolio has untouched physical
  captures of every required class, workload and repetition, of one device per
  class. It follows from the verdict of each bundle (`PassMeans`,
  `SupportedMeans`).

### The campaign of a device (`MiningProofs`)

* `AdmittedIsHonest`: `AdmittedHonest`, for any devices, steps and presses of
  buttons (`Pilot` is the instance of `Autopilot`). `CampInv` says that a lock
  that is older than a run was there when the run began (`Saw`), of the run
  that goes on as of every capture; a lock set later is newer than the run, and
  the verifier sees that.

### The run of an operator (`RecoveryProofs`)

* `RunsSound`: `TypeOK` and `EvidenceSound` of `OperatorRun`, for any heights,
  works and clocks (`Operator` is the instance), whenever the node exits and the
  runner is killed. `RunInv` counts what is recorded at each station (`Counted`),
  says that what was signed is what was recorded (`Faithful`) and that the second
  process finds the directory of the first (`Housed`), and has the two reasons a
  verdict of PASS rests on: heights only rise while the peer never fell (`Rising`),
  times only while the clock was not set back (`Passing`). The exception of
  `HonestRunPasses` is where `Passing` has `<=`: two statuses may be recorded in
  one millisecond, since nothing passes between the confirmation and the first
  status of the wait. `Spent` accounts for the bound of the clock.

### Only model-checked

* Liveness: `Convergence`, `PeersComeBack`, `ClientsProgress`,
  `EveryStateCheckpointed`, `ChainsAgree`, and that calls end, in
  `ImplementsRemoteCalls`; and `ImplementsWorkSession`, whose mapping is of one
  activation. Fairness and ENABLED are out of the prover's reach.
* The properties of the runs `peers`, `clients`, `service` and `chains`, but for
  what is proved above of the secure channel, the trust store, the candidate
  view, the guard, the directory, recovery, the share coordinator, the pins of pages, the mining
  loop, the standalone miner, the wallet, the hosted ledger, the nodes across the
  activation, reorganisations, the older nodes and the explorer, the evidence of
  devices, their campaigns and the runs of operators.
* That a batch of `PeerView` names no identity twice, and `NothingMissed` and
  `ViewOK` of the explorer, which compare pages of sorted histories. They rest on
  `SetToSortSeq`, which the provers know by name only.

## 5. Findings

`node_reload`. A pending transaction keeps the arrival number it had on the
node or branch it came from, and a reorganisation re-admits detached ones in
dependency order without numbering them again. A node that had a parent only in
a block (number 1 where it was submitted) and took its child as the first of its
own pool (number 1 as well) has both pending once the block is reorganised away.
`verifyPersistedState` re-admits by number and, where numbers are equal, by txid;
the txid of the child may sort first, and then it throws: the file the node has
just written does not load and `start()` fails, with no crash and no failed
write involved. (Longer histories can also leave the parent with the higher
number; the run does not need them.) TLC's counterexample takes three nodes and two
blocks. The threat model (docs/security/FAE_PUBLIC_CODE_THREAT_MODEL_V1.md:24)
wants persisted node state to survive restart and reorganisation.

`sql_partial`. `accept_block_v2` inserts the block and spends inputs before its
late checks, and these return `ok:false`, which commits what was written. A
miner that lists transactions of its own choice leaves a block in the table
without its transactions. The candidate of 20261013 says so itself and
repairs it; parts `atomic2` and `version3` show that both later versions keep
`BlocksWhole`.

### Disagreements met while modelling

These were noticed while the modules were written, between the code and what a
document, a message or a test says. No run of the project states them.

* Share log: an append that is cut short, by a crash or a failing call, leaves part
  of a line; a process that goes on joins its next line to it and gives a receipt
  for it, and `ShareLedger.load` throws at every later start
  (`auth/share-coordinator.mjs:15-23,33,39`). So it does when `fsync` throws after
  the line was written: the ledger does not know the share, and the next one is
  written with the number that was used. Nothing repairs the file, while
  `sovereign-forge/LIVE_E2E_GATE.md:50-52` expects continuity after a restart. In the
  part `cut shares` `~refused` is violated; `ReadableUnlessCut` says that it takes
  such an append, `ReceiptsKept` that no receipt is missing from a log that is read.
  (That a power loss may take the name of a log just made, whose directory nothing
  syncs, is not modelled.)
* Secure session: recovered transactions are sent at once over one session;
  one that overtakes another is refused and closes it, so some do not reach
  the peer (`syncPeer` in `auth/fae-v4-peer-node.mjs`).
* Mining page: stop and start while an activation awaits a request leaves two
  activations with one worker variable (`stopMining`): the worker that is replaced
  is left hashing on whatever tip, nobody hears it, and the activation that waits
  for it waits for ever. With `Loops` of two elements `NoneWaitsInVain` is violated;
  the part `page` has what holds then. `lab/mining-tip-sync/MTS-12-PHYSICAL-IPAD-PROTOCOL.md`
  calls continued hashing after an observable tip replacement a failure.
* Mining page: after a stale tip or a won block the loop awaits `refresh()`, which
  rejects when `/status` fails (`core.js:528-532`); outside the inner `try`, or in its
  `catch` (`mining.js:352-355`), this ends the loop, although the text just shown says
  that it goes on. `FollowsTip` therefore supposes that requests do not fail.
* Pins: two pages read, await and write all pins; the one with the older
  descriptor puts an older pin back, and a pin the other page wrote meanwhile, also
  of another coordinator, is lost (`pinDescriptor`); the next visit repairs it.
  `tests/coordinator-rotation-smoke.mjs` says that a client at C cannot be rolled
  back to B. A property that compares a pin with the one it replaces, instead of the one
  that was read, is violated in `pins of two`.
* Recovery: `checkpoint('startup')` and the one after the first sync are awaited by
  the main module ahead of `setInterval` (`fae-node-v6-candidate.mjs:70,82,85`). If one
  throws, because its write fails or the state does not verify, the process serves
  on (its handlers take the exception) and no checkpoint by timer ever comes; with
  `EveryStateCheckpointed` without its `main = "over"` TLC finds that. A state that
  does not verify is not checkpointed at any time.
* Recovery: a raw file that does not verify (finding `node_reload`) is replaced by the
  last checkpoint, and what was acknowledged since that is lost without a word.
* Recovery: when the heal of the store fails, the start goes on from the raw file
  alone (`node-state-recovery.mjs:36`). Where a raw write had failed before, that may
  be on a lesser chain than the checkpoint, and it is saved over the checkpoint:
  without its `~unhealed` TLC finds `BootKeepsChain` violated by two failed writes.
* Recovery: with `FAE_DURABLE_STATE_FILE` in another directory nothing fsyncs
  the raw file's directory, and a power loss may bring back an older raw file
  on the same tip, which wins over a newer checkpoint. With `SameDirectory`
  FALSE `BootKeepsCheckpoint` is violated.
* Standalone miner: `--once` goes on when the answer to an accepted block is lost.
* Wallet: a panel emptied by a change of address may be called "previously
  loaded" after a failed refresh; a receipt is noted for the address active
  when the answer comes; words shown may belong to another account when two
  handlers overlap (`sessionMnemonic`); a wallet saved by another page is
  replaced without asking: with two pages that create an account, the first goes on
  with one that is nowhere in the browser any more (`Reloads` as an invariant is
  violated in `two pages`).
* Explorer: an answer that comes after one has gone elsewhere is shown under
  the new route.
* Autopilot: a stale solution may restart a worker that mines into the next
  baseline; the mode and the class may change between lock and capture. The
  verifier refuses the resulting captures for their lengths, not for the cause.
* Peer guard: pages of a long synchronisation use up the budget of an honest
  peer. Peer directory: a further endpoint of an identity may displace an
  authenticated one.
* Operator run: `initial_sync_complete` is written unconditionally, the progress
  that is waited for may be the initial synchronisation itself
  (`run-operator.mjs:187,151-155`); `controlled_restart` is written although
  `stopNode` returns at once for a node that exited by itself
  (`run-operator.mjs:74,202`).
* Portfolio: the contract's `identical_device_may_not_satisfy_multiple_required_classes`
  is not checked; the device id includes the class.

Observations that are not disagreements. A state loaded by a heal is only as
durable as its own directory sync; what the register promises is what `save()`
returned. A crash in the very first save leaves only a torn temporary file:
`load()` throws, and `prepareIndependentNodeStorage` then refuses to start a
node that never had a state. It also refuses when the raw file does not load and
the heal of the store fails in that start (`durable-state-store.mjs:122`), though a
state was saved, and starts when tried again. `RefusesOnlyUnsaved` says that it
refuses in no other case.

## 6. What is left

Not modelled, and why: signatures, keys and addresses (primitives with no state
of their own); the block codecs and rehearsal packages (serialisation and checks
of packages); `PeerDiversityPolicy.select` (a pure choice among authenticated
peers); the registry of coordinator descriptors (a bounded map by issue date);
labs, tools, tests, deployment and workflows (not the running protocol). What
each modelled part leaves out is said in the notes of `PROJECT.json`.

Next: the pages of the explorer, once sorting is written so that the provers can
follow it, as in `ReorgState` and `LegacyNode`.
