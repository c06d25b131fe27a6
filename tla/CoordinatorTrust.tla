------------------------- MODULE CoordinatorTrust -------------------------
(* What a mining page believes of its share coordinators                    *)
(* (coordinator-trust.js and the checks of mining.js), and how an operator  *)
(* changes the identity of one (coordinator-rotation.mjs).  The first       *)
(* identity seen at an address is pinned in localStorage; a later one needs *)
(* a chain of certificates from it.  Signatures, digests and the fields a   *)
(* check only compares are abstract: an answer is one the coordinator made, *)
(* or the page throws.                                                      *)
EXTENDS Naturals, Sequences, FiniteSets

CONSTANTS Bases,     \* addresses of coordinators
          Tabs,      \* pages of one browser, they share localStorage
          MaxChain,  \* MAX_ROTATION_CHAIN
          MaxSeq, MaxShares, MaxEvents,  \* bounds: rotations per base, shares, other restarts
          None

(* An identity is the n-th of its line; only a rotation continues a line.   *)
(* A coordinator that lost its identity begins a line of its own.           *)
Line == [base : Bases, lost : Nat]
Identity == [line : Line, n : Nat]

TrustAssumption ==
    /\ {MaxChain, MaxShares, MaxEvents} \subseteq Nat /\ MaxSeq \in [Bases -> Nat]
    /\ None \notin [id : Identity, sequence : Nat]

VARIABLES own,      \* per base: the identity of the coordinator and its published chain
          ledger,   \* per base: shares counted, and the size of the window
          pins,     \* localStorage: per base the pinned identity
          page,     \* per tab: what it waits for
          session,  \* per tab: coordinatorIdentityByBase and coordinatorProofHistory
          accused,  \* saveEquivocationEvidence: bases
          events,   \* bound: restarts that are no rotation, per base those of the window
          wrong     \* bases whose coordinator was started with another window
vars == <<own, ledger, pins, page, session, accused, events, wrong>>

Id(line, n) == [line |-> line, n |-> n]
Certificate(line, n) == [sequence |-> n, from |-> Id(line, n - 1), to |-> Id(line, n)]
Fresh(b, lost) == [id |-> Id([base |-> b, lost |-> lost], 0), sequence |-> 0, chain |-> <<>>]
Idle == [at |-> "idle"]
NewSession == [ids |-> [b \in Bases |-> None], proofs |-> {}]

Init ==
    /\ own = [b \in Bases |-> Fresh(b, 0)] /\ ledger = [b \in Bases |-> [n |-> 0, window |-> 1]]
    /\ pins = [b \in Bases |-> None] /\ page = [t \in Tabs |-> Idle]
    /\ session = [t \in Tabs |-> NewSession] /\ accused = {} /\ events = 0 /\ wrong = {}
-----------------------------------------------------------------------------
(* createCoordinatorRotationCertificate: the present identity signs the     *)
(* next; validatePublishedRotationChain lets the coordinator start only     *)
(* with a chain that ends at its identity and is not too long.              *)
LastOnes(chain) == IF Len(chain) > MaxChain THEN Tail(chain) ELSE chain
Rotate(b) ==
    LET next == Id(own[b].id.line, own[b].id.n + 1) IN
    /\ next.n <= MaxSeq[b]
    /\ own' = [own EXCEPT ![b] = [id |-> next, sequence |-> next.n,
                    chain |-> LastOnes(Append(@.chain, Certificate(next.line, next.n)))]]
    /\ UNCHANGED <<ledger, pins, page, session, accused, events, wrong>>

(* loadOrCreateNodeIdentity finds no file.                                  *)
LoseIdentity(b) ==
    /\ events < MaxEvents /\ events' = events + 1
    /\ own' = [own EXCEPT ![b] = Fresh(b, @.id.line.lost + 1)]
    /\ UNCHANGED <<ledger, pins, page, session, accused, wrong>>

(* The share log stays, the configured window does not.                     *)
ChangeWindow(b) ==
    /\ events < MaxEvents /\ events' = events + 1 /\ wrong' = wrong \cup {b}
    /\ ledger' = [ledger EXCEPT ![b].window = @ + 1]
    /\ UNCHANGED <<own, pins, page, session, accused>>

OtherShare(b) ==
    /\ ledger[b].n < MaxShares /\ ledger' = [ledger EXCEPT ![b].n = @ + 1]
    /\ UNCHANGED <<own, pins, page, session, accused, events, wrong>>
-----------------------------------------------------------------------------
(* verifyRotationCertificate for each certificate after the pinned one:     *)
(* signed by the identity reached so far, and next in sequence.             *)
AnyOrder(pin, d) == (* Mutant: the end of the chain alone is looked at. *)
    d.chain # <<>> /\ d.chain[Len(d.chain)].to = d.id
Authorized(pin, d) ==
    LET new == {i \in DOMAIN d.chain : d.chain[i].sequence > pin.sequence}
        Before(i) == {j \in new : j < i} IN
    /\ Len(d.chain) <= MaxChain
    /\ \A i \in new : /\ d.chain[i].sequence = pin.sequence + Cardinality(Before(i)) + 1
                      /\ Before(i) = {} => d.chain[i].from = pin.id
                      /\ \A j \in Before(i) : (\A k \in Before(i) : k <= j) => d.chain[i].from = d.chain[j].to
    /\ \E i \in new : /\ \A j \in new : j <= i
                      /\ d.chain[i].to = d.id /\ d.chain[i].sequence = d.sequence

Pin(d) == [id |-> d.id, sequence |-> d.sequence]
Goto(t, p) == page' = [page EXCEPT ![t] = p]

(* trustedCoordinatorApi asks for the descriptor first, for every work.     *)
AskDescriptor(t, b) ==
    /\ page[t] = Idle /\ Goto(t, [at |-> "descriptor", b |-> b])
    /\ UNCHANGED <<own, ledger, pins, session, accused, events, wrong>>
DescriptorAnswer(t) ==
    /\ page[t].at = "descriptor"
    /\ Goto(t, [at |-> "verify", b |-> page[t].b, d |-> own[page[t].b]])
    /\ UNCHANGED <<own, ledger, pins, session, accused, events, wrong>>

(* The pins are written whole, and the session follows them.                *)
Write(t, store, b, d) ==
    /\ pins' = store
    /\ session' = [session EXCEPT ![t].ids[b] = store[b].id]
    /\ Goto(t, [at |-> "work", b |-> b, id |-> d.id])
    /\ UNCHANGED <<own, ledger, accused, events, wrong>>

(* pinDescriptor: the first identity is taken, the pinned one is accepted   *)
(* with its sequence only.                                                  *)
PinDescriptor(t) ==
    LET b == page[t].b  d == page[t].d IN
    /\ page[t].at = "verify"
    /\ pins[b] = None \/ pins[b] = Pin(d)
    /\ Write(t, [pins EXCEPT ![b] = Pin(d)], b, d)

(* Another identity: the store is read, the certificates are verified...    *)
ReadStore(t) ==
    LET b == page[t].b  d == page[t].d IN
    /\ page[t].at = "verify" /\ pins[b] # None /\ pins[b].id # d.id
    /\ Goto(t, [at |-> "chain", b |-> b, d |-> d, store |-> pins])
    /\ UNCHANGED <<own, ledger, pins, session, accused, events, wrong>>
(* ...and the store that was read is written with the new pin.              *)
Commit(t) ==
    LET b == page[t].b  d == page[t].d  store == page[t].store IN
    /\ page[t].at = "chain" /\ Authorized(store[b], d)
    /\ Write(t, [store EXCEPT ![b] = Pin(d)], b, d)

(* The weights of a job are those of the window over the log.               *)
Weights(l) == IF l.n < l.window THEN l.n ELSE l.window
Proof(id, l) == [signer |-> id, shares |-> l.n, weights |-> Weights(l)]

Trusted(t) == /\ own[page[t].b].id = page[t].id
              /\ session[t].ids[page[t].b] = own[page[t].b].id

(* validateShareWork and rememberCoordinatorProof: work of the identity the *)
(* descriptor named, and of the session; two weights for one state of the   *)
(* ledger are kept as evidence.                                             *)
WorkAnswer(t) ==
    LET b == page[t].b
        proof == Proof(own[b].id, ledger[b])
        known == {p \in session[t].proofs : p.signer = proof.signer /\ p.shares = proof.shares} IN
    /\ page[t].at = "work" /\ Trusted(t)
    /\ IF known \subseteq {proof}
       THEN /\ session' = [session EXCEPT ![t].proofs = @ \cup {proof}]
            /\ Goto(t, [at |-> "mine", b |-> b, id |-> own[b].id]) /\ UNCHANGED accused
       ELSE /\ accused' = accused \cup {b} /\ Goto(t, Idle) /\ UNCHANGED session
    /\ UNCHANGED <<own, ledger, pins, events, wrong>>

(* A share is found and submitted; verifyCoordinatorShareReceipt asks for   *)
(* the signer of the work.                                                  *)
ShareReceipt(t) ==
    /\ page[t].at = "mine" /\ own[page[t].b].id = page[t].id
    /\ ledger[page[t].b].n < MaxShares
    /\ ledger' = [ledger EXCEPT ![page[t].b].n = @ + 1] /\ Goto(t, Idle)
    /\ UNCHANGED <<own, pins, session, accused, events, wrong>>

(* Any request and any check may fail; the next iteration asks again.       *)
Throws(t) ==
    /\ page[t] # Idle /\ Goto(t, Idle)
    /\ UNCHANGED <<own, ledger, pins, session, accused, events, wrong>>
Reload(t) ==
    /\ events < MaxEvents /\ events' = events + 1
    /\ session' = [session EXCEPT ![t] = NewSession] /\ Goto(t, Idle)
    /\ UNCHANGED <<own, ledger, pins, accused, wrong>>

Cycle(t) == \/ DescriptorAnswer(t) \/ PinDescriptor(t) \/ ReadStore(t) \/ Commit(t)
            \/ WorkAnswer(t) \/ ShareReceipt(t)
Next ==
    \/ \E b \in Bases : Rotate(b) \/ LoseIdentity(b) \/ ChangeWindow(b) \/ OtherShare(b)
    \/ \E t \in Tabs : Cycle(t) \/ Throws(t) \/ Reload(t) \/ \E b \in Bases : AskDescriptor(t, b)

(* The mining loop goes round the coordinators, and every request comes to  *)
(* an end.                                                                  *)
Fairness ==
    \A t \in Tabs : /\ WF_vars(Cycle(t) \/ Throws(t))
                    /\ \A b \in Bases : SF_vars(AskDescriptor(t, b))
Spec == Init /\ [][Next]_vars /\ Fairness
-----------------------------------------------------------------------------
(* What the page believes.                                                  *)
TypeOK ==
    /\ \A b \in Bases : pins[b] # None => pins[b].sequence = pins[b].id.n
    /\ \A b \in Bases : Len(own[b].chain) <= MaxChain
    /\ \A t \in Tabs, b \in Bases : session[t].ids[b] # None => session[t].ids[b].line.base = b
    /\ accused \subseteq Bases

(* The pins a page goes by: those there are, or those it read before it     *)
(* verified certificates.                                                   *)
Read(t) == IF page[t].at = "chain" THEN page[t].store ELSE pins

(* However pages and coordinators interleave: a page replaces the pin that  *)
(* it read along certificates only, forward in its line, and writes the     *)
(* pins of other coordinators as it read them.  (What another page wrote    *)
(* meanwhile is put back by that.)                                          *)
PinsOnlyAdvance ==
    pins' # pins => \E t \in Tabs :
       LET b == page[t].b  read == Read(t) IN
       /\ page[t].at \in {"verify", "chain"} /\ page'[t].at = "work" /\ pins' = [read EXCEPT ![b] = pins'[b]]
       /\ read[b] # None => pins'[b].id.line = read[b].id.line /\ pins'[b].sequence >= read[b].sequence

(* However late answers are, and whatever other pages write: a page that    *)
(* works for an identity goes on to a later one of its line, unless the pin *)
(* that it reads is another line's or gone.                                 *)
PagesOnlyAdvance ==
    \A t \in Tabs, b \in Bases :
       LET old == session[t].ids[b]  new == session'[t].ids[b]  read == Read(t)[b] IN
       (new # old /\ None \notin {old, new, read} /\ read.id.line = old.line) =>
          new.line = old.line /\ new.n > old.n

(* An honest coordinator is not accused: evidence is kept only against one  *)
(* that gave two splits of the same shares, which takes another window.     *)
AccusedDidIt == accused \subseteq wrong

(* A page that was away catches up: once rotations end, and unless requests *)
(* fail again and again, each coordinator whose line is the pinned one and  *)
(* whose chain reaches back to the pin is pinned at its present identity.   *)
Reaches(b) == /\ pins[b] # None /\ pins[b].id.line = own[b].id.line
              /\ own[b].sequence - pins[b].sequence <= Len(own[b].chain)
Fails == \E t \in Tabs : page[t].at \in {"descriptor", "verify", "chain"} /\ Throws(t)
CatchesUp == \A b \in Bases : \/ <>[](Reaches(b) => pins[b].id = own[b].id)
                              \/ []<><<Fails>>_vars
===========================================================================
