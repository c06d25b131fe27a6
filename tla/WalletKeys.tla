---------------------------- MODULE WalletKeys ----------------------------
(* The wallet page (wallet.js): which account and address are in use, what  *)
(* the browser keeps of them, the words it shows for them, and sending.     *)
(* Pages of one browser share localStorage; in a page the handlers of       *)
(* several buttons may be under way together, since each disables only its  *)
(* own button.  An account is its words, whether a passphrase goes with     *)
(* them, and nothing else; a legacy account has a key and no words.         *)
EXTENDS Naturals, FiniteSets

CONSTANTS Tabs,    \* pages of one browser
          Words,   \* phrases of 24 words
          Ways,    \* ways to another account that are taken
          MaxOps,  \* bound: handlers under way in a page
          None

VARIABLES tab,     \* per page: walletAccount, wallet, sessionMnemonic, handlers
          store,   \* localStorage: the keyring, the single wallet, the watched address
          shown,   \* words were shown for an account that they are not the words of
          sent     \* the transaction the node took last, until a handler goes on:
                   \* whose inputs, whose change

vars == <<tab, store, shown, sent>>

Account == [words : Words, pass : BOOLEAN]
Legacy == [words |-> None, pass |-> FALSE]
Indexes(acc) == IF acc = Legacy THEN {0} ELSE {0, 1}
Address(acc, i) == [acc |-> acc, i |-> i, full |-> TRUE]
Watched == [acc |-> None, i |-> 0, full |-> FALSE]

KeysAssumption ==
    /\ MaxOps \in Nat /\ Ways \subseteq {"create", "insert", "import"} /\ None \notin Words \cup Account \cup {Legacy}
    /\ None \notin [acc : Account \cup {Legacy}, i : {0, 1}]

NoTab == [open |-> FALSE, acc |-> None, sel |-> None, words |-> None, ops |-> {}]

(* loadWallet: the keyring first, else the single record of older pages; a  *)
(* watched address is in use before either.                                 *)
Loaded(s) == IF s.keyring # None THEN s.keyring
             ELSE IF s.single # None THEN [acc |-> s.single.acc, i |-> 0] ELSE None
Opened(s) ==
    [NoTab EXCEPT !.open = TRUE,
        !.acc = IF Loaded(s) = None THEN None ELSE Loaded(s).acc,
        !.sel = IF s.watch THEN Watched
                ELSE IF Loaded(s) = None THEN None ELSE Address(Loaded(s).acc, Loaded(s).i)]

(* saveAccount: both records, so that an older page can still be used.      *)
Saved(s, acc, i) == [s EXCEPT !.keyring = [acc |-> acc, i |-> i], !.single = Address(acc, i)]

Init ==
    /\ store \in {[keyring |-> None, single |-> o, watch |-> FALSE] :
                     o \in {None, Address(Legacy, 0)}}
    /\ tab = [t \in Tabs |-> NoTab] /\ shown = FALSE
    /\ sent = None

(* A page is opened, or loaded again: what was under way is gone.  A        *)
(* migrated wallet is saved as a keyring.                                   *)
Open(t) ==
    /\ tab' = [tab EXCEPT ![t] = Opened(store)]
    /\ store' = IF store.keyring = None /\ store.single # None
                THEN Saved(store, store.single.acc, 0) ELSE store
    /\ sent' = None /\ UNCHANGED shown

Op(t, o) == /\ Cardinality(tab[t].ops) < MaxOps
            /\ \A p \in tab[t].ops : p.kind # o.kind
            /\ tab' = [tab EXCEPT ![t].ops = @ \cup {o}]

(* The three ways to another account, up to their first await.              *)
Begin(t, kind, acc) ==
    /\ kind = "create" => acc \in Account /\ ~acc.pass
    /\ kind = "insert" => acc \in Account
    /\ Op(t, [kind |-> kind, acc |-> acc])
    /\ sent' = None /\ UNCHANGED <<store, shown>>

(* createNewWallet, after the first await: the words are set before the     *)
(* account is derived from them.                                            *)
CreateWords(t) ==
    \E o \in tab[t].ops :
       /\ o.kind = "create"
       /\ tab' = [tab EXCEPT ![t].words = o.acc.words,
                             ![t].ops = (@ \ {o}) \cup {[o EXCEPT !.kind = "derive"]}]
       /\ sent' = None /\ UNCHANGED <<store, shown>>

Adopted(s, acc, i) == [Saved(s, acc, i) EXCEPT !.watch = FALSE]

(* An account takes the place of the present one, in the page and in the    *)
(* browser.                                                                 *)
Adopt(t, o, i) == store' = Adopted(store, o.acc, i)

InUse(p, o, i) == [p EXCEPT !.acc = o.acc, !.sel = Address(o.acc, i), !.ops = @ \ {o}]

(* createNewWallet, to its end: showBackup shows the words of the session.  *)
CreateEnds(t) ==
    \E o \in tab[t].ops :
       /\ o.kind = "derive" /\ Adopt(t, o, 0)
       /\ tab' = [tab EXCEPT ![t] = InUse(@, o, 0)]
       /\ shown' = (shown \/ tab[t].words # o.acc.words)
       /\ sent' = None

(* insertWalletFromSeed and importRecovery, to their ends; a package names  *)
(* the active index, and one of the first format has no words.              *)
ReplaceEnds(t, i) ==
    \E o \in tab[t].ops :
       /\ o.kind \in {"insert", "import"} /\ (o.kind = "insert" => i = 0)
       /\ i \in Indexes(o.acc) /\ Adopt(t, o, i)
       /\ tab' = [tab EXCEPT ![t] = [InUse(@, o, i) EXCEPT !.words = o.acc.words]]
       /\ sent' = None /\ UNCHANGED shown

(* Anything awaited may throw: a phrase that is wrong, a package that does  *)
(* not verify, a request that fails.                                        *)
Throws(t) ==
    \E o \in tab[t].ops :
       /\ tab' = [tab EXCEPT ![t].ops = @ \ {o}]
       /\ sent' = None /\ UNCHANGED <<store, shown>>

(* activateAccountAddress, useSavedFullWallet.                              *)
ActivateAccountAddress(t, i) ==
    /\ tab[t].acc # None /\ i \in Indexes(tab[t].acc)
    /\ tab' = [tab EXCEPT ![t].sel = Address(tab[t].acc, i)]
    /\ store' = Adopted(store, tab[t].acc, i)
    /\ sent' = None /\ UNCHANGED shown

(* useExistingAddress: a public address is in use, and cannot sign.         *)
UseExistingAddress(t) ==
    /\ tab' = [tab EXCEPT ![t].sel = Watched]
    /\ store' = [store EXCEPT !.watch = TRUE]
    /\ sent' = None /\ UNCHANGED shown

(* showBackup and mnemonicForAccount: the words of the session if it has    *)
(* any, else those that the first key of the account came from.             *)
ShowBackup(t) ==
    /\ tab[t].acc # None /\ tab[t].sel.full
    /\ IF tab[t].words # None
       THEN /\ shown' = (shown \/ tab[t].words # tab[t].acc.words)
            /\ UNCHANGED tab
       ELSE /\ ~tab[t].acc.pass /\ tab[t].acc # Legacy
            /\ Op(t, [kind |-> "words", acc |-> tab[t].acc])
            /\ UNCHANGED shown
    /\ sent' = None /\ UNCHANGED store

WordsDerived(t) ==
    \E o \in tab[t].ops :
       /\ o.kind = "words"
       /\ tab' = [tab EXCEPT ![t].words = o.acc.words, ![t].ops = @ \ {o}]
       /\ shown' = (shown \/ o.acc.words # tab[t].acc.words)
       /\ sent' = None /\ UNCHANGED store

(* sendFAE up to the request for the outputs of the address.                *)
SendFAE(t) ==
    /\ tab[t].sel # None /\ tab[t].sel.full
    /\ Op(t, [kind |-> "spendable", of |-> tab[t].sel])
    /\ sent' = None /\ UNCHANGED <<store, shown>>

(* The outputs are here: the change and the key are those of the address    *)
(* that is in use now.                                                      *)
KeyOfStart(t, o) == [kind |-> "submit", of |-> o.of, key |-> o.of, change |-> tab[t].sel] (* Mutant: the key is captured, the change is not. *)
Transaction(t, o) == [kind |-> "submit", of |-> o.of, key |-> tab[t].sel, change |-> tab[t].sel]

Sign(t) ==
    \E o \in tab[t].ops :
       /\ o.kind = "spendable" /\ tab[t].sel.full
       /\ tab' = [tab EXCEPT ![t].ops = (@ \ {o}) \cup {Transaction(t, o)}]
       /\ sent' = None /\ UNCHANGED <<store, shown>>

(* The node takes a transaction whose inputs are those of the key.          *)
NodeAccepts(o) == o.of = o.key

Accepted(t) ==
    \E o \in tab[t].ops :
       /\ o.kind = "submit" /\ NodeAccepts(o)
       /\ sent' = [of |-> o.of, change |-> o.change]
       /\ tab' = [tab EXCEPT ![t].ops = @ \ {o}]
       /\ UNCHANGED <<store, shown>>

(* The buttons work once the page is loaded.                                *)
Handler(t) ==
    \/ CreateWords(t) \/ CreateEnds(t) \/ Throws(t)
    \/ \E i \in {0, 1} : ReplaceEnds(t, i) \/ ActivateAccountAddress(t, i)
    \/ UseExistingAddress(t) \/ ShowBackup(t) \/ WordsDerived(t)
    \/ SendFAE(t) \/ Sign(t) \/ Accepted(t)
    \/ \E k \in Ways, a \in Account \cup {Legacy} : Begin(t, k, a)

Next == \E t \in Tabs : Open(t) \/ (tab[t].open /\ Handler(t))
Spec == Init /\ [][Next]_vars
-----------------------------------------------------------------------------
(* What the page and the browser may hold.                                  *)
TypeOK ==
    /\ \A t \in Tabs : /\ tab[t].acc \in Account \cup {Legacy, None}
                       /\ tab[t].words \in Words \cup {None}
                       /\ tab[t].sel # None /\ tab[t].sel.full => tab[t].sel.acc = tab[t].acc
                       /\ Cardinality(tab[t].ops) <= MaxOps
    /\ store.watch \in BOOLEAN
    /\ store.keyring # None => store.keyring.acc \in Account \cup {Legacy}

(* Whoever is selected while a payment is under way: a transaction the node *)
(* takes returns its change to the address whose outputs it spends, never   *)
(* to a watched address or to another account.                              *)
ChangeComesBack == sent # None => sent.change = sent.of

(* Loading the page again opens the account and the address it is on,       *)
(* watched or one's own: the keys it uses are in the browser.               *)
Reloads(t) == LET p == Opened(store) IN p.acc = tab[t].acc /\ p.sel = tab[t].sel

(* Whatever handlers of whatever pages overlap: nothing a page does itself  *)
(* takes away from the browser what that page uses.  Only a write of        *)
(* another page can, and does: the record is one for all pages.             *)
KeepsItsOwn ==
    \A t \in Tabs : tab'[t] # tab[t] /\ (tab[t].open => Reloads(t)) => Reloads(t)'

===========================================================================
