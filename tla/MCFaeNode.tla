------------------------------ MODULE MCFaeNode ------------------------------
(* Small universes of transactions for FaeNode.                             *)
EXTENDS FaeNode, TLC

P == 20    \* spends the genesis coinbase
C == 10    \* spends an output of P, and its txid sorts before P's
D == 30    \* conflicts with P
E == 40    \* spends the coinbase of block 2, whose value depends on its height
AllTxs == {P, C, D, E}
Family == {P, C}
TxInputs == P :> << <<GenesisHash, 0>> >> @@ C :> << <<P, 1>> >>
            @@ D :> << <<GenesisHash, 0>> >> @@ E :> << <<2, 0>> >>
TxOutputs == P :> <<1, 2>> @@ C :> <<1>> @@ D :> <<4>> @@ E :> <<1, 1>>
InputsOf(S) == [t \in S |-> TxInputs[t]]
AllInputs == InputsOf(AllTxs)
AllOutputs == [t \in AllTxs |-> TxOutputs[t]]
FamilyInputs == InputsOf(Family)
FamilyOutputs == [t \in Family |-> TxOutputs[t]]
=============================================================================
