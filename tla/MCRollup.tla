------------------------------ MODULE MCRollup ------------------------------
(***************************************************************************)
(* Instances of the rollup for TLC: two clients, accounts 3 and 4, and a   *)
(* database that is empty at first.                                        *)
(***************************************************************************)
EXTENDS Rollup, TLC

CONSTANTS Key3, Key4, w1, w2

MCAccountId == {0, 3, 4}
MCKey == {Key3, Key4}

Tx(from, to, amount, nonce, signer) ==
  [from |-> from, to |-> to, amount |-> amount, fee |-> 0, nonce |-> nonce,
   goodUntil |-> 99, signer |-> signer]

Dep(id, amount, key) == [account |-> id, amount |-> amount, key |-> key]

MCTransfers == {Tx(3, 4, 2, 0, Key3), Tx(3, 0, 1, 0, Key3)}
MCDeposits == {Dep(3, 1, Key3), Dep(4, 1, Key4)}
MCExits == {3}

\* Accounts are not emptied and used again, so that every block has a proof.
PlainTransfers == {Tx(3, 4, 1, 0, Key3)}
PlainDeposits == {Dep(3, 2, Key3)}
NoExits == {}

OneWorker == {w1}
TwoWorkers == {w1, w2}

Symmetric == Permutations(TwoWorkers)

=============================================================================
