----------------------------- MODULE MCCircuits -----------------------------
(***************************************************************************)
(* Instances of the circuits for TLC: a tree of eight leaves, two keys     *)
(* and balances of three bits.  Amounts have a mantissa of two bits, fees  *)
(* of one, with one bit of exponent of base 3: the amount 4 becomes 3, and *)
(* the fee 2 becomes 0.                                                    *)
(***************************************************************************)
EXTENDS Circuits

CONSTANTS KeyA, KeyB

MCAccountId == 0 .. 7
MCKey == {KeyA, KeyB}

Tx(from, to, amount, fee, nonce, goodUntil, signer) ==
  [from |-> from, to |-> to, amount |-> amount, fee |-> fee, nonce |-> nonce,
   goodUntil |-> goodUntil, signer |-> signer]

\* Between leaves that meet at each of the three levels, both ways, withdrawals
\* and one to oneself; too expensive, too late, with an old nonce, with the
\* wrong key; and with amounts that the encoding keeps (6) and that it rounds
\* (4, a fee of 2).
MCTransfers ==
  {Tx(4, 5, 1, 1, 0, 7, KeyA), Tx(5, 4, 1, 0, 0, 7, KeyB), Tx(4, 6, 1, 0, 0, 7, KeyA),
   Tx(5, 3, 1, 0, 0, 5, KeyB), Tx(4, 3, 1, 0, 1, 4, KeyA), Tx(4, 5, 3, 1, 0, 7, KeyA),
   Tx(4, 0, 1, 0, 0, 5, KeyA), Tx(4, 4, 1, 0, 0, 7, KeyA), Tx(4, 6, 1, 0, 0, 1, KeyA),
   Tx(4, 5, 1, 0, 0, 7, KeyB), Tx(4, 5, 4, 0, 0, 7, KeyA), Tx(5, 0, 1, 2, 0, 7, KeyB),
   Tx(4, 6, 6, 0, 0, 7, KeyA)}

Dep(id, amount, key) == [account |-> id, amount |-> amount, key |-> key]

MCDeposits ==
  {Dep(4, 2, KeyA), Dep(5, 1, KeyB), Dep(6, 1, KeyB), Dep(4, 1, KeyB), Dep(6, 0, KeyB),
   Dep(4, 4, KeyA), Dep(0, 1, KeyA), Dep(6, 1, NoKey)}

\* A withdrawal, a transfer to a new account, and deposits with valid keys.
PlainTransfers == {t \in MCTransfers : t.from = 4 /\ t.amount = 1 /\ t.signer = KeyA}
PlainDeposits == {d \in MCDeposits : d.key # NoKey}

=============================================================================
