------------------------------- MODULE MCApi -------------------------------
(***************************************************************************)
(* An instance of the HTTP server for TLC: two threads, an address that is *)
(* also spelled with a capital letter, and another one whose account id is *)
(* the same.                                                               *)
(***************************************************************************)
EXTENDS Api, TLC

CONSTANTS Alice, CapitalAlice, Bob, Point, h1, h2

MCAccountId == {0, 2, 3}
MCKey == {Point}
MCAddress == {Alice, CapitalAlice, Bob}
MCLower == (CapitalAlice :> Alice) @@ [a \in MCAddress |-> a]
MCIdOf == [a \in MCAddress |-> 3]
MCAmount == {1}

\* Account 3 pays account 0; the amount is more than one deposit.
MCTransfers ==
  {[from |-> 3, to |-> 0, amount |-> 2, fee |-> 0, nonce |-> 0, goodUntil |-> 99,
    signer |-> Point]}

\* A deposit into the padding account by a client.
MCDeposits == {[account |-> 2, amount |-> 1, key |-> Point]}

NoIds == {}
TwoHandlers == {h1, h2}
Symmetric == Permutations(TwoHandlers)

=============================================================================
