--------------------------- MODULE MCStateKeeper ---------------------------
(***************************************************************************)
(* Instances of the state keeper for TLC.  Account 2 is the padding        *)
(* account, 3 and 4 are clients, 9 lies outside the tree.                  *)
(***************************************************************************)
EXTENDS KeeperChain

CONSTANTS MaxBlocks,            \* bound on blocks made or waiting
          PadKey, Key3, Key4    \* public keys

MCAccountId == {0, 2, 3, 4, 9}
MCKey == {PadKey, Key3, Key4}

Acct(balance, nonce, key) == [balance |-> balance, nonce |-> nonce, key |-> key]

\* After the padding account's deposit and one deposit of account 3.
MCStartLedger ==
  [id \in MCAccountId |-> CASE id = 2 -> Acct(0, 0, PadKey)
                            [] id = 3 -> Acct(3, 0, Key3)
                            [] OTHER  -> Absent]

Tx(from, to, amount, fee, nonce, goodUntil, signer) ==
  [from |-> from, to |-> to, amount |-> amount, fee |-> fee, nonce |-> nonce,
   goodUntil |-> goodUntil, signer |-> signer]

\* Two transfers in a row, a withdrawal, one with a fee from an account that
\* does not exist at first, one that expires, and one to an id beyond the tree.
MCTransfers ==
  {Tx(3, 4, 1, 0, 0, 99, Key3), Tx(3, 4, 1, 1, 1, 99, Key3),
   Tx(4, 0, 1, 0, 0, 99, Key4), Tx(3, 4, 2, 0, 1, 3, Key3), Tx(3, 9, 1, 0, 0, 99, Key3)}

Dep(id, amount, key) == [account |-> id, amount |-> amount, key |-> key]

\* The API also takes deposits that give the padding account another key, and
\* deposits beyond the tree.
MCDeposits == {Dep(3, 1, Key3), Dep(4, 1, Key4), Dep(2, 1, Key4), Dep(9, 1, Key4)}

\* Account 4 may be asked to exit before it was ever created.
MCExits == {3, 4}

\* Requests arrive while fewer than MaxBlocks blocks were made or wait.
Bounded == Len(commits) + Len(draining) + Len(blockQueue) < MaxBlocks

MCNext == (Bounded /\ Request) \/ TimerTick \/ ProcessBlockQueue \/ PassTime

MCSpec == Init /\ [][MCNext]_vars

MCFairSpec == MCSpec /\ Fairness

=============================================================================
