---------------------------- MODULE KeeperChain ----------------------------
(***************************************************************************)
(* The state keeper implements the rollup chain, and what its chain says   *)
(* about funds and nonces.                                                 *)
(***************************************************************************)
EXTENDS StateKeeper, SequencesExt

Chain == INSTANCE RollupChain WITH chain <- commits

\* The blocks sent to the committer are a serial history of the ledger: a
\* deposit or exit queued during a batch takes effect after the whole batch,
\* and replaying each block from the root before gives its root.
ImplementsChain == Chain!Spec

----------------------------------------------------------------------------

\* The block a request asked for, in a queue or among the blocks sent.
Waiting(queue, proto) == Cardinality({i \in DOMAIN queue : queue[i] = proto})

MadeFrom(proto, request) ==
  /\ request.kind = proto.kind
  /\ \/ proto.kind = "deposit" /\ request.txs = <<proto.tx>>
     \/ proto.kind = "exit" /\ request.txs[1].account = proto.account

Made(proto) == Cardinality({i \in DOMAIN commits : MadeFrom(proto, commits[i])})

Accounted(proto) == Waiting(blockQueue, proto) + Waiting(draining, proto) + Made(proto)

\* No deposit or exit request is lost or made twice on its way through the
\* queues: a step adds at most the one request it takes in, and drops none.
NoBlockLost ==
  [][\A proto \in Requested :
       Accounted(proto)' - Accounted(proto) \in (IF status = "idle" THEN {0, 1} ELSE {0})]_vars

----------------------------------------------------------------------------

\* Account ids are 32-bit numbers.
ASSUME FinitelyManyAccounts == IsFiniteSet(AccountId)

Total(leaves) == SumFunction([id \in AccountId |-> leaves[id].balance])

\* Funds that leave the rollup with the transfers of a batch.
Spent(txs) ==
  SumFunction([i \in DOMAIN txs |->
                 txs[i].fee + (IF txs[i].to = ExitId THEN txs[i].amount ELSE 0)])

Paid(txs) == SumFunction([i \in DOMAIN txs |-> txs[i].amount])

Outflow(request) ==
  CASE request.kind = "transfer" -> Spent(request.txs)
    [] request.kind = "exit"     -> Paid(request.txs)
    [] request.kind = "deposit"  -> 0

Inflow(request) == IF request.kind = "deposit" THEN Paid(request.txs) ELSE 0

\* What left and what entered with the blocks sent.
Outflows == SumFunction([i \in DOMAIN commits |-> Outflow(commits[i])])

Inflows == SumFunction([i \in DOMAIN commits |-> Inflow(commits[i])])

\* No funds appear or vanish: what is on the accounts is what was there at
\* the start and was deposited, less what the committed exits, the transfers
\* to account 0 and the fees took out, the open batch included.
FundsConserved ==
  Total(Leaves(ledger)) + Spent(transferQueue) + Outflows
    = Total(Leaves(StartLedger)) + Inflows

----------------------------------------------------------------------------

SameNonce(one, other) == one.from = other.from /\ one.nonce = other.nonce

Resets(request, id) ==
  request.kind \in {"deposit", "exit"} /\ request.txs[1].account = id

\* A nonce of an account is used once: two transfers of one account with the
\* same nonce are never in one block, and are in two blocks only if a deposit
\* or exit of that account lies between them.
NonceReuseNeedsReset ==
  \A i, j \in DOMAIN commits :
    commits[i].kind = "transfer" /\ commits[j].kind = "transfer" =>
      \A a \in DOMAIN commits[i].txs, b \in DOMAIN commits[j].txs :
        /\ i < j \/ (i = j /\ a < b)
        /\ SameNonce(commits[i].txs[a], commits[j].txs[b])
        => \E k \in i .. j : Resets(commits[k], commits[i].txs[a].from)

=============================================================================
