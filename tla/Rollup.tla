------------------------------- MODULE Rollup -------------------------------
(***************************************************************************)
(* The whole rollup: the server, the provers, and the database between     *)
(* them.                                                                   *)
(***************************************************************************)
EXTENDS Server, Prover

allVars == <<tables, serverVars, proverVars>>

Init == EmptyTables /\ ServerInit /\ ProverInit

Next ==
  \/ ServerNext /\ UNCHANGED proverVars
  \/ ProverNext /\ UNCHANGED serverVars

Spec == Init /\ [][Next]_allVars

\* The committer's loop and the provers' attempts go on, an abandoned job
\* expires, and a server whose committer died is restarted.
Fairness ==
  /\ WF_allVars(Committer /\ UNCHANGED proverVars)
  /\ WF_allVars(committer = "stopped" /\ Restart /\ UNCHANGED proverVars)
  /\ \A p \in Worker : WF_allVars(Attempt(p) /\ UNCHANGED serverVars)
  /\ \A run \in 1 .. MaxRuns :
       WF_allVars(run \in DOMAIN proverRuns /\ LeaseExpires(run) /\ UNCHANGED serverVars)

FairSpec == Spec /\ Fairness

----------------------------------------------------------------------------
(***************************************************************************)
(* Properties                                                              *)
(***************************************************************************)

Proof == [block : Nat, initial : LeafMaps, final : LeafMaps]

\* Every table and every variable of the processes holds a value of its type.
TypeOK ==
  /\ commitOps \in Seq(Blocks)
  /\ verifyOps \in Seq(Nat)
  /\ accountUpdates \subseteq [id : AccountId, block : Nat, account : Account]
  /\ accounts \in [AccountId -> [lastBlock : Nat, account : Account] \cup {Absent}]
  /\ proofs \subseteq Proof
  /\ proverRuns \in Seq([block : Nat, worker : Worker, fresh : BOOLEAN])
  /\ memory \in Ledgers
  /\ nextBlock \in Nat
  /\ channel \in Seq(Blocks)
  /\ lastVerified \in Nat
  /\ keeper \in {"running", "stopped"}
  /\ committer \in {"receiving", "checking", "stopped"}
  /\ current \in [Worker -> Nat]
  /\ phase \in [Worker -> Phases]
  /\ job \in [Worker -> 0 .. Len(proverRuns)]
  /\ made \in [Worker -> Proof \cup {NoProof}]

\* The root of the state after a block; before the first one all leaves are
\* default accounts.
RootAfter(number) ==
  IF number = 0 THEN [id \in AccountId |-> DefaultAccount]
  ELSE LoadCommittedBlock(number).root

\* The committed blocks in the database are a serial history of the ledger
\* without gap or repetition, whatever was lost in restarts between the state
\* keeper, the channel and the committer.
Chain == INSTANCE RollupChain WITH
  chain <- commitOps, BatchSize <- 1, StartBlock <- 1,
  StartLedger <- [id \in AccountId |-> Absent]

CommitsAreAChain == Chain!Spec

\* A restarted server resumes exactly where the database is: the committed
\* state, pieced together from verified accounts and later updates, is the
\* state whose root the last committed block carries, and the verified state
\* that of the last verified block.
StatesRecoverable ==
  /\ LoadCommittedState.block = LastCommitted
  /\ Leaves(LoadCommittedState.ledger) = RootAfter(LastCommitted)
  /\ LoadVerifiedState.block = LastVerified
  /\ Leaves(LoadVerifiedState.ledger) = RootAfter(LastVerified)

\* The queries of the API tell one story, whichever blocks are verified: the
\* state of a single account, which is read from the updates alone, is the one
\* a restarted server would load; a block is read back with the accounts it
\* was stored with; and the list of blocks has each of the newest ones once,
\* as verified exactly up to the last verified block.
QueriesAgree ==
  /\ \A id \in AccountId :
       /\ LastCommittedStateForAccount(id) = LoadCommittedState.ledger[id]
       /\ LastVerifiedStateForAccount(id) = LoadVerifiedState.ledger[id]
  /\ \A number \in CommittedNumbers :
       LoadStateDiffForBlock(number) = LoadCommittedBlock(number).updated
  /\ \A maxBlock, limit \in 1 .. MaxBlock :
       LET rows   == LoadBlockRange(maxBlock, limit)
           newest == IF maxBlock < LastCommitted THEN maxBlock ELSE LastCommitted
       IN  /\ {row.number : row \in rows} = {n \in 1 .. newest : n > newest - limit}
           /\ \A r, s \in rows : r.number = s.number => r = s
           /\ \A row \in rows : /\ row.verify # 0 <=> row.number <= LastVerified
                                 /\ row.root = RootAfter(row.number)
  /\ UnverifiedCommitments = LastVerified + 1 .. LastCommitted

KnownBefore(id, number) == \E row \in accountUpdates : row.id = id /\ row.block < number

\* A state diff moves a tree between any two committed states, forwards and
\* backwards, on every account that exists in the target state.
DiffMovesState ==
  \A from, to \in 1 .. LastCommitted + 1 : \A id \in AccountId :
    KnownBefore(id, to) =>
      Overwritten(RootAfter(from - 1), LoadStateDiff(from, to))[id] = RootAfter(to - 1)[id]

\* Blocks are verified one after another, each after its proof was stored,
\* which is after it was committed, although proofs come in any order.
VerifiedInOrder ==
  /\ verifyOps = [i \in 1 .. Len(verifyOps) |-> i]
  /\ VerifiedNumbers \subseteq ProvenNumbers
  /\ ProvenNumbers \subseteq CommittedNumbers

\* A stored proof is about the transition of its block: it was made from the
\* root of the block before to the root of the block, even by a prover whose
\* tree an earlier attempt left in a wrong state.
ProofsConnect ==
  \A proof \in proofs :
    /\ proof.initial = RootAfter(proof.block - 1)
    /\ proof.final = RootAfter(proof.block)

\* Unless a heartbeat was lost, only one prover works on a block, whatever
\* runs failed provers and restarts left behind.
OneProverPerBlock ==
  lostLeases = 0 =>
    \A p, q \in Worker :
      job[p] # 0 /\ job[q] # 0 /\ JobBlock(p) = JobBlock(q) => p = q

\* After load_state_diff the tree is in the state before the block of the job,
\* whether it moved forwards or backwards.
TreeReadyForJob ==
  \A p \in Worker :
    phase[p] = "ready" => Leaves(tree[p]) = RootAfter(JobBlock(p) - 1)

\* A leaf a deposit treats as empty has nonce 0 and balance 0.
EmptyLeafHasNonceZero ==
  \A p \in Worker : phase[p] = "ready" =>
    LET block == LoadCommittedBlock(JobBlock(p)) IN
    block.kind = "deposit" /\ Leaf(tree[p], block.txs[1].account).balance = 0
      => Leaf(tree[p], block.txs[1].account).nonce = 0

\* Every committed block is verified in the end.
CommittedIsVerified ==
  \A number \in 1 .. MaxBlock : IsCommitted(number) ~> number \in VerifiedNumbers

=============================================================================
