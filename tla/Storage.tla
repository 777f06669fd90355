------------------------------ MODULE Storage ------------------------------
(***************************************************************************)
(* The PostgreSQL database (storage/src/lib.rs and its migrations): the    *)
(* tables the server and the provers share, the transactions that write    *)
(* them and the queries that read them.  A query or a transaction is one   *)
(* step of the database; what happens between two of them is up to the     *)
(* processes that call.                                                    *)
(***************************************************************************)
EXTENDS PlasmaState, Sequences, FiniteSets

CONSTANT Worker    \* the names of the prover processes

\* A row of the verified accounts is not mistaken for a missing one.
ASSUME StorageConstants == Absent \notin [lastBlock : Nat, account : Account]

VARIABLES
  commitOps,       \* operations with action Commit, in the order of insertion
  verifyOps,       \* operations with action Verify: their block numbers
  accountUpdates,  \* account_updates: the accounts each block changed
  accounts,        \* accounts: the verified state
  proofs,          \* proofs, each with the public inputs it was made for
  proverRuns       \* prover_runs: who works on which block, and whether the
                   \* last heartbeat is younger than PROVER_TIMEOUT

tables == <<commitOps, verifyOps, accountUpdates, accounts, proofs, proverRuns>>

EmptyTables ==
  /\ commitOps = <<>>
  /\ verifyOps = <<>>
  /\ accountUpdates = {}
  /\ accounts = [id \in AccountId |-> Absent]
  /\ proofs = {}
  /\ proverRuns = <<>>

Newest(numbers) ==
  CHOOSE n \in numbers \cup {0} : \A m \in numbers : m <= n

----------------------------------------------------------------------------
\* Operations

CommittedNumbers == {commitOps[i].number : i \in DOMAIN commitOps}

VerifiedNumbers == {verifyOps[i] : i \in DOMAIN verifyOps}

LastCommitted == Newest(CommittedNumbers)    \* get_last_committed_block

LastVerified == Newest(VerifiedNumbers)      \* get_last_verified_block

IsCommitted(number) == number \in CommittedNumbers

LoadCommittedBlock(number) ==
  commitOps[CHOOSE i \in DOMAIN commitOps : commitOps[i].number = number]

\* The rows commit_state_update adds, and the primary key they must not repeat.
UpdateRows(block) ==
  {[id |-> id, block |-> block.number, account |-> block.updated[id]] :
     id \in {i \in AccountId : block.updated[i] # Absent}}

NoDuplicateUpdate(block) ==
  \A row \in accountUpdates :
    ~(row.block = block.number /\ block.updated[row.id] # Absent)

\* execute_operation(Commit): the account updates and the operation, or
\* nothing, in one transaction.
CommitOperation(block) ==
  /\ NoDuplicateUpdate(block)
  /\ accountUpdates' = accountUpdates \cup UpdateRows(block)
  /\ commitOps' = Append(commitOps, block)
  /\ UNCHANGED <<verifyOps, accounts, proofs, proverRuns>>

\* execute_operation(Verify): apply_state_update copies the accounts of the
\* block into the verified state.
AppliedUpdate(number) ==
  [id \in AccountId |->
     LET rows == {row \in accountUpdates : row.id = id /\ row.block = number}
     IN  IF rows = {} THEN accounts[id]
         ELSE [lastBlock |-> number, account |-> (CHOOSE row \in rows : TRUE).account]]

VerifyOperation(number) ==
  /\ accounts' = AppliedUpdate(number)
  /\ verifyOps' = Append(verifyOps, number)
  /\ UNCHANGED <<commitOps, accountUpdates, proofs, proverRuns>>

----------------------------------------------------------------------------
\* States of the accounts

\* The newest of the updates of an account among those of given blocks, or
\* what the account is when there is none.
NewestUpdate(rows, default) ==
  IF rows = {} THEN default
  ELSE (CHOOSE row \in rows : \A other \in rows : other.block <= row.block).account

VerifiedRowsBlock == Newest({accounts[id].lastBlock : id \in {i \in AccountId : accounts[i] # Absent}})

\* load_verified_state: the accounts, and the last block among their rows.
LoadVerifiedState ==
  [block  |-> VerifiedRowsBlock,
   ledger |-> [id \in AccountId |->
                 IF accounts[id] = Absent THEN Absent ELSE accounts[id].account]]

\* load_committed_state: the verified accounts, overlaid with the newest
\* updates from blocks after the last block among the verified rows.
\* Slip: the first of the unverified blocks is left out.
SlipMissLastUpdate(id) ==
  {row \in accountUpdates : row.id = id /\ row.block > VerifiedRowsBlock + 1}

UnverifiedUpdates(id) ==
  {row \in accountUpdates : row.id = id /\ row.block > VerifiedRowsBlock}

LoadCommittedState ==
  [block  |-> Newest({VerifiedRowsBlock} \cup
                     {row.block : row \in UNION {UnverifiedUpdates(id) : id \in AccountId}}),
   ledger |-> [id \in AccountId |->
                 NewestUpdate(UnverifiedUpdates(id), LoadVerifiedState.ledger[id])]]

\* load_state_diff: for the accounts updated between the two blocks (each
\* the number of the next block), the newest update before the target.  An
\* account without one has no row in the result, whatever the direction.
\* Slip: the updates of the target block itself are taken in.
SlipThroughTarget(row, to) == row.block <= to

BeforeTarget(row, to) == row.block < to

LoadStateDiff(from, to) ==
  LET start == IF from < to THEN from ELSE to
      end   == IF from < to THEN to ELSE from
      rowsOf(id) == {row \in accountUpdates : row.id = id}
  IN  [id \in AccountId |->
         IF \E row \in rowsOf(id) : start <= row.block /\ row.block < end
         THEN NewestUpdate({row \in rowsOf(id) : BeforeTarget(row, to)}, Absent)
         ELSE Absent]

\* load_state_diff_for_block: into_op reads the accounts_updated of a stored
\* operation back with it.
LoadStateDiffForBlock(number) == LoadStateDiff(number, number + 1)

\* What inserting the accounts of a diff makes of a tree.
Overlaid(tree, diff) ==
  [id \in AccountId |-> IF diff[id] = Absent THEN tree[id] ELSE diff[id]]

----------------------------------------------------------------------------
\* Queries of the API

\* last_committed_state_for_account: the newest update of an account, Absent
\* when there is none.
\* Slip: the first row in the order of block numbers.
SlipOldestUpdate(id) ==
  LET rows == {row \in accountUpdates : row.id = id}
  IN  IF rows = {} THEN Absent
      ELSE (CHOOSE row \in rows : \A other \in rows : row.block <= other.block).account

LastCommittedStateForAccount(id) ==
  NewestUpdate({row \in accountUpdates : row.id = id}, Absent)

LastVerifiedStateForAccount(id) ==
  IF accounts[id] = Absent THEN Absent ELSE accounts[id].account

\* load_block_range: the newest limit operations with action Commit up to a
\* block, each joined with the operations with action Verify of its block.
CommitsUpTo(maxBlock) == {i \in DOMAIN commitOps : commitOps[i].number <= maxBlock}

NewestCommits(maxBlock, limit) ==
  {i \in CommitsUpTo(maxBlock) :
     Cardinality({j \in CommitsUpTo(maxBlock) : commitOps[j].number > commitOps[i].number}) < limit}

BlockDetails(i, verified) ==
  [number |-> commitOps[i].number, root |-> commitOps[i].root, commit |-> i, verify |-> verified]

VerifiesOf(number) == {j \in DOMAIN verifyOps : verifyOps[j] = number}

LoadBlockRange(maxBlock, limit) ==
  UNION {IF VerifiesOf(commitOps[i].number) = {}
         THEN {BlockDetails(i, 0)}
         ELSE {BlockDetails(i, j) : j \in VerifiesOf(commitOps[i].number)} :
           i \in NewestCommits(maxBlock, limit)}

\* load_unverified_commitments
UnverifiedCommitments == {n \in CommittedNumbers : n > LastVerified}

----------------------------------------------------------------------------
\* Provers

ProvenNumbers == {proof.block : proof \in proofs}

LoadProof(number) == CHOOSE proof \in proofs : proof.block = number

\* The first committed block that is not verified, has no proof and no
\* prover run with a fresh heartbeat.
\* Slip: the runs of other provers are not looked at.
SlipIgnoreRuns ==
  {n \in CommittedNumbers : n > LastVerified /\ n \notin ProvenNumbers}

JobCandidates ==
  {n \in CommittedNumbers :
     /\ n > LastVerified
     /\ n \notin ProvenNumbers
     /\ ~\E i \in DOMAIN proverRuns : proverRuns[i].block = n /\ proverRuns[i].fresh}

NextJob == CHOOSE n \in JobCandidates : \A m \in JobCandidates : n <= m

\* fetch_prover_job: choosing the block and recording the run is one
\* transaction under an exclusive lock.
FetchProverJob(worker, number) ==
  /\ JobCandidates # {}
  /\ number = NextJob
  /\ proverRuns' = Append(proverRuns, [block |-> number, worker |-> worker, fresh |-> TRUE])
  /\ UNCHANGED <<commitOps, verifyOps, accountUpdates, accounts, proofs>>

\* update_prover_job: a heartbeat.
UpdateProverJob(run) ==
  /\ proverRuns' = [proverRuns EXCEPT ![run].fresh = TRUE]
  /\ UNCHANGED <<commitOps, verifyOps, accountUpdates, accounts, proofs>>

\* PROVER_TIMEOUT passes since the last heartbeat of a run.
RunExpires(run) ==
  /\ proverRuns[run].fresh
  /\ proverRuns' = [proverRuns EXCEPT ![run].fresh = FALSE]
  /\ UNCHANGED <<commitOps, verifyOps, accountUpdates, accounts, proofs>>

\* store_proof: there is one proof per block (the primary key).
StoreProof(proof) ==
  /\ proof.block \notin ProvenNumbers
  /\ proofs' = proofs \cup {proof}
  /\ UNCHANGED <<commitOps, verifyOps, accountUpdates, accounts, proverRuns>>

=============================================================================
