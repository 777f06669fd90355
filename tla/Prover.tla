------------------------------- MODULE Prover -------------------------------
(***************************************************************************)
(* The prover processes (prover/src/lib.rs).  Each keeps a copy of the     *)
(* account tree and, attempt after attempt, takes a job from the database, *)
(* moves its tree to the state before the block, re-executes the block and *)
(* stores the proof.  A database error ends an attempt but not the         *)
(* process, so the next attempt starts from whatever tree the last one     *)
(* left behind.                                                            *)
(***************************************************************************)
EXTENDS Storage

CONSTANTS
  MaxFailures,       \* bound on attempts cut short and heartbeats lost
  MaxRuns,           \* bound on prover runs
  NoProof

VARIABLES
  tree,       \* accounts_tree
  current,    \* current_block_number: the block the tree is ready for
  phase,      \* where the prover is in its attempt
  job,        \* current_job: the row of prover_runs it works for, or 0
  made,       \* the proof it has made and not stored yet
  failures,   \* how many attempts a database error or a stop cut short
  lostLeases  \* how many runs expired although their prover was at work

proverVars == <<tree, current, phase, job, made, failures, lostLeases>>

Phases == {"idle", "fetched", "ready", "proved"}

JobBlock(p) == proverRuns[job[p]].block

\* BabyProver::create: the tree of the verified state.
ProverInit ==
  /\ tree = [p \in Worker |-> LoadVerifiedState.ledger]
  /\ current = [p \in Worker |-> LoadVerifiedState.block + 1]
  /\ phase = [p \in Worker |-> "idle"]
  /\ job = [p \in Worker |-> 0]
  /\ made = [p \in Worker |-> NoProof]
  /\ failures = 0
  /\ lostLeases = 0

Budgets == <<failures, lostLeases>>

\* The attempt ends, with or without an error; run() resets current_job.
EndAttempt(p) ==
  /\ phase' = [phase EXCEPT ![p] = "idle"]
  /\ job' = [job EXCEPT ![p] = 0]
  /\ made' = [made EXCEPT ![p] = NoProof]

----------------------------------------------------------------------------
\* Re-execution of a block

\* What the prover checks before it writes to its tree.
Replayable(accts, block) ==
  LET tx == block.txs[1] IN
  CASE block.kind = "transfer" -> accts[tx.from] # Absent
    [] block.kind = "deposit"  -> Leaf(ApplyDeposit(accts, tx), tx.account).key # NoKey
    [] block.kind = "exit"     -> accts[tx.account] # Absent

Replayed(accts, block) ==
  LET tx == block.txs[1] IN
  CASE block.kind = "transfer" -> ApplyTransfer(accts, tx)
    [] block.kind = "deposit"  -> ApplyDeposit(accts, tx)
    [] block.kind = "exit"     -> ApplyExit(accts, tx.account)

\* Whether the circuit of the block accepts the prover's witness (module Circuits).
Satisfiable(accts, block) ==
  LET tx == block.txs[1] IN
  CASE block.kind = "transfer" -> TransferProvable(accts, tx, block.number)
    [] block.kind = "deposit"  -> DepositProvable(accts, tx)
    [] block.kind = "exit"     -> TRUE

\* Slip: the root of the block is not compared.
SlipRootUnchecked(accts, block) == Leaves(Replayed(accts, block)) # Leaves(accts)

RootsAgree(accts, block) ==
  /\ Leaves(Replayed(accts, block)) # Leaves(accts)
  /\ Leaves(Replayed(accts, block)) = block.root

----------------------------------------------------------------------------
\* make_proving_attempt

FetchJob(p) ==
  /\ phase[p] = "idle"
  /\ Len(proverRuns) < MaxRuns
  /\ \E number \in JobCandidates : FetchProverJob(p, number)
  /\ job' = [job EXCEPT ![p] = Len(proverRuns')]
  /\ phase' = [phase EXCEPT ![p] = "fetched"]
  /\ UNCHANGED <<tree, current, made>> /\ UNCHANGED Budgets

\* rewind_state: the rows of the diff are inserted, nothing is removed.
Rewind(p, target) ==
  /\ tree' = [tree EXCEPT ![p] = Overlaid(@, LoadStateDiff(current[p], target))]
  /\ current' = [current EXCEPT ![p] = target]

\* Without a job the prover catches up with the verified state.
FastForward(p) ==
  /\ phase[p] = "idle"
  /\ JobCandidates = {}
  /\ current[p] < LastVerified + 1
  /\ Rewind(p, LastVerified + 1)
  /\ UNCHANGED <<phase, job, made>> /\ UNCHANGED Budgets
  /\ UNCHANGED tables

\* Slip: the tree is not moved.
SlipStay(p) == current' = [current EXCEPT ![p] = JobBlock(p)] /\ UNCHANGED tree

MoveToJob(p) ==
  IF current[p] # JobBlock(p) THEN Rewind(p, JobBlock(p)) ELSE UNCHANGED <<tree, current>>

PrepareTree(p) ==
  /\ phase[p] = "fetched"
  /\ MoveToJob(p)
  /\ phase' = [phase EXCEPT ![p] = "ready"]
  /\ UNCHANGED <<job, made>> /\ UNCHANGED Budgets
  /\ UNCHANGED tables

\* apply_and_prove, when a proof comes out.
MakeProof(p) ==
  LET block == LoadCommittedBlock(JobBlock(p)) IN
  /\ phase[p] = "ready"
  /\ Replayable(tree[p], block)
  /\ RootsAgree(tree[p], block)
  /\ Satisfiable(tree[p], block)
  /\ tree' = [tree EXCEPT ![p] = Replayed(@, block)]
  /\ current' = [current EXCEPT ![p] = @ + 1]
  /\ made' = [made EXCEPT ![p] = [block   |-> block.number,
                                  initial |-> Leaves(tree[p]),
                                  final   |-> block.root]]
  /\ phase' = [phase EXCEPT ![p] = "proved"]
  /\ UNCHANGED job /\ UNCHANGED Budgets
  /\ UNCHANGED tables

\* apply_and_prove, when it returns an error: before it wrote to the tree,
\* after the roots disagreed (the tree is changed, current is not), or after
\* the proof did not verify (both are changed).
ProofFails(p) ==
  LET block == LoadCommittedBlock(JobBlock(p)) IN
  /\ phase[p] = "ready"
  /\ ~(/\ Replayable(tree[p], block)
       /\ RootsAgree(tree[p], block)
       /\ Satisfiable(tree[p], block))
  /\ tree' = IF Replayable(tree[p], block)
             THEN [tree EXCEPT ![p] = Replayed(@, block)]
             ELSE tree
  /\ current' = IF Replayable(tree[p], block) /\ RootsAgree(tree[p], block)
                THEN [current EXCEPT ![p] = @ + 1]
                ELSE current
  /\ EndAttempt(p)
  /\ UNCHANGED Budgets
  /\ UNCHANGED tables

SaveProof(p) ==
  /\ phase[p] = "proved"
  /\ IF made[p].block \in ProvenNumbers
     THEN UNCHANGED tables       \* the primary key refuses a second proof
     ELSE StoreProof(made[p])
  /\ EndAttempt(p)
  /\ UNCHANGED <<tree, current>> /\ UNCHANGED Budgets

----------------------------------------------------------------------------

\* The database cannot be reached: the attempt ends where it is.
AttemptFails(p) ==
  /\ failures + lostLeases < MaxFailures
  /\ phase[p] # "idle"
  /\ failures' = failures + 1
  /\ EndAttempt(p)
  /\ UNCHANGED <<tree, current, lostLeases>>
  /\ UNCHANGED tables

\* The prover stops at any point and is started again.
RestartProver(p) ==
  /\ failures + lostLeases < MaxFailures
  /\ failures' = failures + 1
  /\ tree' = [tree EXCEPT ![p] = LoadVerifiedState.ledger]
  /\ current' = [current EXCEPT ![p] = LoadVerifiedState.block + 1]
  /\ EndAttempt(p)
  /\ UNCHANGED lostLeases
  /\ UNCHANGED tables

\* The timer sends a heartbeat for a job whose last one is too old.
Heartbeat(p) ==
  /\ job[p] # 0
  /\ ~proverRuns[job[p]].fresh
  /\ UpdateProverJob(job[p])
  /\ UNCHANGED proverVars

\* A run expires when its prover has left the job, or while it is at work but
\* its heartbeats are lost: their errors are ignored.
LeaseExpires(run) ==
  /\ proverRuns[run].block \notin ProvenNumbers
  /\ RunExpires(run)
  /\ IF \E p \in Worker : job[p] = run
     THEN failures + lostLeases < MaxFailures /\ lostLeases' = lostLeases + 1
     ELSE UNCHANGED lostLeases
  /\ UNCHANGED <<tree, current, phase, job, made, failures>>

Attempt(p) ==
  \/ FetchJob(p) \/ FastForward(p) \/ PrepareTree(p)
  \/ MakeProof(p) \/ ProofFails(p) \/ SaveProof(p)

ProverNext ==
  \/ \E p \in Worker : Attempt(p) \/ AttemptFails(p) \/ RestartProver(p) \/ Heartbeat(p)
  \/ \E run \in DOMAIN proverRuns : LeaseExpires(run)

=============================================================================
