---------------------------- MODULE RollupProofs ----------------------------
(***************************************************************************)
(* Proofs about the database that the server and the provers share, for    *)
(* every number of provers, every set of requests, and any number of       *)
(* stops, failures and prover runs: blocks are verified in order, each by  *)
(* one prover; what is restored from the tables, and what the queries      *)
(* tell, is the state the blocks made; the stored blocks are a serial      *)
(* history; and every proof is of its block, whatever the prover's tree    *)
(* went through.                                                           *)
(***************************************************************************)
EXTENDS Rollup, LedgerLemmas, SequenceTheorems

----------------------------------------------------------------------------
\* Facts about the tables

LEMMA NewestOfRange ==
  ASSUME NEW n \in Nat
  PROVE  Newest(1 .. n) = n
<1>1. (1 .. n) \cup {0} = 0 .. n
  OBVIOUS
<1>2. \A x \in 0 .. n : (\A m \in 1 .. n : m <= x) <=> x = n
  OBVIOUS
<1>3. n \in 0 .. n
  OBVIOUS
<1> QED
  BY <1>1, <1>2, <1>3 DEF Newest

LEMMA CommittedBlockNumber ==
  ASSUME NEW n \in CommittedNumbers
  PROVE  LoadCommittedBlock(n).number = n
BY DEF CommittedNumbers, LoadCommittedBlock

LEMMA CommitAddsNumber ==
  ASSUME NEW S, commitOps \in Seq(S), NEW block, commitOps' = Append(commitOps, block)
  PROVE  /\ commitOps' \in Seq(S \cup {block})
         /\ CommittedNumbers' = CommittedNumbers \cup {block.number}
<1>1. /\ Len(commitOps) \in Nat
      /\ DOMAIN commitOps = 1 .. Len(commitOps)
      /\ DOMAIN commitOps' = 1 .. Len(commitOps) + 1
      /\ \A i \in 1 .. Len(commitOps) : commitOps'[i] = commitOps[i]
      /\ commitOps'[Len(commitOps) + 1] = block
  OBVIOUS
<1>2. commitOps \in Seq(S \cup {block})
  OBVIOUS
<1>3. commitOps' \in Seq(S \cup {block})
  BY <1>2
<1>4. 1 .. Len(commitOps) + 1 = (1 .. Len(commitOps)) \cup {Len(commitOps) + 1}
  BY <1>1
<1>5. CommittedNumbers' = {commitOps'[i].number : i \in 1 .. Len(commitOps) + 1}
  BY <1>1 DEF CommittedNumbers
<1>6. CommittedNumbers = {commitOps[i].number : i \in 1 .. Len(commitOps)}
  BY <1>1 DEF CommittedNumbers
<1> QED
  BY <1>1, <1>3, <1>4, <1>5, <1>6

----------------------------------------------------------------------------
\* The inductive invariant

Run == [block : CommittedNumbers, worker : Worker, fresh : BOOLEAN]

\* Each verified block had the next number, a proof and a commit; what is
\* not in the tables yet is on its way there: the committer's counter, the
\* jobs of the provers, and the proofs they have not stored.
OrderInv ==
  /\ \E S : commitOps \in Seq(S)
  /\ verifyOps \in Seq(Nat)
  /\ lastVerified = Len(verifyOps)
  /\ proverRuns \in Seq(Run)
  /\ job \in [Worker -> Nat]
  /\ \A p \in Worker : job[p] \in 0 .. Len(proverRuns)
  /\ phase \in [Worker -> Phases]
  /\ \A p \in Worker : phase[p] \in {"fetched", "ready"} => job[p] # 0
  /\ made = [p \in Worker |-> made[p]]
  /\ \A p \in Worker : phase[p] = "proved" => made[p].block \in CommittedNumbers
  /\ VerifiedInOrder

LEMMA OrderInvInit == Init => OrderInv
<1> SUFFICES ASSUME Init PROVE OrderInv
  OBVIOUS
<1> USE DEF Init, EmptyTables, ServerInit, ProverInit
<1>1. commitOps \in Seq({}) /\ verifyOps \in Seq(Nat) /\ proverRuns \in Seq(Run)
  OBVIOUS
<1>2. VerifiedNumbers = {} /\ CommittedNumbers = {} /\ ProvenNumbers = {}
  BY DEF VerifiedNumbers, CommittedNumbers, ProvenNumbers
<1>3. Len(verifyOps) = 0 /\ verifyOps = [i \in 1 .. Len(verifyOps) |-> i]
  OBVIOUS
<1>4. LastVerified = 0
  BY <1>2, NewestOfRange DEF LastVerified, Newest
<1>5. made = [p \in Worker |-> made[p]]
  OBVIOUS
<1>6. /\ job \in [Worker -> Nat] /\ \A p \in Worker : job[p] = 0
      /\ phase \in [Worker -> Phases] /\ \A p \in Worker : phase[p] = "idle"
  BY DEF Phases
<1> QED
  BY <1>1, <1>2, <1>3, <1>4, <1>5, <1>6 DEF OrderInv, VerifiedInOrder

\* Blocks that are committed stay so.
LEMMA RunsStay ==
  ASSUME CommittedNumbers \subseteq CommittedNumbers', proverRuns \in Seq(Run), UNCHANGED proverRuns
  PROVE  proverRuns' \in Seq(Run')
<1>1. \A r \in Run : r \in Run'
  BY DEF Run
<1> QED
  BY <1>1

LEMMA OrderInvCommit ==
  ASSUME OrderInv, CommitBlock, UNCHANGED proverVars
  PROVE  OrderInv'
<1>1. PICK S : commitOps \in Seq(S)
  BY DEF OrderInv
<1>2. commitOps' = Append(commitOps, Head(channel))
  BY DEF CommitBlock, CommitOperation
<1>3. /\ commitOps' \in Seq(S \cup {Head(channel)})
      /\ CommittedNumbers \subseteq CommittedNumbers'
  BY <1>1, <1>2, CommitAddsNumber
<1>4. UNCHANGED <<verifyOps, proofs, proverRuns, lastVerified, proverVars>>
  BY DEF CommitBlock, CommitOperation
<1>5. VerifiedInOrder'
  BY <1>3, <1>4 DEF OrderInv, VerifiedInOrder, VerifiedNumbers, ProvenNumbers
<1>6. proverRuns' \in Seq(Run')
  BY <1>3, <1>4, RunsStay DEF OrderInv
<1> QED
  BY <1>3, <1>4, <1>5, <1>6 DEF OrderInv, proverVars

LEMMA OrderInvVerify ==
  ASSUME OrderInv, VerifyBlock, UNCHANGED proverVars
  PROVE  OrderInv'
<1>1. PICK n \in ToVerify : VerifyOperation(n) /\ lastVerified' = n
  BY DEF VerifyBlock
<1>2. n = Len(verifyOps) + 1 /\ n \in ProvenNumbers /\ Len(verifyOps) \in Nat
  BY <1>1 DEF ToVerify, OrderInv
<1>3. verifyOps' = Append(verifyOps, n) /\ UNCHANGED <<commitOps, proofs, proverRuns>>
  BY <1>1 DEF VerifyOperation
<1>4. verifyOps' \in Seq(Nat) /\ Len(verifyOps') = n
  BY <1>2, <1>3 DEF OrderInv
<1>5. verifyOps' = [i \in 1 .. n |-> i]
  <2>1. verifyOps = [i \in 1 .. Len(verifyOps) |-> i]
    BY DEF OrderInv, VerifiedInOrder
  <2>2. \A i \in 1 .. n : verifyOps'[i] = i
    BY <1>2, <1>3, <2>1 DEF OrderInv
  <2>3. verifyOps' = [i \in 1 .. n |-> verifyOps'[i]]
    BY <1>4
  <2> QED
    BY <2>2, <2>3
<1>6. VerifiedNumbers' \subseteq ProvenNumbers
  <2>1. VerifiedNumbers' = 1 .. n
    BY <1>5 DEF VerifiedNumbers
  <2>2. VerifiedNumbers = 1 .. Len(verifyOps)
    BY DEF OrderInv, VerifiedInOrder, VerifiedNumbers
  <2> QED
    BY <1>2, <2>1, <2>2 DEF OrderInv, VerifiedInOrder
<1>7. UNCHANGED <<CommittedNumbers, ProvenNumbers, Run>>
  BY <1>3 DEF CommittedNumbers, ProvenNumbers, Run
<1>8. VerifiedInOrder'
  BY <1>4, <1>5, <1>6, <1>7 DEF OrderInv, VerifiedInOrder
<1> QED
  BY <1>1, <1>3, <1>4, <1>7, <1>8 DEF OrderInv, proverVars

LEMMA OrderInvRestart ==
  ASSUME OrderInv, Restart, UNCHANGED proverVars
  PROVE  OrderInv'
<1>1. UNCHANGED tables /\ lastVerified' = LastVerified
  BY DEF Restart
<1>2. LastVerified = Len(verifyOps)
  <2>1. VerifiedNumbers = 1 .. Len(verifyOps) /\ Len(verifyOps) \in Nat
    BY DEF OrderInv, VerifiedInOrder, VerifiedNumbers
  <2> QED
    BY <2>1, NewestOfRange DEF LastVerified
<1>3. UNCHANGED <<CommittedNumbers, ProvenNumbers, VerifiedNumbers, Run>>
  BY <1>1 DEF tables, CommittedNumbers, ProvenNumbers, VerifiedNumbers, Run
<1> QED
  BY <1>1, <1>2, <1>3 DEF OrderInv, VerifiedInOrder, tables, proverVars

\* Steps that write no table and leave lastVerified and the provers alone.
LEMMA OrderInvStutter ==
  ASSUME OrderInv, UNCHANGED <<tables, lastVerified, phase, job, made>>
  PROVE  OrderInv'
<1>1. UNCHANGED <<CommittedNumbers, ProvenNumbers, VerifiedNumbers, Run>>
  BY DEF tables, CommittedNumbers, ProvenNumbers, VerifiedNumbers, Run
<1> QED
  BY <1>1 DEF OrderInv, VerifiedInOrder, tables

LEMMA OrderInvServer ==
  ASSUME OrderInv, ServerNext, UNCHANGED proverVars
  PROVE  OrderInv'
<1>1. CASE CommitBlock
  BY <1>1, OrderInvCommit
<1>2. CASE VerifyBlock
  BY <1>2, OrderInvVerify
<1>3. CASE Restart
  BY <1>3, OrderInvRestart
<1>4. CASE \/ \E tx \in Transfers : MakeTransferBlock(tx)
           \/ \E tx \in Deposits : MakeDepositBlock(tx)
           \/ \E id \in Exits : MakeExitBlock(id)
           \/ ReceiveTimeout \/ NoMoreProofs \/ CommitterPanics
  <2>1. UNCHANGED <<tables, lastVerified, phase, job, made>>
    BY <1>4 DEF MakeTransferBlock, MakeDepositBlock, MakeExitBlock, SendBlock,
                ReceiveTimeout, NoMoreProofs, CommitterPanics, proverVars
  <2> QED
    BY <2>1, OrderInvStutter
<1> QED
  BY <1>1, <1>2, <1>3, <1>4 DEF ServerNext, Committer

----------------------------------------------------------------------------
\* Steps of the provers

LEMMA JobIsCommitted ==
  ASSUME OrderInv, NEW p \in Worker, job[p] # 0
  PROVE  JobBlock(p) \in CommittedNumbers
<1>1. job[p] \in 1 .. Len(proverRuns)
  BY DEF OrderInv
<1>2. proverRuns[job[p]] \in Run
  BY <1>1 DEF OrderInv
<1> QED
  BY <1>2 DEF Run, JobBlock

\* The tables but for the runs and the proofs, and the committer's counter.
Settled == UNCHANGED <<commitOps, verifyOps, lastVerified>>

LEMMA SettledFacts ==
  ASSUME Settled
  PROVE  UNCHANGED <<CommittedNumbers, VerifiedNumbers, Run>>
BY DEF Settled, CommittedNumbers, VerifiedNumbers, Run

LEMMA OrderInvFetch ==
  ASSUME OrderInv, NEW p \in Worker, FetchJob(p), UNCHANGED serverVars
  PROVE  OrderInv'
<1>1. PICK n \in JobCandidates : FetchProverJob(p, n)
  BY DEF FetchJob
<1>2. n \in CommittedNumbers
  BY DEF JobCandidates
<1>3. proverRuns' = Append(proverRuns, [block |-> n, worker |-> p, fresh |-> TRUE])
  BY <1>1 DEF FetchProverJob
<1>4. Settled /\ UNCHANGED <<proofs, made>>
  BY <1>1 DEF FetchProverJob, FetchJob, Settled, serverVars
<1>5. [block |-> n, worker |-> p, fresh |-> TRUE] \in Run
  BY <1>2 DEF Run
<1>6. proverRuns' \in Seq(Run') /\ Len(proverRuns') = Len(proverRuns) + 1
  BY <1>3, <1>4, <1>5, SettledFacts DEF OrderInv
<1>7. /\ job' \in [Worker -> Nat]
      /\ \A q \in Worker : job'[q] \in 0 .. Len(proverRuns')
      /\ job'[p] # 0
      /\ \A q \in Worker \ {p} : job'[q] = job[q]
  BY <1>6 DEF FetchJob, OrderInv
<1>8. /\ phase' \in [Worker -> Phases]
      /\ phase'[p] = "fetched"
      /\ \A q \in Worker \ {p} : phase'[q] = phase[q]
  BY DEF FetchJob, OrderInv, Phases
<1>9. VerifiedInOrder'
  BY <1>4, SettledFacts DEF OrderInv, VerifiedInOrder, ProvenNumbers, Settled
<1> QED
  BY <1>4, <1>6, <1>7, <1>8, <1>9, SettledFacts DEF OrderInv, Settled

\* A step that ends an attempt, with or without storing a proof.
LEMMA OrderInvEndAttempt ==
  ASSUME OrderInv, NEW p \in Worker, EndAttempt(p), Settled, UNCHANGED proverRuns,
         ProvenNumbers \subseteq ProvenNumbers', ProvenNumbers' \subseteq CommittedNumbers
  PROVE  OrderInv'
<1>1. /\ phase' \in [Worker -> Phases]
      /\ phase'[p] = "idle"
      /\ \A q \in Worker \ {p} : phase'[q] = phase[q]
  BY DEF EndAttempt, OrderInv, Phases
<1>2. /\ job' \in [Worker -> Nat]
      /\ job'[p] = 0
      /\ \A q \in Worker \ {p} : job'[q] = job[q]
  BY DEF EndAttempt, OrderInv
<1>3. /\ made' = [q \in Worker |-> made'[q]]
      /\ \A q \in Worker \ {p} : made'[q] = made[q]
  BY DEF EndAttempt, OrderInv
<1>4. VerifiedInOrder'
  BY SettledFacts DEF OrderInv, VerifiedInOrder, Settled
<1>5. \A q \in Worker : job'[q] \in 0 .. Len(proverRuns)
  <2>1. 0 \in 0 .. Len(proverRuns) /\ \A q \in Worker : job[q] \in 0 .. Len(proverRuns)
    BY DEF OrderInv
  <2> QED
    BY <1>2, <2>1
<1> QED
  BY <1>1, <1>2, <1>3, <1>4, <1>5, SettledFacts DEF OrderInv, Settled

LEMMA OrderInvMakeProof ==
  ASSUME OrderInv, NEW p \in Worker, MakeProof(p), UNCHANGED serverVars
  PROVE  OrderInv'
<1>1. job[p] # 0
  BY DEF MakeProof, OrderInv
<1>2. LoadCommittedBlock(JobBlock(p)).number \in CommittedNumbers
  BY <1>1, JobIsCommitted, CommittedBlockNumber
<1>3. Settled /\ UNCHANGED <<proofs, proverRuns, job>>
  BY DEF MakeProof, Settled, serverVars, tables
<1>4. /\ made' = [q \in Worker |-> made'[q]]
      /\ made'[p].block \in CommittedNumbers
      /\ \A q \in Worker \ {p} : made'[q] = made[q]
  BY <1>2 DEF MakeProof, OrderInv
<1>5. /\ phase' \in [Worker -> Phases]
      /\ phase'[p] = "proved"
      /\ \A q \in Worker \ {p} : phase'[q] = phase[q]
  BY DEF MakeProof, OrderInv, Phases
<1>6. VerifiedInOrder'
  BY <1>3, SettledFacts DEF OrderInv, VerifiedInOrder, ProvenNumbers, Settled
<1> QED
  BY <1>3, <1>4, <1>5, <1>6, SettledFacts DEF OrderInv, Settled

LEMMA OrderInvPrepare ==
  ASSUME OrderInv, NEW p \in Worker, PrepareTree(p), UNCHANGED serverVars
  PROVE  OrderInv'
<1>1. Settled /\ UNCHANGED <<proofs, proverRuns, job, made>>
  BY DEF PrepareTree, Settled, serverVars, tables
<1>2. /\ phase' \in [Worker -> Phases]
      /\ phase[p] = "fetched" /\ phase'[p] = "ready"
      /\ \A q \in Worker \ {p} : phase'[q] = phase[q]
  BY DEF PrepareTree, OrderInv, Phases
<1>3. VerifiedInOrder'
  BY <1>1, SettledFacts DEF OrderInv, VerifiedInOrder, ProvenNumbers, Settled
<1> QED
  BY <1>1, <1>2, <1>3, SettledFacts DEF OrderInv, Settled

LEMMA OrderInvSave ==
  ASSUME OrderInv, NEW p \in Worker, SaveProof(p), UNCHANGED serverVars
  PROVE  OrderInv'
<1>1. Settled /\ UNCHANGED proverRuns /\ EndAttempt(p)
  BY DEF SaveProof, StoreProof, Settled, serverVars, tables
<1>2. made[p].block \in CommittedNumbers
  BY DEF SaveProof, OrderInv
<1>3. proofs' = proofs \/ proofs' = proofs \cup {made[p]}
  BY DEF SaveProof, StoreProof, tables
<1>4. /\ ProvenNumbers \subseteq ProvenNumbers'
      /\ ProvenNumbers' \subseteq ProvenNumbers \cup {made[p].block}
  BY <1>3 DEF ProvenNumbers
<1>5. ProvenNumbers \subseteq CommittedNumbers
  BY DEF OrderInv, VerifiedInOrder
<1> QED
  BY <1>1, <1>2, <1>4, <1>5, OrderInvEndAttempt

\* Heartbeats and their loss change only whether runs are fresh.
LEMMA OrderInvLease ==
  ASSUME OrderInv, NEW run \in DOMAIN proverRuns, NEW f \in BOOLEAN,
         proverRuns' = [proverRuns EXCEPT ![run].fresh = f],
         Settled, UNCHANGED <<proofs, phase, job, made>>
  PROVE  OrderInv'
<1>1. [proverRuns[run] EXCEPT !.fresh = f] \in Run
  <2>1. proverRuns[run] \in Run
    BY DEF OrderInv
  <2> QED
    BY <2>1, Zenon DEF Run
<1>2. proverRuns' \in Seq(Run) /\ Len(proverRuns') = Len(proverRuns)
  BY <1>1 DEF OrderInv
<1>3. VerifiedInOrder'
  BY SettledFacts DEF OrderInv, VerifiedInOrder, ProvenNumbers, Settled
<1> QED
  BY <1>2, <1>3, SettledFacts DEF OrderInv, Settled

LEMMA OrderInvProver ==
  ASSUME OrderInv, ProverNext, UNCHANGED serverVars
  PROVE  OrderInv'
<1>1. ASSUME NEW p \in Worker, FetchJob(p) PROVE OrderInv'
  BY <1>1, OrderInvFetch
<1>2. ASSUME NEW p \in Worker, FastForward(p) PROVE OrderInv'
  BY <1>2, OrderInvStutter DEF FastForward, serverVars
<1>3. ASSUME NEW p \in Worker, PrepareTree(p) PROVE OrderInv'
  BY <1>3, OrderInvPrepare
<1>4. ASSUME NEW p \in Worker, MakeProof(p) PROVE OrderInv'
  BY <1>4, OrderInvMakeProof
<1>5. ASSUME NEW p \in Worker, ProofFails(p) \/ AttemptFails(p) \/ RestartProver(p)
      PROVE  OrderInv'
  <2>1. EndAttempt(p) /\ UNCHANGED tables
    BY <1>5 DEF ProofFails, AttemptFails, RestartProver
  <2>2. Settled /\ UNCHANGED <<proverRuns, ProvenNumbers>>
    BY <2>1 DEF Settled, tables, serverVars, ProvenNumbers
  <2>3. ProvenNumbers \subseteq CommittedNumbers
    BY DEF OrderInv, VerifiedInOrder
  <2> QED
    BY <2>1, <2>2, <2>3, OrderInvEndAttempt
<1>6. ASSUME NEW p \in Worker, SaveProof(p) PROVE OrderInv'
  BY <1>6, OrderInvSave
<1>7. ASSUME NEW p \in Worker, Heartbeat(p) PROVE OrderInv'
  <2>1. job[p] \in DOMAIN proverRuns
    BY <1>7 DEF Heartbeat, OrderInv
  <2>2. /\ proverRuns' = [proverRuns EXCEPT ![job[p]].fresh = TRUE]
        /\ Settled /\ UNCHANGED <<proofs, phase, job, made>>
    BY <1>7 DEF Heartbeat, UpdateProverJob, Settled, serverVars, proverVars
  <2> QED
    BY <2>1, <2>2, OrderInvLease
<1>8. ASSUME NEW run \in DOMAIN proverRuns, LeaseExpires(run) PROVE OrderInv'
  <2>1. /\ proverRuns' = [proverRuns EXCEPT ![run].fresh = FALSE]
        /\ Settled /\ UNCHANGED <<proofs, phase, job, made>>
    BY <1>8 DEF LeaseExpires, RunExpires, Settled, serverVars
  <2> QED
    BY <2>1, OrderInvLease
<1> QED
  BY <1>1, <1>2, <1>3, <1>4, <1>5, <1>6, <1>7, <1>8 DEF ProverNext, Attempt

LEMMA OrderInvNext == OrderInv /\ [Next]_allVars => OrderInv'
<1> SUFFICES ASSUME OrderInv, [Next]_allVars PROVE OrderInv'
  OBVIOUS
<1>1. CASE UNCHANGED allVars
  BY <1>1, OrderInvStutter DEF allVars, serverVars, proverVars
<1>2. CASE Next
  BY <1>2, OrderInvServer, OrderInvProver DEF Next
<1> QED
  BY <1>1, <1>2

LEMMA OrderInvariant == Spec => []OrderInv
BY OrderInvInit, OrderInvNext, PTL DEF Spec

\* Blocks are verified one after another without gap, each after its proof was
\* stored and after it was committed, whatever is lost in stops of the server,
\* the committer or a prover, and in whatever order proofs arrive.
THEOREM BlocksVerifiedInOrder == Spec => []VerifiedInOrder
<1>1. OrderInv => VerifiedInOrder
  BY DEF OrderInv
<1> QED
  BY <1>1, OrderInvariant, PTL

----------------------------------------------------------------------------
\* One prover per block

\* As long as no heartbeat was lost, the run of a prover at work is fresh, so
\* that its block is no candidate for others.
LeaseInv ==
  /\ lostLeases \in Nat
  /\ lostLeases = 0 =>
       \A p \in Worker : job[p] # 0 => proverRuns[job[p]].fresh = TRUE
  /\ OneProverPerBlock

LEMMA LeaseInvInit == Init => LeaseInv
BY DEF Init, ProverInit, LeaseInv, OneProverPerBlock

\* Provers may leave their jobs; the runs of the others are as they were.
LEMMA LeaseInvStay ==
  ASSUME LeaseInv, UNCHANGED <<lostLeases, proverRuns>>,
         \A p \in Worker : job'[p] \in {0, job[p]}
  PROVE  LeaseInv'
<1>1. \A p \in Worker : job'[p] # 0 => job'[p] = job[p] /\ JobBlock(p)' = JobBlock(p)
  BY DEF JobBlock
<1>2. OneProverPerBlock'
  BY <1>1 DEF LeaseInv, OneProverPerBlock
<1> QED
  BY <1>1, <1>2 DEF LeaseInv

LEMMA LeaseInvFetch ==
  ASSUME OrderInv, LeaseInv, NEW p \in Worker, FetchJob(p), UNCHANGED serverVars
  PROVE  LeaseInv'
<1>1. PICK n \in JobCandidates : FetchProverJob(p, n)
  BY DEF FetchJob
<1>2. proverRuns' = Append(proverRuns, [block |-> n, worker |-> p, fresh |-> TRUE])
  BY <1>1 DEF FetchProverJob
<1>3. /\ Len(proverRuns) \in Nat
      /\ Len(proverRuns') = Len(proverRuns) + 1
      /\ \A i \in 1 .. Len(proverRuns) : proverRuns'[i] = proverRuns[i]
      /\ proverRuns'[Len(proverRuns')] = [block |-> n, worker |-> p, fresh |-> TRUE]
  BY <1>2 DEF OrderInv
<1>4. /\ job'[p] = Len(proverRuns')
      /\ \A q \in Worker \ {p} : job'[q] = job[q] /\ job[q] \in 0 .. Len(proverRuns)
  BY DEF FetchJob, OrderInv
<1>5. UNCHANGED lostLeases
  BY DEF FetchJob, Budgets
<1> DEFINE Busy == {q \in Worker \ {p} : job[q] # 0}
<1>6. \A q \in Busy : job[q] \in 1 .. Len(proverRuns)
  BY <1>3, <1>4
<1>7. \A q \in Busy : proverRuns'[job'[q]] = proverRuns[job[q]]
  BY <1>3, <1>4, <1>6
<1>8. /\ JobBlock(p)' = n
      /\ \A q \in Busy : JobBlock(q)' = JobBlock(q)
  BY <1>3, <1>4, <1>7 DEF JobBlock
<1>9. ASSUME lostLeases = 0
      PROVE  /\ \A q \in Busy : proverRuns[job[q]].fresh = TRUE /\ JobBlock(q) # n
             /\ \A q, r \in Busy : JobBlock(q) = JobBlock(r) => q = r
  <2>1. \A q \in Busy : proverRuns[job[q]].fresh = TRUE
    BY <1>9 DEF LeaseInv
  <2>2. \A i \in 1 .. Len(proverRuns) :
          proverRuns[i].fresh = TRUE => proverRuns[i].block # n
    <3>1. DOMAIN proverRuns = 1 .. Len(proverRuns)
      BY DEF OrderInv
    <3>2. \A i \in DOMAIN proverRuns : ~(proverRuns[i].block = n /\ proverRuns[i].fresh)
      BY Zenon DEF JobCandidates
    <3> QED
      BY <3>1, <3>2, Zenon
  <2>3. \A q \in Busy : JobBlock(q) # n
    BY <1>6, <2>1, <2>2 DEF JobBlock
  <2>4. \A q, r \in Busy : JobBlock(q) = JobBlock(r) => q = r
    BY <1>9 DEF LeaseInv, OneProverPerBlock
  <2> QED
    BY <2>1, <2>3, <2>4
<1>10. \A q \in Worker : job'[q] # 0 => q = p \/ q \in Busy
  BY <1>4
<1>11. OneProverPerBlock'
  <2> SUFFICES ASSUME lostLeases' = 0, NEW q \in Worker, NEW r \in Worker,
                      job'[q] # 0, job'[r] # 0, JobBlock(q)' = JobBlock(r)'
               PROVE  q = r
    BY DEF OneProverPerBlock
  <2>1. lostLeases = 0
    BY <1>5
  <2>2. CASE q = p \/ r = p
    BY <1>8, <1>9, <1>10, <2>1, <2>2
  <2>3. CASE q \in Busy /\ r \in Busy
    BY <1>8, <1>9, <2>1, <2>3
  <2> QED
    BY <1>10, <2>2, <2>3
<1>12. lostLeases' = 0 =>
         \A q \in Worker : job'[q] # 0 => proverRuns'[job'[q]].fresh = TRUE
  <2> SUFFICES ASSUME lostLeases' = 0, NEW q \in Worker, job'[q] # 0
               PROVE  proverRuns'[job'[q]].fresh = TRUE
    OBVIOUS
  <2>1. lostLeases = 0
    BY <1>5
  <2>2. CASE q = p
    BY <1>3, <1>4, <2>2
  <2>3. CASE q \in Busy
    BY <1>7, <1>9, <2>1, <2>3
  <2> QED
    BY <1>10, <2>2, <2>3
<1> QED
  BY <1>5, <1>11, <1>12 DEF LeaseInv

LEMMA LeaseInvHeartbeat ==
  ASSUME OrderInv, LeaseInv, NEW p \in Worker, Heartbeat(p)
  PROVE  LeaseInv'
<1>1. proverRuns' = [proverRuns EXCEPT ![job[p]].fresh = TRUE]
  BY DEF Heartbeat, UpdateProverJob
<1>2. UNCHANGED <<job, lostLeases>>
  BY DEF Heartbeat, proverVars
<1>3. \A i \in DOMAIN proverRuns : proverRuns[i] \in Run
  BY DEF OrderInv
<1>4. \A i \in DOMAIN proverRuns :
        /\ proverRuns'[i].block = proverRuns[i].block
        /\ proverRuns[i].fresh = TRUE => proverRuns'[i].fresh = TRUE
  BY <1>1, <1>3 DEF Run
<1>5. \A q \in Worker : job[q] # 0 => job[q] \in DOMAIN proverRuns
  BY DEF OrderInv
<1>6. \A q \in Worker : job[q] # 0 => JobBlock(q)' = JobBlock(q)
  BY <1>2, <1>4, <1>5 DEF JobBlock
<1>7. OneProverPerBlock'
  BY <1>2, <1>6 DEF LeaseInv, OneProverPerBlock
<1> QED
  BY <1>2, <1>4, <1>5, <1>7 DEF LeaseInv

LEMMA LeaseInvExpires ==
  ASSUME OrderInv, LeaseInv, NEW run \in DOMAIN proverRuns, LeaseExpires(run)
  PROVE  LeaseInv'
<1>1. proverRuns' = [proverRuns EXCEPT ![run].fresh = FALSE] /\ UNCHANGED job
  BY DEF LeaseExpires, RunExpires
<1>2. CASE \E p \in Worker : job[p] = run
  <2>1. lostLeases' = lostLeases + 1
    BY <1>2 DEF LeaseExpires
  <2> QED
    BY <2>1 DEF LeaseInv, OneProverPerBlock
<1>3. CASE ~\E p \in Worker : job[p] = run
  <2>1. UNCHANGED lostLeases
    BY <1>3 DEF LeaseExpires
  <2>2. \A q \in Worker : job[q] # 0 => proverRuns'[job[q]] = proverRuns[job[q]]
    BY <1>1, <1>3 DEF OrderInv
  <2>3. \A q \in Worker : job[q] # 0 => JobBlock(q)' = JobBlock(q)
    BY <1>1, <2>2 DEF JobBlock
  <2>4. OneProverPerBlock'
    BY <1>1, <2>1, <2>3 DEF LeaseInv, OneProverPerBlock
  <2> QED
    BY <1>1, <2>1, <2>2, <2>4 DEF LeaseInv
<1> QED
  BY <1>2, <1>3

LEMMA LeaseInvNext == OrderInv /\ LeaseInv /\ [Next]_allVars => LeaseInv'
<1> SUFFICES ASSUME OrderInv, LeaseInv, [Next]_allVars PROVE LeaseInv'
  OBVIOUS
<1>1. CASE UNCHANGED allVars
  BY <1>1, LeaseInvStay DEF allVars, tables, proverVars
<1>2. CASE ServerNext /\ UNCHANGED proverVars
  <2>1. UNCHANGED <<job, lostLeases>>
    BY <1>2 DEF proverVars
  <2>2. UNCHANGED proverRuns
    BY <1>2 DEF ServerNext, Committer, MakeTransferBlock, MakeDepositBlock, MakeExitBlock,
                SendBlock, CommitBlock, CommitOperation, ReceiveTimeout, VerifyBlock,
                VerifyOperation, NoMoreProofs, CommitterPanics, Restart, tables
  <2> QED
    BY <2>1, <2>2, LeaseInvStay
<1>3. CASE ProverNext /\ UNCHANGED serverVars
  <2>1. ASSUME NEW p \in Worker, FetchJob(p) PROVE LeaseInv'
    BY <1>3, <2>1, LeaseInvFetch
  <2>2. ASSUME NEW p \in Worker,
               \/ FastForward(p) \/ PrepareTree(p) \/ MakeProof(p) \/ ProofFails(p)
               \/ SaveProof(p) \/ AttemptFails(p) \/ RestartProver(p)
        PROVE  LeaseInv'
    <3>1. UNCHANGED <<lostLeases, proverRuns>>
      BY <2>2 DEF FastForward, PrepareTree, MakeProof, ProofFails, SaveProof, StoreProof,
                  AttemptFails, RestartProver, tables, Budgets
    <3>2. \A q \in Worker : job'[q] \in {0, job[q]}
      BY <2>2 DEF FastForward, PrepareTree, MakeProof, ProofFails, SaveProof,
                  AttemptFails, RestartProver, EndAttempt, OrderInv
    <3> QED
      BY <3>1, <3>2, LeaseInvStay
  <2>3. ASSUME NEW p \in Worker, Heartbeat(p) PROVE LeaseInv'
    BY <2>3, LeaseInvHeartbeat
  <2>4. ASSUME NEW run \in DOMAIN proverRuns, LeaseExpires(run) PROVE LeaseInv'
    BY <2>4, LeaseInvExpires
  <2> QED
    BY <1>3, <2>1, <2>2, <2>3, <2>4 DEF ProverNext, Attempt
<1> QED
  BY <1>1, <1>2, <1>3 DEF Next

\* As long as no heartbeat is lost, no two provers work on the same block,
\* for any number of provers and whatever runs failed attempts and restarts
\* left behind.
THEOREM OneProverAtWork == Spec => []OneProverPerBlock
<1>1. LeaseInv => OneProverPerBlock
  BY DEF LeaseInv
<1> QED
  BY <1>1, LeaseInvInit, LeaseInvNext, OrderInvariant, PTL DEF Spec

----------------------------------------------------------------------------
\* The invariant

\* The rows of an account up to a block.
RowsUpTo(id, n) == {row \in accountUpdates : row.id = id /\ row.block <= n}

IsNewest(row, rows) == row \in rows /\ \A other \in rows : other.block <= row.block

\* What the rows up to a block make of an account.
IsStateAt(id, n, account) ==
  \/ RowsUpTo(id, n) = {} /\ account = Absent
  \/ \E row \in RowsUpTo(id, n) : IsNewest(row, RowsUpTo(id, n)) /\ account = row.account

\* The verified accounts are copies of the newest rows of verified blocks.
IsVerified(id, n) ==
  \/ RowsUpTo(id, n) = {} /\ accounts[id] = Absent
  \/ \E row \in RowsUpTo(id, n) :
       /\ IsNewest(row, RowsUpTo(id, n))
       /\ accounts[id] = [lastBlock |-> row.block, account |-> row.account]

\* A block leads from one ledger to the next.
LeadsTo(l, block, m) ==
  /\ \E id \in AccountId : block.updated[id] # Absent
  /\ \A id \in AccountId : m[id] = IF block.updated[id] = Absent THEN l[id] ELSE block.updated[id]
  /\ block.root = Leaves(m)

Committed == Len(commitOps)
Verified == Len(verifyOps)

TablesInv ==
  /\ commitOps \in Seq(Blocks)
  /\ channel \in Seq(Blocks)
  /\ Verified <= Committed
  /\ \A i \in 1 .. Committed : commitOps[i].number = i
  /\ accountUpdates \subseteq [id : AccountId, block : 1 .. Committed, account : Account]
  /\ \A r, s \in accountUpdates : r.id = s.id /\ r.block = s.block => r = s
  /\ \A n \in 1 .. Committed : \E row \in accountUpdates : row.block = n
  /\ accounts = [id \in AccountId |-> accounts[id]]
  /\ \A id \in AccountId : IsVerified(id, Verified)
  /\ committer = "stopped" => channel = <<>>

\* The ledgers of the keeper: what is in the tables is the one after the last
\* committed block, each block in the channel leads to the next, and the last
\* one is in memory, unless the committer is gone.
History(L) ==
  /\ L \in [Nat -> Ledgers]
  /\ \A n \in 0 .. Committed : \A id \in AccountId : IsStateAt(id, n, L[n][id])
  /\ \A i \in 1 .. Committed : commitOps[i].root = Leaves(L[i])
  /\ \A i \in 1 .. Len(channel) :
       /\ channel[i].number = Committed + i
       /\ LeadsTo(L[Committed + i - 1], channel[i], L[Committed + i])
  /\ committer # "stopped" =>
       nextBlock = Committed + Len(channel) + 1 /\ memory = L[Committed + Len(channel)]

RecoveryInv == TablesInv /\ \E L : History(L)

----------------------------------------------------------------------------
\* What the queries return

LEMMA NewestNumber ==
  ASSUME NEW S, S \subseteq Nat, NEW n \in S \cup {0}, n \in Nat, \A m \in S : m <= n
  PROVE  Newest(S) = n
<1>1. \A x \in S \cup {0} : x \in Nat
  OBVIOUS
<1>2. \A x \in S \cup {0} : (\A m \in S : m <= x) => x = n
  BY <1>1
<1> QED
  BY <1>2 DEF Newest

\* There is one newest row.
LEMMA NewestRow ==
  ASSUME TablesInv, NEW id, NEW rows, rows \subseteq accountUpdates,
         \A r \in rows : r.id = id, NEW row \in rows, IsNewest(row, rows), NEW d
  PROVE  NewestUpdate(rows, d) = row.account
<1>1. \A r \in rows : r.block \in Nat
  BY DEF TablesInv
<1>2. \A r \in rows : (\A other \in rows : other.block <= r.block) => r = row
  BY <1>1 DEF TablesInv, IsNewest
<1>3. \A other \in rows : other.block <= row.block
  BY DEF IsNewest
<1> QED
  BY <1>2, <1>3 DEF NewestUpdate

LEMMA StateAt ==
  ASSUME TablesInv, NEW id \in AccountId, NEW n, NEW a, IsStateAt(id, n, a)
  PROVE  /\ NewestUpdate(RowsUpTo(id, n), Absent) = a
         /\ RowsUpTo(id, n) # {} => a \in Account
<1>1. RowsUpTo(id, n) \subseteq accountUpdates /\ \A r \in RowsUpTo(id, n) : r.id = id
  BY DEF RowsUpTo
<1>2. CASE RowsUpTo(id, n) = {} /\ a = Absent
  BY <1>2 DEF NewestUpdate
<1>3. ASSUME NEW row \in RowsUpTo(id, n), IsNewest(row, RowsUpTo(id, n)), a = row.account
      PROVE  /\ NewestUpdate(RowsUpTo(id, n), Absent) = a
             /\ a \in Account
  <2>1. NewestUpdate(RowsUpTo(id, n), Absent) = row.account
    BY <1>1, <1>3, NewestRow
  <2>2. row.account \in Account
    BY <1>1 DEF TablesInv
  <2> QED
    BY <1>3, <2>1, <2>2
<1> QED
  BY <1>2, <1>3 DEF IsStateAt

\* When no row is between two blocks an account is the same after both.
LEMMA StateStays ==
  ASSUME TablesInv, NEW id \in AccountId, NEW m \in Nat, NEW n \in Nat,
         \A row \in accountUpdates : row.id = id => (row.block <= m <=> row.block <= n),
         NEW a, NEW b, IsStateAt(id, m, a), IsStateAt(id, n, b)
  PROVE  a = b
<1>1. RowsUpTo(id, m) = RowsUpTo(id, n)
  BY DEF RowsUpTo
<1>2. NewestUpdate(RowsUpTo(id, m), Absent) = a /\ NewestUpdate(RowsUpTo(id, n), Absent) = b
  BY StateAt
<1> QED
  BY <1>1, <1>2

LEMMA Counts ==
  ASSUME OrderInv, TablesInv
  PROVE  /\ Committed \in Nat /\ Verified \in Nat /\ Verified <= Committed
         /\ LastCommitted = Committed
         /\ LastVerified = Verified
         /\ CommittedNumbers = 1 .. Committed
         /\ \A n \in 1 .. Committed : LoadCommittedBlock(n) = commitOps[n]
<1>1. /\ Committed \in Nat /\ DOMAIN commitOps = 1 .. Committed
  BY LenProperties DEF TablesInv, Committed
<1>2. Verified \in Nat /\ VerifiedNumbers = 1 .. Verified
  BY LenProperties DEF OrderInv, VerifiedInOrder, VerifiedNumbers, Verified
<1>3. CommittedNumbers = 1 .. Committed
  BY <1>1 DEF TablesInv, CommittedNumbers
<1>4. LastCommitted = Committed /\ LastVerified = Verified
  BY <1>1, <1>2, <1>3, NewestOfRange DEF LastCommitted, LastVerified
<1>5. \A n \in 1 .. Committed : LoadCommittedBlock(n) = commitOps[n]
  <2> SUFFICES ASSUME NEW n \in 1 .. Committed PROVE LoadCommittedBlock(n) = commitOps[n]
    OBVIOUS
  <2>1. \A i \in DOMAIN commitOps : commitOps[i].number = n <=> i = n
    BY <1>1 DEF TablesInv
  <2>2. (CHOOSE i \in DOMAIN commitOps : commitOps[i].number = n) = n
    BY <1>1, <2>1
  <2> QED
    BY <2>2 DEF LoadCommittedBlock
<1> QED
  BY <1>1, <1>2, <1>3, <1>4, <1>5 DEF TablesInv

\* The verified state is the one after the last verified block.
LEMMA VerifiedState ==
  ASSUME OrderInv, TablesInv, NEW L, History(L)
  PROVE  /\ VerifiedRowsBlock = Verified
         /\ LoadVerifiedState.block = Verified
         /\ \A id \in AccountId : LoadVerifiedState.ledger[id] = L[Verified][id]
<1>1. Committed \in Nat /\ Verified \in Nat /\ Verified <= Committed
  BY Counts
<1> DEFINE stored == {id \in AccountId : accounts[id] # Absent}
           blocks == {accounts[id].lastBlock : id \in stored}
<1>2. ASSUME NEW id \in AccountId
      PROVE  \/ /\ RowsUpTo(id, Verified) = {} /\ accounts[id] = Absent
                /\ L[Verified][id] = Absent
             \/ \E row \in RowsUpTo(id, Verified) :
                  /\ IsNewest(row, RowsUpTo(id, Verified))
                  /\ row.block \in 1 .. Verified
                  /\ accounts[id] # Absent /\ accounts[id].lastBlock = row.block
                  /\ L[Verified][id] = accounts[id].account
  <2>1. IsStateAt(id, Verified, L[Verified][id])
    BY <1>1 DEF History
  <2>2. CASE RowsUpTo(id, Verified) = {} /\ accounts[id] = Absent
    BY <2>1, <2>2 DEF IsStateAt
  <2>3. ASSUME NEW row \in RowsUpTo(id, Verified), IsNewest(row, RowsUpTo(id, Verified)),
               accounts[id] = [lastBlock |-> row.block, account |-> row.account]
        PROVE  /\ row.block \in 1 .. Verified
               /\ accounts[id] # Absent /\ accounts[id].lastBlock = row.block
               /\ L[Verified][id] = accounts[id].account
    <3>1. row \in accountUpdates /\ row.block <= Verified /\ row.id = id
      BY DEF RowsUpTo
    <3>2. row.block \in 1 .. Verified /\ row.account \in Account
      BY <1>1, <3>1 DEF TablesInv
    <3>3. NewestUpdate(RowsUpTo(id, Verified), Absent) = L[Verified][id]
      BY <2>1, StateAt
    <3>4. NewestUpdate(RowsUpTo(id, Verified), Absent) = row.account
      <4>1. /\ RowsUpTo(id, Verified) \subseteq accountUpdates
            /\ \A r \in RowsUpTo(id, Verified) : r.id = id
        BY DEF RowsUpTo
      <4>2. IsNewest(row, RowsUpTo(id, Verified))
        BY <2>3
      <4> QED
        BY <4>1, <4>2, NewestRow
    <3>5. accounts[id] \in [lastBlock : Nat, account : Account]
      BY <2>3, <3>2, <1>1
    <3>6. accounts[id] # Absent
      BY <3>5, StorageConstants
    <3> QED
      BY <2>3, <3>2, <3>3, <3>4, <3>6
  <2>4. IsVerified(id, Verified)
    BY DEF TablesInv
  <2> QED
    BY <2>2, <2>3, <2>4 DEF IsVerified
<1>3. blocks \subseteq 1 .. Verified
  BY <1>2
<1>4. Verified # 0 => Verified \in blocks
  <2> SUFFICES ASSUME Verified # 0 PROVE Verified \in blocks
    OBVIOUS
  <2>1. Verified \in 1 .. Committed
    BY <1>1
  <2>2. PICK row \in accountUpdates : row.block = Verified
    BY <2>1 DEF TablesInv
  <2>3. row.id \in AccountId /\ row \in RowsUpTo(row.id, Verified)
    BY <1>1, <2>2 DEF TablesInv, RowsUpTo
  <2>4. PICK new \in RowsUpTo(row.id, Verified) :
          /\ IsNewest(new, RowsUpTo(row.id, Verified))
          /\ new.block \in 1 .. Verified
          /\ accounts[row.id] # Absent /\ accounts[row.id].lastBlock = new.block
    BY <1>2, <2>3
  <2>5. row.block <= new.block
    BY <2>3, <2>4 DEF IsNewest
  <2>6. new.block = Verified
    BY <1>1, <2>2, <2>4, <2>5
  <2> QED
    BY <2>3, <2>4, <2>6
<1>5. VerifiedRowsBlock = Verified
  <2>1. blocks \subseteq Nat /\ Verified \in blocks \cup {0} /\ \A m \in blocks : m <= Verified
    BY <1>1, <1>3, <1>4
  <2> HIDE DEF blocks
  <2>2. Newest(blocks) = Verified
    BY <1>1, <2>1, NewestNumber
  <2> QED
    BY <2>2 DEF VerifiedRowsBlock, blocks
<1> QED
  BY <1>2, <1>5 DEF LoadVerifiedState

\* The committed state is the one after the last committed block.
LEMMA CommittedState ==
  ASSUME OrderInv, TablesInv, NEW L, History(L)
  PROVE  /\ LoadCommittedState.block = Committed
         /\ LoadCommittedState.ledger = L[Committed]
<1>1. Committed \in Nat /\ Verified \in Nat /\ Verified <= Committed
  BY Counts
<1>2. VerifiedRowsBlock = Verified
  BY VerifiedState
<1>3. \A row \in accountUpdates : row.block \in 1 .. Committed /\ row.id \in AccountId
  BY DEF TablesInv
<1>4. ASSUME NEW id \in AccountId
      PROVE  NewestUpdate(UnverifiedUpdates(id), LoadVerifiedState.ledger[id]) = L[Committed][id]
  <2>1. IsStateAt(id, Committed, L[Committed][id]) /\ IsStateAt(id, Verified, L[Verified][id])
    BY <1>1 DEF History
  <2>2. CASE UnverifiedUpdates(id) = {}
    <3>1. \A row \in accountUpdates :
            row.id = id => (row.block <= Committed <=> row.block <= Verified)
      BY <1>1, <1>2, <1>3, <2>2 DEF UnverifiedUpdates
    <3>2. L[Committed][id] = L[Verified][id]
      BY <1>1, <2>1, <3>1, StateStays
    <3> QED
      BY <2>2, <3>2, VerifiedState DEF NewestUpdate
  <2>3. CASE UnverifiedUpdates(id) # {}
    <3>1. PICK some \in UnverifiedUpdates(id) : TRUE
      BY <2>3
    <3>2. /\ some \in accountUpdates /\ some.id = id /\ some.block > Verified
          /\ some \in RowsUpTo(id, Committed)
      BY <1>2, <1>3, <3>1 DEF UnverifiedUpdates, RowsUpTo
    <3>3. PICK row \in RowsUpTo(id, Committed) :
            IsNewest(row, RowsUpTo(id, Committed)) /\ L[Committed][id] = row.account
      BY <2>1, <3>2 DEF IsStateAt
    <3>4. row \in accountUpdates /\ row.id = id /\ some.block <= row.block
      BY <3>2, <3>3 DEF RowsUpTo, IsNewest
    <3>5. row \in UnverifiedUpdates(id)
      BY <1>1, <1>2, <1>3, <3>2, <3>4 DEF UnverifiedUpdates
    <3>6. UnverifiedUpdates(id) \subseteq RowsUpTo(id, Committed)
      BY <1>3 DEF UnverifiedUpdates, RowsUpTo
    <3>7. IsNewest(row, UnverifiedUpdates(id))
      BY <3>3, <3>5, <3>6 DEF IsNewest
    <3>8. UnverifiedUpdates(id) \subseteq accountUpdates /\ \A r \in UnverifiedUpdates(id) : r.id = id
      BY DEF UnverifiedUpdates
    <3>9. NewestUpdate(UnverifiedUpdates(id), LoadVerifiedState.ledger[id]) = row.account
      BY <3>5, <3>7, <3>8, NewestRow
    <3> QED
      BY <3>3, <3>9
  <2> QED
    BY <2>2, <2>3
<1>5. LoadCommittedState.ledger = L[Committed]
  <2>1. L[Committed] \in Ledgers
    BY <1>1 DEF History
  <2>2. L[Committed] = [id \in AccountId |-> L[Committed][id]]
    BY <2>1 DEF Ledgers
  <2> QED
    BY <1>4, <2>2 DEF LoadCommittedState
<1> DEFINE numbers == {VerifiedRowsBlock} \cup
                      {row.block : row \in UNION {UnverifiedUpdates(id) : id \in AccountId}}
<1>6. numbers \subseteq 0 .. Committed
  BY <1>1, <1>2, <1>3 DEF UnverifiedUpdates
<1>7. Committed \in numbers
  <2>1. CASE Committed = Verified
    BY <1>2, <2>1
  <2>2. CASE Committed # Verified
    <3>1. Committed \in 1 .. Committed
      BY <1>1, <2>2
    <3>2. PICK row \in accountUpdates : row.block = Committed
      BY <3>1 DEF TablesInv
    <3>3. row \in UnverifiedUpdates(row.id) /\ row.id \in AccountId
      BY <1>1, <1>2, <1>3, <2>2, <3>2 DEF UnverifiedUpdates
    <3> QED
      BY <3>2, <3>3
  <2> QED
    BY <2>1, <2>2
<1>8. Newest(numbers) = Committed
  <2>1. numbers \subseteq Nat /\ Committed \in numbers \cup {0} /\ \A m \in numbers : m <= Committed
    BY <1>1, <1>6, <1>7
  <2> HIDE DEF numbers
  <2> QED
    BY <1>1, <2>1, NewestNumber
<1> QED
  BY <1>5, <1>8 DEF LoadCommittedState

----------------------------------------------------------------------------
\* Steps

Persistent == <<commitOps, verifyOps, accountUpdates, accounts>>

LEMMA TablesStay ==
  ASSUME TablesInv, UNCHANGED Persistent, channel' \in Seq(Blocks),
         committer' = "stopped" => channel' = <<>>
  PROVE  TablesInv'
<1>1. ASSUME NEW id \in AccountId PROVE IsVerified(id, Verified)'
  BY DEF TablesInv, IsVerified, IsNewest, RowsUpTo, Verified, Persistent
<1> QED
  BY <1>1 DEF TablesInv, Persistent, Committed, Verified

\* What is in the tables stays as it was.
LEMMA HistoryStays ==
  ASSUME NEW L, History(L), UNCHANGED Persistent
  PROVE  /\ \A n \in 0 .. Committed' : \A id \in AccountId : IsStateAt(id, n, L[n][id])'
         /\ \A i \in 1 .. Committed' : commitOps'[i].root = Leaves(L[i])
BY DEF History, IsStateAt, IsNewest, RowsUpTo, Committed, Persistent

LEMMA InitRecovery == Init => RecoveryInv
<1> SUFFICES ASSUME Init PROVE RecoveryInv
  OBVIOUS
<1> USE DEF Init, EmptyTables, ServerInit
<1> DEFINE empty == [id \in AccountId |-> Absent]
           L == [n \in Nat |-> empty]
<1>1. Committed = 0 /\ Verified = 0 /\ Len(channel) = 0
  BY DEF Committed, Verified
<1>2. ASSUME NEW id \in AccountId PROVE IsVerified(id, 0) /\ IsStateAt(id, 0, Absent)
  BY <1>2 DEF IsVerified, IsStateAt, RowsUpTo
<1>3. accounts = [id \in AccountId |-> accounts[id]]
  OBVIOUS
<1>4. TablesInv
  BY <1>1, <1>2, <1>3 DEF TablesInv
<1>5. L \in [Nat -> Ledgers] /\ empty \in Ledgers
  BY DEF Ledgers
<1>6. VerifiedRowsBlock = 0
  <2>1. {accounts[id].lastBlock : id \in {i \in AccountId : accounts[i] # Absent}} = {}
    OBVIOUS
  <2>2. Newest({}) = 0
    BY DEF Newest
  <2> QED
    BY <2>1, <2>2 DEF VerifiedRowsBlock
<1>7. \A id \in AccountId : UnverifiedUpdates(id) = {}
  BY DEF UnverifiedUpdates
<1>8. Resumed.block = 0
  <2>1. UNION {UnverifiedUpdates(id) : id \in AccountId} = {}
    BY <1>7
  <2>2. {VerifiedRowsBlock} \cup {row.block : row \in UNION {UnverifiedUpdates(id) : id \in AccountId}} = {0}
    BY <1>6, <2>1
  <2>3. Newest({0}) = 0
    BY DEF Newest
  <2> QED
    BY <2>2, <2>3 DEF Resumed, LoadCommittedState
<1>9. Resumed.ledger = empty
  <2>1. \A id \in AccountId : LoadVerifiedState.ledger[id] = Absent
    BY DEF LoadVerifiedState
  <2> QED
    BY <1>7, <2>1 DEF Resumed, LoadCommittedState, NewestUpdate
<1>10. nextBlock = 1 /\ memory = empty
  BY <1>8, <1>9
<1>11. History(L)
  BY <1>1, <1>2, <1>5, <1>10 DEF History
<1> QED
  BY <1>4, <1>11 DEF RecoveryInv

\* A step that writes to neither the tables nor the channel.
LEMMA StayRecovery ==
  ASSUME RecoveryInv, UNCHANGED Persistent, UNCHANGED <<memory, nextBlock, channel>>,
         committer' = "stopped" <=> committer = "stopped"
  PROVE  RecoveryInv'
<1>1. PICK L : History(L)
  BY DEF RecoveryInv
<1>2. TablesInv'
  BY TablesStay DEF RecoveryInv, TablesInv
<1>3. Committed' = Committed
  BY DEF Committed, Persistent
<1>4. History(L)'
  BY <1>1, <1>3, HistoryStays DEF History
<1> QED
  BY <1>2, <1>4 DEF RecoveryInv

LEMMA PanicRecovery ==
  ASSUME RecoveryInv, CommitterPanics
  PROVE  RecoveryInv'
<1>1. PICK L : History(L)
  BY DEF RecoveryInv
<1>2. UNCHANGED Persistent /\ channel' = <<>> /\ committer' = "stopped"
  BY DEF CommitterPanics, tables, Persistent
<1>3. TablesInv'
  BY <1>2, TablesStay DEF RecoveryInv
<1>4. History(L)'
  BY <1>1, <1>2, HistoryStays DEF History
<1> QED
  BY <1>3, <1>4 DEF RecoveryInv

\* A start reads the ledger after the last committed block.
LEMMA RestartRecovery ==
  ASSUME OrderInv, RecoveryInv, Restart
  PROVE  RecoveryInv'
<1>1. PICK L : History(L)
  BY DEF RecoveryInv
<1>2. /\ UNCHANGED Persistent /\ channel' = <<>> /\ committer' = "receiving"
      /\ nextBlock' = Resumed.block + 1 /\ memory' = Resumed.ledger
  BY DEF Restart, tables, Persistent
<1>3. TablesInv'
  BY <1>2, TablesStay DEF RecoveryInv
<1>4. nextBlock' = Committed + 1 /\ memory' = L[Committed]
  BY <1>1, <1>2, CommittedState DEF RecoveryInv, Resumed
<1>5. Committed' = Committed /\ Committed \in Nat /\ Len(channel') = 0
  BY <1>2, Counts DEF RecoveryInv, Committed, Persistent
<1>6. nextBlock' = Committed' + Len(channel') + 1 /\ memory' = L[Committed' + Len(channel')]
  BY <1>4, <1>5
<1>7. L \in [Nat -> Ledgers] /\ L' = L
  BY <1>1 DEF History
<1>8. \A i \in 1 .. Len(channel)' : FALSE
  BY <1>5
<1>9. History(L)'
  BY <1>1, <1>2, <1>6, <1>7, <1>8, HistoryStays DEF History
<1> QED
  BY <1>3, <1>9 DEF RecoveryInv

\* The keeper makes the ledger of the next block.
LEMMA SendRecovery ==
  ASSUME RecoveryInv, memory \in Ledgers, nextBlock \in Nat,
         NEW kind \in {"transfer", "deposit", "exit"},
         NEW txs \in Seq(TransferTx \cup DepositTx \cup [account : AccountId, amount : Nat]),
         NEW l \in Ledgers, NEW touched \in SUBSET AccountId, touched # {},
         \A id \in touched : l[id] # Absent,
         \A id \in AccountId \ touched : l[id] = memory[id],
         SendBlock(kind, txs, l, touched), committer # "stopped"
  PROVE  RecoveryInv'
<1> DEFINE block == CommittedBlock(nextBlock, kind, txs, l, touched)
           c == Committed
           k == Len(channel)
<1>1. PICK L : History(L)
  BY DEF RecoveryInv
<1> PICK M : M = [L EXCEPT ![nextBlock] = l]
  OBVIOUS
<1>2. /\ UNCHANGED Persistent /\ UNCHANGED committer
      /\ channel' = Append(channel, block) /\ memory' = l /\ nextBlock' = nextBlock + 1
  BY DEF SendBlock, tables, Persistent
<1>3. /\ c \in Nat /\ k \in Nat /\ nextBlock = c + k + 1 /\ memory = L[c + k]
      /\ L \in [Nat -> Ledgers]
  BY <1>1, LenProperties DEF History, RecoveryInv, TablesInv, Committed
<1>4. block \in Blocks
  <2>1. block.updated \in Ledgers
    BY LeafType DEF CommittedBlock, Ledgers
  <2>2. block.root \in LeafMaps
    BY LeavesType DEF CommittedBlock
  <2> QED
    BY <2>1, <2>2 DEF CommittedBlock, Blocks
<1>5. /\ channel' \in Seq(Blocks) /\ Len(channel') = k + 1
      /\ \A i \in 1 .. k : channel'[i] = channel[i]
      /\ channel'[k + 1] = block
  <2>1. channel \in Seq(Blocks)
    BY DEF RecoveryInv, TablesInv
  <2> HIDE DEF block
  <2> QED
    BY <1>2, <1>4, <2>1, AppendProperties
<1>6. TablesInv'
  BY <1>2, <1>5, TablesStay DEF RecoveryInv
<1>7. M \in [Nat -> Ledgers] /\ M[nextBlock] = l /\ \A n \in 0 .. c + k : M[n] = L[n]
  BY <1>3
<1>8. LeadsTo(memory, block, l)
  <2>1. block.root = Leaves(l)
    BY DEF CommittedBlock
  <2>2. \A id \in AccountId : block.updated[id] = IF id \in touched THEN l[id] ELSE Absent
    BY DEF CommittedBlock, Leaf
  <2>3. \E id \in AccountId : block.updated[id] # Absent
    BY <2>2
  <2> QED
    BY <2>1, <2>2, <2>3 DEF LeadsTo
<1> HIDE DEF block
<1>9. ASSUME NEW i \in 1 .. k + 1
      PROVE  channel'[i].number = c + i /\ LeadsTo(M[c + i - 1], channel'[i], M[c + i])
  <2>1. CASE i \in 1 .. k
    <3>1. channel[i].number = c + i /\ LeadsTo(L[c + i - 1], channel[i], L[c + i])
      BY <1>1, <2>1 DEF History
    <3>2. M[c + i - 1] = L[c + i - 1] /\ M[c + i] = L[c + i]
      BY <1>3, <1>7, <2>1
    <3> QED
      BY <1>5, <2>1, <3>1, <3>2
  <2>2. CASE i = k + 1
    <3>1. c + i - 1 = c + k /\ c + i = nextBlock
      BY <1>3, <2>2
    <3>2. M[c + i - 1] = memory /\ M[c + i] = l
      <4>1. c + k \in 0 .. c + k
        BY <1>3
      <4>2. M[c + k] = L[c + k]
        BY <1>7, <4>1
      <4> QED
        BY <1>3, <1>7, <3>1, <4>2
    <3>3. channel'[i].number = c + i
      BY <1>5, <2>2, <3>1 DEF block, CommittedBlock
    <3> QED
      BY <1>5, <1>8, <2>2, <3>2, <3>3
  <2> QED
    BY <1>3, <2>1, <2>2
<1>10. Committed' = c
  BY <1>2 DEF Persistent, Committed
<1>11. /\ nextBlock' = Committed' + Len(channel') + 1
       /\ memory' = M[Committed' + Len(channel')]
  <2>1. Committed' + Len(channel') = nextBlock
    BY <1>3, <1>5, <1>10
  <2> QED
    BY <1>2, <1>7, <2>1
<1>12. /\ \A n \in 0 .. c : \A id \in AccountId : IsStateAt(id, n, M[n][id])'
       /\ \A i \in 1 .. c : commitOps'[i].root = Leaves(M[i])
  <2>1. \A n \in 0 .. c : M[n] = L[n]
    BY <1>3, <1>7
  <2>2. ASSUME NEW n \in 0 .. c, NEW id \in AccountId
        PROVE  IsStateAt(id, n, M[n][id])'
    <3>1. IsStateAt(id, n, L[n][id])'
      BY <1>1, <1>2, <1>10, HistoryStays
    <3>2. M[n] = L[n]
      BY <2>1
    <3> QED
      BY <3>1, <3>2 DEF IsStateAt
  <2>3. \A i \in 1 .. c : commitOps'[i].root = Leaves(L[i])
    BY <1>1, <1>2, <1>10, HistoryStays
  <2> QED
    BY <1>3, <2>1, <2>2, <2>3
<1>13. \E N : History(N)'
  <2>1. History(M)'
    BY <1>5, <1>7, <1>9, <1>10, <1>11, <1>12 DEF History
  <2> QED
    BY <2>1
<1> QED
  BY <1>6, <1>13 DEF RecoveryInv

\* The first block of the channel is written: the ledger it leads to is the
\* one the rows now give.
LEMMA CommitRecovery ==
  ASSUME RecoveryInv, CommitBlock
  PROVE  RecoveryInv'
<1>1. PICK L : History(L)
  BY DEF RecoveryInv
<1> PICK c : c = Committed
  OBVIOUS
<1> PICK block : block = Head(channel)
  OBVIOUS
<1>2. /\ channel \in Seq(Blocks) /\ channel # <<>> /\ commitOps \in Seq(Blocks)
      /\ committer # "stopped"
  BY DEF CommitBlock, RecoveryInv, TablesInv
<1>3. /\ block \in Blocks /\ block = channel[1] /\ Len(channel) \in Nat \ {0}
      /\ channel' \in Seq(Blocks) /\ Len(channel') = Len(channel) - 1
      /\ \A i \in 1 .. Len(channel') : channel'[i] = channel[i + 1]
  <2>1. channel' = Tail(channel)
    BY DEF CommitBlock
  <2> QED
    BY <1>2, <2>1, HeadTailProperties
<1>4. c \in Nat /\ block.number = c + 1 /\ LeadsTo(L[c], block, L[c + 1])
  <2>1. c \in Nat
    BY <1>2, LenProperties DEF Committed
  <2>2. /\ channel[1].number = c + 1
        /\ LeadsTo(L[c + 1 - 1], channel[1], L[c + 1])
    BY <1>1, <1>3 DEF History
  <2> QED
    BY <1>3, <2>1, <2>2
<1>5. /\ commitOps' \in Seq(Blocks) /\ Len(commitOps') = c + 1
      /\ \A i \in 1 .. c : commitOps'[i] = commitOps[i]
      /\ commitOps'[c + 1] = block
  <2>1. commitOps' = Append(commitOps, block)
    BY DEF CommitBlock, CommitOperation
  <2> QED
    BY <1>2, <1>3, <2>1, AppendProperties DEF Committed
<1>6. /\ UNCHANGED <<verifyOps, accounts, memory, nextBlock, committer>>
      /\ accountUpdates' = accountUpdates \cup UpdateRows(block)
  BY DEF CommitBlock, CommitOperation
<1>7. /\ UpdateRows(block) \subseteq [id : AccountId, block : {c + 1}, account : Account]
      /\ \A id \in AccountId : \A row \in UpdateRows(block) :
           row.id = id => row.account = block.updated[id] /\ block.updated[id] # Absent
      /\ \A id \in AccountId : block.updated[id] # Absent =>
           [id |-> id, block |-> c + 1, account |-> block.updated[id]] \in UpdateRows(block)
  BY <1>3, <1>4 DEF UpdateRows, Blocks, Ledgers
<1>8. \A row \in accountUpdates : row.block \in 1 .. c
  BY DEF RecoveryInv, TablesInv
<1>9. \A n \in 0 .. c : \A id \in AccountId : RowsUpTo(id, n)' = RowsUpTo(id, n)
  BY <1>4, <1>6, <1>7, <1>8 DEF RowsUpTo
<1>10. ASSUME NEW id \in AccountId
       PROVE  IsStateAt(id, c + 1, L[c + 1][id])'
  <2>1. CASE block.updated[id] = Absent
    <3>1. L[c + 1][id] = L[c][id]
      BY <1>4, <2>1 DEF LeadsTo
    <3>2. RowsUpTo(id, c + 1)' = RowsUpTo(id, c)
      BY <1>4, <1>6, <1>7, <1>8, <2>1 DEF RowsUpTo
    <3>3. IsStateAt(id, c, L[c][id])
      BY <1>1, <1>4 DEF History
    <3> QED
      BY <3>1, <3>2, <3>3 DEF IsStateAt, IsNewest
  <2>2. CASE block.updated[id] # Absent
    <3> DEFINE row == [id |-> id, block |-> c + 1, account |-> block.updated[id]]
    <3>1. L[c + 1][id] = block.updated[id]
      BY <1>4, <2>2 DEF LeadsTo
    <3>2. row \in RowsUpTo(id, c + 1)'
      BY <1>4, <1>6, <1>7, <2>2 DEF RowsUpTo
    <3>3. \A other \in RowsUpTo(id, c + 1)' : other.block <= c + 1
      BY DEF RowsUpTo
    <3> QED
      BY <3>1, <3>2, <3>3 DEF IsStateAt, IsNewest
  <2> QED
    BY <2>1, <2>2
<1>11. Verified \in Nat /\ Verified <= c /\ Verified' = Verified /\ Committed' = c + 1
  BY <1>5, <1>6, LenProperties DEF RecoveryInv, TablesInv, Verified, Committed
<1>12. TablesInv'
  <2> USE DEF RecoveryInv
  <2>1. Verified' <= Committed'
    BY <1>4, <1>11
  <2>2. \A i \in 1 .. c + 1 : commitOps'[i].number = i
    BY <1>4, <1>5 DEF TablesInv
  <2>3. accountUpdates' \subseteq [id : AccountId, block : 1 .. c + 1, account : Account]
    <3>1. accountUpdates \subseteq [id : AccountId, block : 1 .. c, account : Account]
      BY DEF TablesInv
    <3> QED
      BY <1>4, <1>6, <1>7, <3>1
  <2>4. \A r, s \in accountUpdates' : r.id = s.id /\ r.block = s.block => r = s
    <3> SUFFICES ASSUME NEW r \in accountUpdates', NEW s \in accountUpdates',
                        r.id = s.id, r.block = s.block
                 PROVE  r = s
      OBVIOUS
    <3>1. CASE r \in accountUpdates /\ s \in accountUpdates
      BY <3>1 DEF TablesInv
    <3>2. CASE r \in UpdateRows(block) /\ s \in UpdateRows(block)
      BY <3>2 DEF UpdateRows
    <3> QED
      BY <1>4, <1>6, <1>7, <1>8, <3>1, <3>2
  <2>5. \A n \in 1 .. c + 1 : \E row \in accountUpdates' : row.block = n
    <3>1. \A n \in 1 .. c : \E row \in accountUpdates' : row.block = n
      BY <1>6 DEF TablesInv
    <3>2. PICK id \in AccountId : block.updated[id] # Absent
      BY <1>4 DEF LeadsTo
    <3>3. [id |-> id, block |-> c + 1, account |-> block.updated[id]] \in accountUpdates'
      BY <1>6, <1>7, <3>2
    <3> QED
      BY <1>4, <3>1, <3>3
  <2>6. ASSUME NEW id \in AccountId PROVE IsVerified(id, Verified)'
    <3>1. IsVerified(id, Verified)
      BY DEF TablesInv
    <3>2. RowsUpTo(id, Verified)' = RowsUpTo(id, Verified)
      BY <1>4, <1>6, <1>7, <1>8, <1>11 DEF RowsUpTo
    <3> QED
      BY <1>6, <3>1, <3>2 DEF IsVerified, IsNewest
  <2>7. accounts' = [id \in AccountId |-> accounts'[id]]
    BY <1>6 DEF TablesInv
  <2>8. committer' # "stopped"
    BY <1>2, <1>6
  <2> QED
    BY <1>3, <1>5, <1>11, <2>1, <2>2, <2>3, <2>4, <2>5, <2>6, <2>7, <2>8 DEF TablesInv
<1>13. ASSUME NEW n \in 0 .. c + 1, NEW id \in AccountId
       PROVE  IsStateAt(id, n, L[n][id])'
  <2>1. CASE n = c + 1
    BY <1>10, <2>1
  <2>2. CASE n \in 0 .. c
    <3>1. IsStateAt(id, n, L[n][id])
      BY <1>1, <2>2 DEF History
    <3> QED
      BY <1>9, <2>2, <3>1 DEF IsStateAt, IsNewest
  <2> QED
    BY <1>4, <2>1, <2>2
<1>14. \A i \in 1 .. c + 1 : commitOps'[i].root = Leaves(L[i])
  <2>1. \A i \in 1 .. c : commitOps[i].root = Leaves(L[i])
    BY <1>1 DEF History
  <2>2. block.root = Leaves(L[c + 1])
    BY <1>4 DEF LeadsTo
  <2> QED
    BY <1>4, <1>5, <2>1, <2>2
<1>15. ASSUME NEW i \in 1 .. Len(channel')
       PROVE  /\ channel'[i].number = c + 1 + i
              /\ LeadsTo(L[c + 1 + i - 1], channel'[i], L[c + 1 + i])
  <2>1. i + 1 \in 1 .. Len(channel) /\ channel'[i] = channel[i + 1]
    BY <1>3
  <2>2. /\ channel[i + 1].number = c + (i + 1)
        /\ LeadsTo(L[c + (i + 1) - 1], channel[i + 1], L[c + (i + 1)])
    BY <1>1, <2>1 DEF History
  <2>3. c + (i + 1) = c + 1 + i /\ c + (i + 1) - 1 = c + 1 + i - 1
    BY <1>4
  <2> QED
    BY <2>1, <2>2, <2>3
<1>16. /\ nextBlock' = c + 1 + Len(channel') + 1
       /\ memory' = L[c + 1 + Len(channel')]
  <2>1. nextBlock = c + Len(channel) + 1 /\ memory = L[c + Len(channel)]
    BY <1>1, <1>2 DEF History
  <2>2. c + 1 + Len(channel') = c + Len(channel)
    BY <1>3, <1>4
  <2> QED
    BY <1>6, <2>1, <2>2
<1>17. History(L)'
  <2>1. L \in [Nat -> Ledgers]
    BY <1>1 DEF History
  <2> QED
    BY <1>11, <1>13, <1>14, <1>15, <1>16, <2>1 DEF History
<1> QED
  BY <1>12, <1>17 DEF RecoveryInv

\* The accounts of the next block are copied into the verified state.
LEMMA VerifyRecovery ==
  ASSUME OrderInv, RecoveryInv, VerifyBlock
  PROVE  RecoveryInv'
<1>1. PICK n \in ToVerify : IsCommitted(n) /\ VerifyOperation(n)
  BY DEF VerifyBlock
<1>2. /\ Verified \in Nat /\ Committed \in Nat
      /\ n = Verified + 1 /\ n \in 1 .. Committed
  <2>1. Verified \in Nat /\ Committed \in Nat /\ CommittedNumbers = 1 .. Committed
    BY Counts DEF RecoveryInv
  <2>2. n = Verified + 1
    BY <1>1 DEF ToVerify, OrderInv, Verified
  <2> QED
    BY <1>1, <2>1, <2>2 DEF IsCommitted
<1>3. /\ UNCHANGED <<commitOps, accountUpdates, memory, nextBlock, channel, committer>>
      /\ accounts' = AppliedUpdate(n) /\ verifyOps' = Append(verifyOps, n)
  BY <1>1 DEF VerifyBlock, VerifyOperation
<1>4. Verified' = n /\ Committed' = Committed
  <2>1. Len(verifyOps') = Len(verifyOps) + 1
    BY <1>3 DEF OrderInv
  <2> QED
    BY <1>2, <1>3, <2>1 DEF Verified, Committed
<1>5. \A row \in accountUpdates : row.block \in Nat
  BY DEF RecoveryInv, TablesInv
<1>6. ASSUME NEW id \in AccountId
      PROVE  IsVerified(id, Verified)'
  <2> DEFINE rows == {row \in accountUpdates : row.id = id /\ row.block = n}
  <2>1. RowsUpTo(id, Verified)' = RowsUpTo(id, n)
    BY <1>3, <1>4 DEF RowsUpTo
  <2>2. CASE rows = {}
    <3>1. RowsUpTo(id, n) = RowsUpTo(id, Verified)
      BY <1>2, <1>5, <2>2 DEF RowsUpTo
    <3>2. accounts'[id] = accounts[id]
      BY <1>3, <2>2 DEF AppliedUpdate
    <3>3. IsVerified(id, Verified)
      BY DEF RecoveryInv, TablesInv
    <3> QED
      BY <2>1, <3>1, <3>2, <3>3 DEF IsVerified, IsNewest
  <2>3. CASE rows # {}
    <3>1. PICK row : row = CHOOSE r \in rows : TRUE
      OBVIOUS
    <3>2. row \in accountUpdates /\ row.id = id /\ row.block = n
      BY <2>3, <3>1
    <3>3. accounts'[id] = [lastBlock |-> row.block, account |-> row.account]
      BY <1>3, <2>3, <3>1, <3>2 DEF AppliedUpdate
    <3>4. row \in RowsUpTo(id, n) /\ IsNewest(row, RowsUpTo(id, n))
      BY <1>2, <3>2 DEF RowsUpTo, IsNewest
    <3> QED
      BY <2>1, <3>3, <3>4 DEF IsVerified, IsNewest
  <2> QED
    BY <2>2, <2>3
<1>7. accounts' = [id \in AccountId |-> accounts'[id]]
  BY <1>3 DEF AppliedUpdate
<1>8. TablesInv'
  <2>1. Verified' <= Committed'
    BY <1>2, <1>4
  <2> QED
    BY <1>3, <1>4, <1>6, <1>7, <2>1 DEF RecoveryInv, TablesInv
<1>9. PICK L : History(L)
  BY DEF RecoveryInv
<1>10. History(L)'
  BY <1>3, <1>4, <1>9 DEF History, IsStateAt, IsNewest, RowsUpTo
<1> QED
  BY <1>8, <1>10 DEF RecoveryInv

\* The keeper makes a block.  When the committer is gone it makes no
\* difference to the tables.
LEMMA LostBlockRecovery ==
  ASSUME RecoveryInv, committer = "stopped", UNCHANGED Persistent, UNCHANGED <<channel, committer>>
  PROVE  RecoveryInv'
<1>1. PICK L : History(L)
  BY DEF RecoveryInv
<1>2. TablesInv'
  BY TablesStay DEF RecoveryInv, TablesInv
<1>3. Committed' = Committed
  BY DEF Committed, Persistent
<1>4. History(L)'
  BY <1>1, <1>3, HistoryStays DEF History
<1> QED
  BY <1>2, <1>4 DEF RecoveryInv

LEMMA MemoryType ==
  ASSUME RecoveryInv, committer # "stopped"
  PROVE  memory \in Ledgers /\ nextBlock \in Nat
<1>1. PICK L : History(L)
  BY DEF RecoveryInv
<1>2. Committed \in Nat /\ Len(channel) \in Nat
  BY LenProperties DEF RecoveryInv, TablesInv, Committed
<1> QED
  BY <1>1, <1>2 DEF History

LEMMA KeeperRecovery ==
  ASSUME RecoveryInv,
         \/ \E tx \in Transfers : MakeTransferBlock(tx)
         \/ \E tx \in Deposits : MakeDepositBlock(tx)
         \/ \E id \in Exits : MakeExitBlock(id)
  PROVE  RecoveryInv'
<1>1. CASE committer = "stopped"
  <2>1. UNCHANGED Persistent /\ UNCHANGED <<channel, committer>>
    BY <1>1 DEF MakeTransferBlock, MakeDepositBlock, MakeExitBlock, SendBlock, tables, Persistent
  <2> QED
    BY <1>1, <2>1, LostBlockRecovery
<1>2. CASE committer # "stopped"
  <2>1. memory \in Ledgers /\ nextBlock \in Nat
    BY <1>2, MemoryType
  <2>2. ASSUME NEW tx \in Transfers, MakeTransferBlock(tx)
        PROVE  RecoveryInv'
    <3>1. tx \in TransferTx /\ TransferValid(memory, tx, nextBlock)
      BY <2>2, ServerConstants DEF MakeTransferBlock
    <3>2. /\ ApplyTransfer(memory, tx) \in Ledgers
          /\ \A id \in {tx.from, tx.to} : ApplyTransfer(memory, tx)[id] # Absent
          /\ \A id \in AccountId \ {tx.from, tx.to} : ApplyTransfer(memory, tx)[id] = memory[id]
          /\ {tx.from, tx.to} \in SUBSET AccountId
      <4>1. {tx.from, tx.to} \in SUBSET AccountId
        BY <3>1 DEF TransferTx
      <4> QED
        BY <2>1, <3>1, <4>1, ApplyTransferType
    <3>3. <<tx>> \in Seq(TransferTx \cup DepositTx \cup [account : AccountId, amount : Nat])
      BY <3>1
    <3>4. SendBlock("transfer", <<tx>>, ApplyTransfer(memory, tx), {tx.from, tx.to})
      BY <2>2 DEF MakeTransferBlock
    <3>5. {tx.from, tx.to} # {} /\ "transfer" \in {"transfer", "deposit", "exit"}
      OBVIOUS
    <3>6. \A l \in Ledgers : \A touched \in SUBSET AccountId :
            /\ touched # {}
            /\ \A i \in touched : l[i] # Absent
            /\ \A i \in AccountId \ touched : l[i] = memory[i]
            /\ SendBlock("transfer", <<tx>>, l, touched)
            => RecoveryInv'
      BY <1>2, <2>1, <3>3, <3>5, SendRecovery
    <3> QED
      BY <3>2, <3>4, <3>5, <3>6
  <2>3. ASSUME NEW tx \in Deposits, MakeDepositBlock(tx)
        PROVE  RecoveryInv'
    <3>1. tx \in DepositTx /\ {tx.account} \in SUBSET AccountId
      BY ServerConstants DEF DepositTx
    <3>2. /\ ApplyDeposit(memory, tx) \in Ledgers
          /\ \A id \in {tx.account} : ApplyDeposit(memory, tx)[id] # Absent
          /\ \A id \in AccountId \ {tx.account} : ApplyDeposit(memory, tx)[id] = memory[id]
      BY <2>1, <3>1, ApplyDepositType
    <3>3. <<tx>> \in Seq(TransferTx \cup DepositTx \cup [account : AccountId, amount : Nat])
      BY <3>1
    <3>4. SendBlock("deposit", <<tx>>, ApplyDeposit(memory, tx), {tx.account})
      BY <2>3 DEF MakeDepositBlock
    <3>5. {tx.account} # {} /\ "deposit" \in {"transfer", "deposit", "exit"}
      OBVIOUS
    <3>6. \A l \in Ledgers : \A touched \in SUBSET AccountId :
            /\ touched # {}
            /\ \A i \in touched : l[i] # Absent
            /\ \A i \in AccountId \ touched : l[i] = memory[i]
            /\ SendBlock("deposit", <<tx>>, l, touched)
            => RecoveryInv'
      BY <1>2, <2>1, <3>3, <3>5, SendRecovery
    <3> QED
      BY <3>1, <3>2, <3>4, <3>5, <3>6
  <2>4. ASSUME NEW id \in Exits, MakeExitBlock(id)
        PROVE  RecoveryInv'
    <3> DEFINE txs == <<[account |-> id, amount |-> memory[id].balance]>>
    <3>1. id \in AccountId
      BY ServerConstants
    <3>2. memory[id] \in Account
      BY <2>1, <2>4, <3>1 DEF MakeExitBlock, ExitValid, Ledgers
    <3>3. txs \in Seq(TransferTx \cup DepositTx \cup [account : AccountId, amount : Nat])
      BY <3>1, <3>2 DEF Account
    <3>4. /\ ApplyExit(memory, id) \in Ledgers
          /\ \A i \in {id} : ApplyExit(memory, id)[i] # Absent
          /\ \A i \in AccountId \ {id} : ApplyExit(memory, id)[i] = memory[i]
      BY <2>1, <3>1, ApplyExitType
    <3>5. SendBlock("exit", txs, ApplyExit(memory, id), {id})
      BY <2>4 DEF MakeExitBlock
    <3>6. {id} \in SUBSET AccountId /\ {id} # {} /\ "exit" \in {"transfer", "deposit", "exit"}
      BY <3>1
    <3> HIDE DEF txs
    <3>7. \A l \in Ledgers : \A touched \in SUBSET AccountId :
            /\ touched # {}
            /\ \A i \in touched : l[i] # Absent
            /\ \A i \in AccountId \ touched : l[i] = memory[i]
            /\ SendBlock("exit", txs, l, touched)
            => RecoveryInv'
      BY <1>2, <2>1, <3>3, <3>6, SendRecovery
    <3> QED
      BY <3>4, <3>5, <3>6, <3>7
  <2> QED
    BY <2>2, <2>3, <2>4
<1> QED
  BY <1>1, <1>2

\* The provers write proofs and prover runs only.
LEMMA ProverRecovery ==
  ASSUME RecoveryInv, ProverNext, UNCHANGED serverVars
  PROVE  RecoveryInv'
<1>1. UNCHANGED Persistent
  BY DEF ProverNext, Attempt, FetchJob, FetchProverJob, FastForward, PrepareTree, MakeProof,
         ProofFails, SaveProof, StoreProof, AttemptFails, RestartProver, Heartbeat,
         UpdateProverJob, LeaseExpires, RunExpires, tables, Persistent
<1> QED
  BY <1>1, StayRecovery DEF serverVars

LEMMA RecoveryInvNext == OrderInv /\ RecoveryInv /\ [Next]_allVars => RecoveryInv'
<1> SUFFICES ASSUME OrderInv, RecoveryInv, [Next]_allVars PROVE RecoveryInv'
  OBVIOUS
<1>1. CASE UNCHANGED allVars
  BY <1>1, StayRecovery DEF allVars, tables, serverVars, Persistent
<1>2. CASE ServerNext
  <2>1. CASE ReceiveTimeout \/ NoMoreProofs
    BY <2>1, StayRecovery DEF ReceiveTimeout, NoMoreProofs, tables, Persistent
  <2> QED
    BY <1>2, <2>1, KeeperRecovery, CommitRecovery, VerifyRecovery, PanicRecovery, RestartRecovery
       DEF ServerNext, Committer
<1> QED
  BY <1>1, <1>2, ProverRecovery DEF Next

LEMMA RecoveryInvariant == Spec => [](OrderInv /\ RecoveryInv)
BY OrderInvariant, InitRecovery, RecoveryInvNext, PTL DEF Spec

----------------------------------------------------------------------------
\* What the invariant says of the queries

LEMMA RootsOfHistory ==
  ASSUME OrderInv, TablesInv, NEW L, History(L), NEW n \in 0 .. Committed
  PROVE  RootAfter(n) = Leaves(L[n])
<1>1. CASE n = 0
  <2>1. \A id \in AccountId : RowsUpTo(id, 0) = {}
    <3>1. \A row \in accountUpdates : row.block \in 1 .. Committed
      BY DEF TablesInv
    <3>2. \A row \in accountUpdates : ~(row.block <= 0)
      BY <3>1, Counts
    <3> QED
      BY <3>2 DEF RowsUpTo
  <2>2. \A id \in AccountId : L[0][id] = Absent
    BY <1>1, <2>1 DEF History, IsStateAt
  <2> QED
    BY <1>1, <2>2 DEF RootAfter, Leaves, Leaf
<1>2. CASE n # 0
  <2>1. n \in 1 .. Committed
    BY <1>2, Counts
  <2>2. LoadCommittedBlock(n) = commitOps[n]
    BY <2>1, Counts
  <2>3. commitOps[n].root = Leaves(L[n])
    BY <2>1 DEF History
  <2> QED
    BY <1>2, <2>2, <2>3 DEF RootAfter
<1> QED
  BY <1>1, <1>2

\* The state a restarted server or prover loads from the database is the one
\* after the last committed block, or the last verified one: the verified
\* accounts overlaid with later updates yield the root of that block, after any
\* number of blocks, stops and failures.
THEOREM ServersResume == Spec => []StatesRecoverable
<1>1. OrderInv /\ RecoveryInv => StatesRecoverable
  <2> SUFFICES ASSUME OrderInv, RecoveryInv PROVE StatesRecoverable
    OBVIOUS
  <2>1. TablesInv
    BY DEF RecoveryInv
  <2>2. PICK L : History(L)
    BY DEF RecoveryInv
  <2>3. /\ LastCommitted = Committed /\ LastVerified = Verified
        /\ Committed \in 0 .. Committed /\ Verified \in 0 .. Committed
    BY <2>1, Counts
  <2>4. /\ LoadCommittedState.block = LastCommitted
        /\ Leaves(LoadCommittedState.ledger) = RootAfter(LastCommitted)
    BY <2>1, <2>2, <2>3, CommittedState, RootsOfHistory
  <2>5. /\ LoadVerifiedState.block = LastVerified
        /\ \A id \in AccountId : LoadVerifiedState.ledger[id] = L[Verified][id]
    BY <2>1, <2>2, <2>3, VerifiedState
  <2>6. Leaves(LoadVerifiedState.ledger) = Leaves(L[Verified])
    BY <2>5 DEF Leaves, Leaf
  <2> QED
    BY <2>1, <2>2, <2>3, <2>4, <2>5, <2>6, RootsOfHistory DEF StatesRecoverable
<1> QED
  BY <1>1, RecoveryInvariant, PTL

\* The row of a diff is the account in the target state; without one the
\* account is the same in both states, or there is none in the target state.
LEMMA DiffOfAccount ==
  ASSUME OrderInv, RecoveryInv, NEW id \in AccountId,
         NEW from \in 1 .. Committed + 1, NEW to \in 1 .. Committed + 1
  PROVE  /\ LoadStateDiff(from, to)[id] \in Account \cup {Absent}
         /\ LoadStateDiff(from, to)[id] # Absent => LoadStateDiff(from, to)[id] = RootAfter(to - 1)[id]
         /\ LoadStateDiff(from, to)[id] = Absent /\ KnownBefore(id, to) =>
              /\ RootAfter(to - 1)[id] = RootAfter(from - 1)[id]
              /\ \A row \in accountUpdates : row.id = id => (row.block < from <=> row.block < to)
<1>1. TablesInv
  BY DEF RecoveryInv
<1>2. PICK L : History(L)
  BY DEF RecoveryInv
<1>3. Committed \in Nat
  BY <1>1, Counts
<1>4. /\ from - 1 \in 0 .. Committed /\ to - 1 \in 0 .. Committed
      /\ from - 1 \in Nat /\ to - 1 \in Nat /\ from \in Nat /\ to \in Nat
  BY <1>3
<1>5. \A row \in accountUpdates : row.block \in Nat
  BY <1>1 DEF TablesInv
<1>6. /\ IsStateAt(id, from - 1, L[from - 1][id])
      /\ IsStateAt(id, to - 1, L[to - 1][id])
  BY <1>2, <1>4 DEF History
<1>7. /\ RootAfter(from - 1)[id] = Leaf(L[from - 1], id)
      /\ RootAfter(to - 1)[id] = Leaf(L[to - 1], id)
  BY <1>1, <1>2, <1>4, RootsOfHistory DEF Leaves
<1> DEFINE start == IF from < to THEN from ELSE to
           end == IF from < to THEN to ELSE from
           rows == {row \in accountUpdates : row.id = id}
           between == \E row \in rows : start <= row.block /\ row.block < end
           target == {row \in rows : BeforeTarget(row, to)}
<1>8. LoadStateDiff(from, to)[id] = IF between THEN NewestUpdate(target, Absent) ELSE Absent
  BY DEF LoadStateDiff
<1>9. CASE between /\ target # {}
  <2>1. target = RowsUpTo(id, to - 1)
    BY <1>4, <1>5 DEF BeforeTarget, RowsUpTo
  <2>2. NewestUpdate(target, Absent) = L[to - 1][id] /\ L[to - 1][id] \in Account
    BY <1>1, <1>4, <1>6, <1>9, <2>1, StateAt
  <2>3. L[to - 1][id] # Absent
    BY <2>2, AbsentIsNoAccount
  <2>4. LoadStateDiff(from, to)[id] = L[to - 1][id]
    BY <1>8, <1>9, <2>2
  <2> QED
    BY <1>7, <2>2, <2>3, <2>4 DEF Leaf
<1>10. CASE between /\ target = {}
  <2>1. LoadStateDiff(from, to)[id] = Absent
    BY <1>8, <1>10 DEF NewestUpdate
  <2>2. ~KnownBefore(id, to)
    BY <1>10 DEF KnownBefore, BeforeTarget
  <2> QED
    BY <2>1, <2>2
<1>11. CASE ~between
  <2>1. \A row \in accountUpdates : row.id = id =>
          /\ row.block < from <=> row.block < to
          /\ row.block <= from - 1 <=> row.block <= to - 1
    <3>1. \A row \in rows : ~(start <= row.block /\ row.block < end)
      BY <1>11
    <3>2. CASE from < to
      BY <1>4, <1>5, <3>1, <3>2
    <3>3. CASE ~(from < to)
      BY <1>4, <1>5, <3>1, <3>3
    <3> QED
      BY <3>2, <3>3
  <2>2. L[from - 1][id] = L[to - 1][id]
    BY <1>1, <1>4, <1>6, <2>1, StateStays
  <2>3. LoadStateDiff(from, to)[id] = Absent
    BY <1>8, <1>11
  <2> HIDE DEF start, end, rows, between, target
  <2> QED
    BY <1>7, <2>1, <2>2, <2>3 DEF Leaf
<1> QED
  BY <1>9, <1>10, <1>11

\* A state diff moves a tree between any two committed states, forwards and
\* backwards, on every account that exists in the target state, for every
\* number of blocks and any pair of them.
THEOREM DiffsMoveTrees == Spec => []DiffMovesState
<1>1. OrderInv /\ RecoveryInv => DiffMovesState
  <2> SUFFICES ASSUME OrderInv, RecoveryInv,
                      NEW from \in 1 .. LastCommitted + 1, NEW to \in 1 .. LastCommitted + 1,
                      NEW id \in AccountId, KnownBefore(id, to)
               PROVE  Overwritten(RootAfter(from - 1), LoadStateDiff(from, to))[id]
                        = RootAfter(to - 1)[id]
    BY DEF DiffMovesState
  <2>1. LastCommitted = Committed
    BY Counts DEF RecoveryInv
  <2> QED
    BY <2>1, DiffOfAccount DEF Overwritten
<1> QED
  BY <1>1, RecoveryInvariant, PTL

----------------------------------------------------------------------------
\* The queries of the API

\* The rows of a block are the accounts it updated.
RowsOfBlock(id, n) == {row \in accountUpdates : row.id = id /\ row.block = n}

RowsInv ==
  \A n \in 1 .. Committed : \A id \in AccountId :
    RowsOfBlock(id, n) =
      IF commitOps[n].updated[id] = Absent THEN {}
      ELSE {[id |-> id, block |-> n, account |-> commitOps[n].updated[id]]}

LEMMA RowsInvInit == Init => RowsInv
<1> SUFFICES ASSUME Init PROVE RowsInv
  OBVIOUS
<1>1. Committed = 0
  BY DEF Init, EmptyTables, Committed
<1> QED
  BY <1>1 DEF RowsInv

LEMMA RowsInvCommit ==
  ASSUME RecoveryInv, RowsInv, CommitBlock
  PROVE  RowsInv'
<1> PICK c : c = Committed
  OBVIOUS
<1> PICK block : block = Head(channel)
  OBVIOUS
<1>1. PICK L : History(L)
  BY DEF RecoveryInv
<1>2. /\ channel \in Seq(Blocks) /\ channel # <<>> /\ commitOps \in Seq(Blocks)
      /\ \A row \in accountUpdates : row.block \in 1 .. c
  BY DEF CommitBlock, RecoveryInv, TablesInv
<1>3. c \in Nat /\ block.number = c + 1
  <2>1. c \in Nat /\ Len(channel) \in Nat \ {0} /\ block = channel[1]
    BY <1>2, LenProperties DEF Committed
  <2>2. channel[1].number = c + 1
    BY <1>1, <2>1 DEF History
  <2> QED
    BY <2>1, <2>2
<1>4. /\ commitOps' = Append(commitOps, block)
      /\ accountUpdates' = accountUpdates \cup UpdateRows(block)
  BY DEF CommitBlock, CommitOperation
<1>5. /\ Len(commitOps') = c + 1
      /\ \A i \in 1 .. c : commitOps'[i] = commitOps[i]
      /\ commitOps'[c + 1] = block
  BY <1>2, <1>3, <1>4, AppendProperties DEF Committed
<1> SUFFICES ASSUME NEW n \in 1 .. c + 1, NEW id \in AccountId
             PROVE  RowsOfBlock(id, n)' =
                      IF commitOps'[n].updated[id] = Absent THEN {}
                      ELSE {[id |-> id, block |-> n, account |-> commitOps'[n].updated[id]]}
  BY <1>5 DEF RowsInv, Committed
<1>6. CASE n \in 1 .. c
  <2>1. \A row \in UpdateRows(block) : row.block = c + 1
    BY <1>3 DEF UpdateRows
  <2>2. RowsOfBlock(id, n)' = RowsOfBlock(id, n)
    BY <1>3, <1>4, <1>6, <2>1 DEF RowsOfBlock
  <2> QED
    BY <1>5, <1>6, <2>2 DEF RowsInv
<1>7. CASE n = c + 1
  <2>1. RowsOfBlock(id, n)' = {row \in UpdateRows(block) : row.id = id}
    BY <1>2, <1>3, <1>4, <1>7 DEF RowsOfBlock, UpdateRows
  <2>2. commitOps'[n] = block
    BY <1>5, <1>7
  <2>3. CASE block.updated[id] = Absent
    BY <2>1, <2>2, <2>3 DEF UpdateRows
  <2>4. CASE block.updated[id] # Absent
    <3>1. {row \in UpdateRows(block) : row.id = id} =
            {[id |-> id, block |-> block.number, account |-> block.updated[id]]}
      BY <2>4 DEF UpdateRows
    <3> QED
      BY <1>3, <1>7, <2>1, <2>2, <2>4, <3>1
  <2> QED
    BY <2>3, <2>4
<1> QED
  BY <1>3, <1>6, <1>7

LEMMA RowsInvNext == OrderInv /\ RecoveryInv /\ RowsInv /\ [Next]_allVars => RowsInv'
<1> SUFFICES ASSUME RecoveryInv, RowsInv, [Next]_allVars PROVE RowsInv'
  OBVIOUS
<1>1. CASE UNCHANGED <<commitOps, accountUpdates>>
  BY <1>1 DEF RowsInv, RowsOfBlock, Committed
<1>2. UNCHANGED allVars => UNCHANGED <<commitOps, accountUpdates>>
  BY DEF allVars, tables
<1>3. ServerNext => CommitBlock \/ UNCHANGED <<commitOps, accountUpdates>>
  BY DEF ServerNext, MakeTransferBlock, MakeDepositBlock, MakeExitBlock, SendBlock, Committer,
         ReceiveTimeout, VerifyBlock, VerifyOperation, NoMoreProofs, CommitterPanics, Restart, tables
<1>4. ProverNext => UNCHANGED <<commitOps, accountUpdates>>
  BY DEF ProverNext, Attempt, FetchJob, FetchProverJob, FastForward, PrepareTree, MakeProof,
         ProofFails, SaveProof, StoreProof, AttemptFails, RestartProver, Heartbeat,
         UpdateProverJob, LeaseExpires, RunExpires, tables
<1> QED
  BY <1>1, <1>2, <1>3, <1>4, RowsInvCommit DEF Next

LEMMA RowsInvariant == Spec => [](OrderInv /\ RecoveryInv /\ RowsInv)
BY RecoveryInvariant, RowsInvInit, RowsInvNext, PTL DEF Spec

LEMMA SingleAccounts ==
  ASSUME OrderInv, TablesInv, NEW L, History(L), NEW id \in AccountId
  PROVE  /\ LastCommittedStateForAccount(id) = LoadCommittedState.ledger[id]
         /\ LastVerifiedStateForAccount(id) = LoadVerifiedState.ledger[id]
<1>1. \A row \in accountUpdates : row.block \in 1 .. Committed
  BY DEF TablesInv
<1>2. Committed \in Nat /\ Committed \in 0 .. Committed
  BY Counts
<1>3. {row \in accountUpdates : row.id = id} = RowsUpTo(id, Committed)
  BY <1>1, <1>2 DEF RowsUpTo
<1>4. IsStateAt(id, Committed, L[Committed][id])
  BY <1>2 DEF History
<1>5. LastCommittedStateForAccount(id) = L[Committed][id]
  BY <1>3, <1>4, StateAt DEF LastCommittedStateForAccount
<1>6. LoadCommittedState.ledger[id] = L[Committed][id]
  BY CommittedState
<1> QED
  BY <1>5, <1>6 DEF LastVerifiedStateForAccount, LoadVerifiedState

LEMMA BlocksReadBack ==
  ASSUME OrderInv, TablesInv, RowsInv, NEW n \in 1 .. Committed
  PROVE  LoadStateDiffForBlock(n) = commitOps[n].updated
<1>1. Committed \in Nat /\ n \in Nat /\ n \in 1 .. Committed
  BY Counts
<1>2. commitOps[n].updated \in Ledgers
  <2>1. commitOps[n] \in Blocks
    BY ElementOfSeq DEF TablesInv, Committed
  <2> QED
    BY <2>1 DEF Blocks
<1>3. \A row \in accountUpdates : row.block \in Nat
  BY <1>1 DEF TablesInv
<1>4. ASSUME NEW id \in AccountId
      PROVE  LoadStateDiff(n, n + 1)[id] = commitOps[n].updated[id]
  <2> DEFINE rows == {row \in accountUpdates : row.id = id}
             target == {row \in rows : BeforeTarget(row, n + 1)}
  <2>1. (\E row \in rows : n <= row.block /\ row.block < n + 1) <=> RowsOfBlock(id, n) # {}
    BY <1>1, <1>3 DEF RowsOfBlock
  <2>2. LoadStateDiff(n, n + 1)[id] =
          IF RowsOfBlock(id, n) # {} THEN NewestUpdate(target, Absent) ELSE Absent
    BY <1>1, <2>1 DEF LoadStateDiff
  <2>3. CASE commitOps[n].updated[id] = Absent
    BY <2>2, <2>3 DEF RowsInv
  <2>4. CASE commitOps[n].updated[id] # Absent
    <3> DEFINE row == [id |-> id, block |-> n, account |-> commitOps[n].updated[id]]
    <3>1. RowsOfBlock(id, n) = {row}
      BY <2>4 DEF RowsInv
    <3>2. row \in target /\ IsNewest(row, target)
      BY <1>1, <1>3, <3>1 DEF RowsOfBlock, BeforeTarget, IsNewest
    <3>3. target \subseteq accountUpdates /\ \A r \in target : r.id = id
      OBVIOUS
    <3> HIDE DEF target, row
    <3>4. NewestUpdate(target, Absent) = row.account
      BY <3>2, <3>3, NewestRow
    <3>5. row.account = commitOps[n].updated[id]
      BY DEF row
    <3> QED
      BY <2>2, <3>1, <3>4, <3>5
  <2> QED
    BY <2>3, <2>4
<1> QED
  BY <1>2, <1>4 DEF LoadStateDiffForBlock, LoadStateDiff, Ledgers

\* The operations the list of blocks is made from: block n is the n-th commit,
\* and its verification, if any, the n-th.
LEMMA NewestOperations ==
  ASSUME OrderInv, TablesInv, NEW maxBlock \in Nat, NEW limit \in Nat
  PROVE  NewestCommits(maxBlock, limit) =
           {n \in 1 .. (IF maxBlock < Committed THEN maxBlock ELSE Committed) :
              n > (IF maxBlock < Committed THEN maxBlock ELSE Committed) - limit}
<1> DEFINE newest == IF maxBlock < Committed THEN maxBlock ELSE Committed
<1>1. /\ Committed \in Nat /\ newest \in Nat
      /\ DOMAIN commitOps = 1 .. Committed
      /\ \A i \in 1 .. Committed : commitOps[i].number = i
  BY Counts, LenProperties DEF TablesInv, Committed
<1>2. CommitsUpTo(maxBlock) = 1 .. newest
  BY <1>1 DEF CommitsUpTo
<1> HIDE DEF newest
<1>3. \A i \in 1 .. newest : commitOps[i].number = i
  BY <1>1 DEF newest
<1>4. ASSUME NEW i \in 1 .. newest
      PROVE  Cardinality({j \in CommitsUpTo(maxBlock) : commitOps[j].number > commitOps[i].number})
               = newest - i
  <2>1. {j \in CommitsUpTo(maxBlock) : commitOps[j].number > commitOps[i].number} = i + 1 .. newest
    BY <1>1, <1>2, <1>3
  <2>2. Cardinality(i + 1 .. newest) = IF i + 1 > newest THEN 0 ELSE newest - (i + 1) + 1
    BY <1>1, FS_Interval
  <2>3. (IF i + 1 > newest THEN 0 ELSE newest - (i + 1) + 1) = newest - i
    BY <1>1
  <2> QED
    BY <2>1, <2>2, <2>3
<1>5. \A i \in 1 .. newest : newest - i < limit <=> i > newest - limit
  BY <1>1
<1>6. NewestCommits(maxBlock, limit) = {i \in 1 .. newest : i > newest - limit}
  BY <1>2, <1>4, <1>5 DEF NewestCommits
<1> QED
  BY <1>6 DEF newest

LEMMA RowOfBlock ==
  ASSUME OrderInv, TablesInv, NEW n \in 1 .. Committed
  PROVE  IF VerifiesOf(commitOps[n].number) = {}
         THEN n > Verified
         ELSE n <= Verified /\ VerifiesOf(commitOps[n].number) = {n}
<1>1. Committed \in Nat /\ Verified \in Nat /\ commitOps[n].number = n
  BY Counts DEF TablesInv
<1>2. DOMAIN verifyOps = 1 .. Verified /\ \A j \in 1 .. Verified : verifyOps[j] = j
  BY LenProperties DEF OrderInv, VerifiedInOrder, Verified
<1> QED
  BY <1>1, <1>2 DEF VerifiesOf

LEMMA ListedBlocks ==
  ASSUME OrderInv, TablesInv, NEW maxBlock \in Nat, NEW limit \in Nat
  PROVE  LoadBlockRange(maxBlock, limit) =
           {[number |-> n, root |-> commitOps[n].root, commit |-> n,
             verify |-> IF n <= Verified THEN n ELSE 0] : n \in NewestCommits(maxBlock, limit)}
<1> DEFINE rowsOf(i) == IF VerifiesOf(commitOps[i].number) = {}
                        THEN {BlockDetails(i, 0)}
                        ELSE {BlockDetails(i, j) : j \in VerifiesOf(commitOps[i].number)}
           detail(n) == [number |-> n, root |-> commitOps[n].root, commit |-> n,
                         verify |-> IF n <= Verified THEN n ELSE 0]
<1>1. Committed \in Nat /\ Verified \in Nat
  BY Counts
<1>2. NewestCommits(maxBlock, limit) \subseteq 1 .. Committed
  BY <1>1, NewestOperations
<1>3. ASSUME NEW n \in 1 .. Committed PROVE rowsOf(n) = {detail(n)}
  <2>1. commitOps[n].number = n
    BY DEF TablesInv
  <2>2. CASE VerifiesOf(commitOps[n].number) = {}
    BY <1>1, <2>1, <2>2, RowOfBlock DEF BlockDetails
  <2>3. CASE VerifiesOf(commitOps[n].number) # {}
    BY <1>1, <2>1, <2>3, RowOfBlock DEF BlockDetails
  <2> QED
    BY <2>2, <2>3
<1>4. LoadBlockRange(maxBlock, limit) = UNION {rowsOf(i) : i \in NewestCommits(maxBlock, limit)}
  BY DEF LoadBlockRange
<1> HIDE DEF rowsOf, detail
<1>5. UNION {rowsOf(i) : i \in NewestCommits(maxBlock, limit)}
        = {detail(n) : n \in NewestCommits(maxBlock, limit)}
  BY <1>2, <1>3
<1> QED
  BY <1>4, <1>5 DEF detail

LEMMA BlocksListed ==
  ASSUME OrderInv, TablesInv, NEW L, History(L), NEW maxBlock \in Nat, NEW limit \in Nat,
         NEW newest, newest = IF maxBlock < LastCommitted THEN maxBlock ELSE LastCommitted,
         NEW rows, rows = LoadBlockRange(maxBlock, limit)
  PROVE  /\ {row.number : row \in rows} = {n \in 1 .. newest : n > newest - limit}
         /\ \A r, s \in rows : r.number = s.number => r = s
         /\ \A row \in rows : /\ row.verify # 0 <=> row.number <= LastVerified
                               /\ row.root = RootAfter(row.number)
<1> DEFINE detail(n) == [number |-> n, root |-> commitOps[n].root, commit |-> n,
                         verify |-> IF n <= Verified THEN n ELSE 0]
<1>1. /\ Committed \in Nat /\ Verified \in Nat
      /\ LastCommitted = Committed /\ LastVerified = Verified
  BY Counts
<1> DEFINE numbers == NewestCommits(maxBlock, limit)
<1>2. numbers = {n \in 1 .. newest : n > newest - limit}
  BY <1>1, NewestOperations
<1>3. numbers \subseteq 1 .. Committed
  BY <1>1, NewestOperations
<1>4. rows = {detail(n) : n \in numbers}
  BY ListedBlocks
<1> HIDE DEF numbers
<1>5. {row.number : row \in rows} = numbers
  <2>1. \A row \in rows : row.number \in numbers
    BY <1>4
  <2>2. \A n \in numbers : detail(n) \in rows /\ detail(n).number = n
    BY <1>4
  <2> HIDE DEF detail
  <2>3. \A n \in numbers : \E row \in rows : row.number = n
    BY <2>2
  <2> QED
    BY <2>1, <2>3
<1>6. \A r, s \in rows : r.number = s.number => r = s
  BY <1>4
<1>7. ASSUME NEW n \in numbers
      PROVE  /\ detail(n).verify # 0 <=> n <= LastVerified
             /\ detail(n).root = RootAfter(n)
  <2>1. n \in 1 .. Committed /\ n \in 0 .. Committed
    BY <1>1, <1>3
  <2>2. RootAfter(n) = commitOps[n].root
    BY <2>1, RootsOfHistory DEF History
  <2> QED
    BY <1>1, <2>1, <2>2
<1> QED
  BY <1>2, <1>4, <1>5, <1>6, <1>7

\* The API and a restarted server tell the same of every account; a block is
\* read back with the accounts it was stored with; and the list of blocks has
\* each of the newest ones once, as verified up to the last verified block.
THEOREM QueriesTellOneStory == Spec => []QueriesAgree
<1>1. OrderInv /\ RecoveryInv /\ RowsInv => QueriesAgree
  <2> SUFFICES ASSUME OrderInv, RecoveryInv, RowsInv PROVE QueriesAgree
    OBVIOUS
  <2>1. TablesInv
    BY DEF RecoveryInv
  <2>2. PICK L : History(L)
    BY DEF RecoveryInv
  <2>3. /\ CommittedNumbers = 1 .. Committed /\ Committed \in Nat /\ Verified \in Nat
        /\ LastVerified = Verified /\ LastCommitted = Committed /\ Verified <= Committed
    BY <2>1, Counts
  <2>4. \A id \in AccountId :
          /\ LastCommittedStateForAccount(id) = LoadCommittedState.ledger[id]
          /\ LastVerifiedStateForAccount(id) = LoadVerifiedState.ledger[id]
    BY <2>1, <2>2, SingleAccounts
  <2>5. \A n \in CommittedNumbers : LoadStateDiffForBlock(n) = LoadCommittedBlock(n).updated
    BY <2>1, <2>3, Counts, BlocksReadBack
  <2>6. UnverifiedCommitments = LastVerified + 1 .. LastCommitted
    BY <2>3 DEF UnverifiedCommitments
  <2>7. ASSUME NEW maxBlock \in 1 .. MaxBlock, NEW limit \in 1 .. MaxBlock
        PROVE  LET rows   == LoadBlockRange(maxBlock, limit)
                   newest == IF maxBlock < LastCommitted THEN maxBlock ELSE LastCommitted
               IN  /\ {row.number : row \in rows} = {n \in 1 .. newest : n > newest - limit}
                   /\ \A r, s \in rows : r.number = s.number => r = s
                   /\ \A row \in rows : /\ row.verify # 0 <=> row.number <= LastVerified
                                         /\ row.root = RootAfter(row.number)
    <3>1. maxBlock \in Nat /\ limit \in Nat
      BY <2>7
    <3> QED
      BY <2>1, <2>2, <3>1, BlocksListed
  <2> QED
    BY <2>4, <2>5, <2>6, <2>7 DEF QueriesAgree
<1> QED
  BY <1>1, RowsInvariant, PTL



----------------------------------------------------------------------------
\* The committed blocks are the rollup chain

LEMMA SameLedger ==
  /\ \A l, tx, n : Chain!TransferValid(l, tx, n) = TransferValid(l, tx, n)
  /\ \A l, tx : Chain!ApplyTransfer(l, tx) = ApplyTransfer(l, tx)
  /\ \A l, tx : Chain!ApplyDeposit(l, tx) = ApplyDeposit(l, tx)
  /\ \A l, id : Chain!ApplyExit(l, id) = ApplyExit(l, id)
  /\ \A l, u : Chain!Overwritten(l, u) = Overwritten(l, u)
  /\ \A l : Chain!Leaves(l) = Leaves(l)
BY DEF Chain!TransferValid, TransferValid, Chain!ApplyTransfer, ApplyTransfer, Chain!Leaf, Leaf,
       Chain!ExitId, ExitId, Chain!ApplyDeposit, ApplyDeposit, Chain!ApplyExit, ApplyExit,
       Chain!DefaultAccount, DefaultAccount, Chain!Overwritten, Overwritten, Chain!Leaves, Leaves

\* Replaying one transfer.
LEMMA ReplayOne ==
  ASSUME NEW leaves, NEW tx, NEW number, TransferValid(leaves, tx, number)
  PROVE  Chain!Replay(leaves, <<tx>>, number) = [ok |-> TRUE, leaves |-> ApplyTransfer(leaves, tx)]
<1> DEFINE none   == [ok |-> TRUE, leaves |-> leaves]
           all    == [ok |-> TRUE, leaves |-> ApplyTransfer(leaves, tx)]
           g      == [s \in SUBSET {1} |-> IF s = {} THEN none ELSE all]
           Step(iter, s) ==
             IF s = {} THEN none
             ELSE [ok     |-> iter[s \ {CHOOSE x \in s : \A y \in s : x >= y}].ok
                               /\ TransferValid(iter[s \ {CHOOSE x \in s : \A y \in s : x >= y}].leaves,
                                                <<tx>>[CHOOSE x \in s : \A y \in s : x >= y], number),
                   leaves |-> ApplyTransfer(iter[s \ {CHOOSE x \in s : \A y \in s : x >= y}].leaves,
                                            <<tx>>[CHOOSE x \in s : \A y \in s : x >= y])]
           Fold(iter) == iter = [s \in SUBSET (DOMAIN <<tx>>) |-> Step(iter, s)]
           chosen     == CHOOSE iter : Fold(iter)
<1>1. Chain!Replay(leaves, <<tx>>, number) = chosen[DOMAIN <<tx>>]
  BY DEF Chain!Replay, Chain!FoldLeft, Chain!MapThenFoldSet, Chain!Max,
         Chain!TransferValid, TransferValid, Chain!ApplyTransfer, ApplyTransfer, Chain!Leaf, Leaf,
         Chain!ExitId, ExitId, Chain!DefaultAccount, DefaultAccount
<1>2. DOMAIN <<tx>> = {1} /\ <<tx>>[1] = tx
  OBVIOUS
<1>3. (CHOOSE x \in {1} : \A y \in {1} : x >= y) = 1 /\ {1} \ {1} = {}
  OBVIOUS
<1>4. \A s \in SUBSET {1} : s = {} \/ s = {1}
  OBVIOUS
<1>5. \A iter : Step(iter, {1}) = [ok     |-> iter[{}].ok /\ TransferValid(iter[{}].leaves, tx, number),
                                   leaves |-> ApplyTransfer(iter[{}].leaves, tx)]
  BY <1>2, <1>3
<1>6. \A iter : Step(iter, {}) = none
  OBVIOUS
<1>7. ASSUME NEW iter, iter[{}] = none PROVE Step(iter, {1}) = all
  <2>1. iter[{}].ok = TRUE /\ iter[{}].leaves = leaves
    BY <1>7
  <2>2. (iter[{}].ok /\ TransferValid(iter[{}].leaves, tx, number)) = TRUE
    BY <2>1
  <2> HIDE DEF Step
  <2> QED
    BY <1>5, <2>1, <2>2
<1> HIDE DEF Step
<1>8. g[{}] = none /\ g[{1}] = all
  OBVIOUS
<1>9. \A s \in SUBSET {1} : g[s] = Step(g, s)
  <2> HIDE DEF g
  <2>1. Step(g, {1}) = all /\ Step(g, {}) = none
    BY <1>6, <1>7, <1>8
  <2> QED
    BY <1>4, <1>8, <2>1
<1>10. Fold(g)
  <2>1. g = [s \in SUBSET {1} |-> Step(g, s)]
    <3>1. g = [s \in SUBSET {1} |-> g[s]]
      OBVIOUS
    <3> HIDE DEF g
    <3> QED
      BY <1>9, <3>1
  <2> HIDE DEF g
  <2> QED
    BY <1>2, <2>1
<1> HIDE DEF g
<1>11. Fold(chosen)
  BY <1>10
<1> HIDE DEF chosen
<1>12. chosen[{}] = none /\ chosen[{1}] = Step(chosen, {1})
  BY <1>2, <1>6, <1>11
<1>13. chosen[{1}] = all
  BY <1>7, <1>12
<1> QED
  BY <1>1, <1>2, <1>13

\* The accounts a block updated.
Updated(block) == {id \in AccountId : block.updated[id] # Absent}

TransferMade(leaves, block) ==
  /\ block.kind = "transfer"
  /\ \E tx \in TransferTx : /\ block.txs = <<tx>>
                            /\ Updated(block) = {tx.from, tx.to}
                            /\ TransferValid(leaves, tx, block.number)
                            /\ block.root = ApplyTransfer(leaves, tx)

DepositMade(leaves, block) ==
  /\ block.kind = "deposit"
  /\ \E tx \in DepositTx : /\ block.txs = <<tx>>
                           /\ Updated(block) = {tx.account}
                           /\ block.root = ApplyDeposit(leaves, tx)

ExitMade(leaves, block) ==
  /\ block.kind = "exit"
  /\ \E id \in AccountId : /\ block.txs = <<[account |-> id, amount |-> leaves[id].balance]>>
                           /\ Updated(block) = {id}
                           /\ block.root = ApplyExit(leaves, id)

\* A block is what its one transaction makes of the leaves before it.
MadeOn(leaves, block) ==
  /\ TransferMade(leaves, block) \/ DepositMade(leaves, block) \/ ExitMade(leaves, block)
  /\ block.root = Overwritten(leaves, block.updated)

LEMMA MadeIsChained ==
  ASSUME NEW leaves, NEW block, MadeOn(leaves, block)
  PROVE  Chain!BlockOn(leaves, block)
<1>1. CASE TransferMade(leaves, block)
  <2>1. PICK tx \in TransferTx : /\ block.txs = <<tx>>
                                 /\ TransferValid(leaves, tx, block.number)
                                 /\ block.root = ApplyTransfer(leaves, tx)
    BY <1>1 DEF TransferMade
  <2>2. Chain!Replay(leaves, <<tx>>, block.number) = [ok |-> TRUE, leaves |-> block.root]
    BY <2>1, ReplayOne
  <2>3. Len(<<tx>>) = 1
    OBVIOUS
  <2>4. Chain!TransferBlockOn(leaves, block)
    BY <1>1, <2>1, <2>2, <2>3 DEF Chain!TransferBlockOn, TransferMade
  <2> QED
    BY <2>4, SameLedger DEF Chain!BlockOn, MadeOn
<1>2. CASE DepositMade(leaves, block)
  <2>1. Chain!DepositBlockOn(leaves, block)
    BY <1>2, SameLedger DEF Chain!DepositBlockOn, DepositMade
  <2> QED
    BY <2>1, SameLedger DEF Chain!BlockOn, MadeOn
<1>3. CASE ExitMade(leaves, block)
  <2>1. Chain!ExitBlockOn(leaves, block)
    BY <1>3, SameLedger DEF Chain!ExitBlockOn, ExitMade
  <2> QED
    BY <2>1, SameLedger DEF Chain!BlockOn, MadeOn
<1> QED
  BY <1>1, <1>2, <1>3 DEF MadeOn

\* The root before a block of the channel: that of the last committed block,
\* or of the block before it in the channel.
ChannelRoot(i) == IF i = 0 THEN RootAfter(Committed) ELSE channel[i].root

\* An account has an item in the tree after the first blocks of the channel.
KnownInChannel(id, i) ==
  \/ \E row \in accountUpdates : row.id = id
  \/ \E j \in 1 .. i : channel[j].updated[id] # Absent

\* The committed blocks and those in the channel are each made on the one
\* before, and the last one leads to the ledger in memory, unless the
\* committer is gone; an exit is of an account that was there.
BlocksInv ==
  /\ \A i \in 1 .. Committed :
       /\ MadeOn(RootAfter(i - 1), commitOps[i])
       /\ commitOps[i].kind = "exit" => KnownBefore(commitOps[i].txs[1].account, i)
  /\ \A i \in 1 .. Len(channel) :
       /\ channel[i].number = Committed + i
       /\ MadeOn(ChannelRoot(i - 1), channel[i])
       /\ channel[i].kind = "exit" => KnownInChannel(channel[i].txs[1].account, i - 1)
  /\ committer # "stopped" =>
       /\ Leaves(memory) = ChannelRoot(Len(channel))
       /\ \A id \in AccountId : memory[id] # Absent => KnownInChannel(id, Len(channel))

\* The ledger a start reads is the one after the last committed block.
LEMMA StartOfTables ==
  ASSUME OrderInv, RecoveryInv
  PROVE  /\ Leaves(Resumed.ledger) = RootAfter(Committed)
         /\ \A id \in AccountId : Resumed.ledger[id] # Absent => KnownInChannel(id, 0)
         /\ Committed \in Nat
<1>1. PICK L : History(L)
  BY DEF RecoveryInv
<1>2. Resumed.ledger = L[Committed] /\ Committed \in Nat
  BY <1>1, CommittedState, Counts DEF RecoveryInv, Resumed
<1>3. RootAfter(Committed) = Leaves(L[Committed])
  BY <1>1, <1>2, RootsOfHistory DEF RecoveryInv
<1>4. ASSUME NEW id \in AccountId, L[Committed][id] # Absent
      PROVE  \E row \in accountUpdates : row.id = id
  <2>1. IsStateAt(id, Committed, L[Committed][id])
    BY <1>1, <1>2 DEF History
  <2> QED
    BY <1>4, <2>1 DEF IsStateAt, RowsUpTo
<1> QED
  BY <1>2, <1>3, <1>4 DEF KnownInChannel

LEMMA RootOfChain ==
  ASSUME OrderInv, TablesInv
  PROVE  Chain!Root(commitOps) = RootAfter(Committed)
<1>1. commitOps \in Seq(Blocks) /\ Committed \in Nat
  BY Counts DEF TablesInv
<1>2. CASE commitOps = <<>>
  <2>1. Committed = 0
    BY <1>2 DEF Committed
  <2>2. Chain!Root(commitOps) = Leaves([id \in AccountId |-> Absent])
    BY <1>2, SameLedger DEF Chain!Root
  <2>3. Leaves([id \in AccountId |-> Absent]) = [id \in AccountId |-> DefaultAccount]
    BY DEF Leaves, Leaf
  <2> QED
    BY <2>1, <2>2, <2>3 DEF RootAfter
<1>3. CASE commitOps # <<>>
  <2>1. Chain!Root(commitOps) = commitOps[Committed].root
    BY <1>3 DEF Chain!Root, Chain!Last, Committed
  <2>2. Committed \in 1 .. Committed /\ Committed # 0
    BY <1>1, <1>3 DEF Committed
  <2>3. RootAfter(Committed) = commitOps[Committed].root
    BY <2>2, Counts DEF RootAfter
  <2> QED
    BY <2>1, <2>3
<1> QED
  BY <1>2, <1>3

LEMMA RootsStay ==
  ASSUME UNCHANGED <<commitOps, accountUpdates>>
  PROVE  /\ Committed' = Committed
         /\ \A n : RootAfter(n)' = RootAfter(n)
         /\ \A id, n : KnownBefore(id, n)' <=> KnownBefore(id, n)
BY DEF Committed, RootAfter, LoadCommittedBlock, KnownBefore

LEMMA BlocksInvInit ==
  ASSUME Init
  PROVE  BlocksInv /\ Chain!Init
<1>1. commitOps = <<>> /\ channel = <<>> /\ Len(channel) = 0 /\ memory = Resumed.ledger
      /\ Len(commitOps) = 0
  BY DEF Init, EmptyTables, ServerInit
<1>2. OrderInv /\ RecoveryInv
  BY InitRecovery, OrderInvInit
<1> QED
  BY <1>1, <1>2, StartOfTables DEF BlocksInv, Committed, ChannelRoot, Chain!Init

\* The channel is emptied and the ledger is the one the tables give, or the
\* committer is gone.
LEMMA BlocksEmptied ==
  ASSUME OrderInv, RecoveryInv, BlocksInv, UNCHANGED <<commitOps, accountUpdates>>,
         channel' = <<>>, committer' = "stopped" \/ memory' = Resumed.ledger
  PROVE  BlocksInv'
<1>1. Len(channel') = 0
  OBVIOUS
<1>2. ChannelRoot(0)' = RootAfter(Committed)
  BY RootsStay DEF ChannelRoot
<1>3. \A id : KnownInChannel(id, 0) => KnownInChannel(id, 0)'
  BY DEF KnownInChannel
<1>4. committer' # "stopped" =>
        /\ Leaves(memory') = ChannelRoot(0)'
        /\ \A id \in AccountId : memory'[id] # Absent => KnownInChannel(id, 0)'
  BY <1>2, <1>3, StartOfTables
<1>5. \A i \in 1 .. Committed :
        /\ MadeOn(RootAfter(i - 1)', commitOps'[i])
        /\ commitOps'[i].kind = "exit" => KnownBefore(commitOps[i].txs[1].account, i)'
  BY RootsStay DEF BlocksInv
<1> QED
  BY <1>1, <1>4, <1>5, RootsStay DEF BlocksInv

LEMMA BlocksStay ==
  ASSUME BlocksInv, UNCHANGED <<commitOps, accountUpdates, channel>>,
         committer' # "stopped" => committer # "stopped" /\ UNCHANGED memory
  PROVE  BlocksInv'
<1>1. \A i : /\ ChannelRoot(i)' = ChannelRoot(i)
             /\ \A id : KnownInChannel(id, i)' <=> KnownInChannel(id, i)
  BY RootsStay DEF ChannelRoot, KnownInChannel
<1>2. \A i \in 1 .. Committed :
        /\ MadeOn(RootAfter(i - 1)', commitOps'[i])
        /\ commitOps'[i].kind = "exit" => KnownBefore(commitOps[i].txs[1].account, i)'
  BY RootsStay DEF BlocksInv
<1>3. \A i \in 1 .. Len(channel) :
       /\ channel'[i].number = Committed + i
       /\ MadeOn(ChannelRoot(i - 1)', channel'[i])
       /\ channel'[i].kind = "exit" => KnownInChannel(channel[i].txs[1].account, i - 1)'
  BY <1>1 DEF BlocksInv
<1>4. committer' # "stopped" =>
       /\ Leaves(memory') = ChannelRoot(Len(channel))'
       /\ \A id \in AccountId : memory'[id] # Absent => KnownInChannel(id, Len(channel))'
  BY <1>1 DEF BlocksInv
<1> QED
  BY <1>2, <1>3, <1>4, RootsStay DEF BlocksInv

\* A block fits a ledger when its transaction makes it of the leaves.
Fits(l, block, touched) ==
  /\ Updated(block) = touched => \/ TransferMade(Leaves(l), block)
                                 \/ DepositMade(Leaves(l), block)
                                 \/ ExitMade(Leaves(l), block)
  /\ block.kind = "exit" => block.txs[1].account \in AccountId /\ l[block.txs[1].account] # Absent

\* A block made on the ledger in memory is put into the channel.
LEMMA BlocksSend ==
  ASSUME RecoveryInv, BlocksInv, committer # "stopped",
         NEW kind, NEW txs, NEW l \in Ledgers, NEW touched \in SUBSET AccountId,
         \A id \in AccountId \ touched : l[id] = memory[id],
         SendBlock(kind, txs, l, touched),
         NEW r, r = CommittedBlock(nextBlock, kind, txs, l, touched),
         Fits(memory, r, touched)
  PROVE  BlocksInv' /\ UNCHANGED commitOps
<1>1. /\ UNCHANGED <<commitOps, accountUpdates, committer>>
      /\ channel' = Append(channel, r) /\ memory' = l
  BY DEF SendBlock, tables
<1>2. PICK L : History(L)
  BY DEF RecoveryInv
<1>3. /\ channel \in Seq(Blocks) /\ Committed \in Nat
      /\ nextBlock = Committed + Len(channel) + 1
  BY <1>2, LenProperties DEF History, RecoveryInv, TablesInv, Committed
<1>4. PICK k \in Nat : k = Len(channel)
  BY <1>3
<1>5. /\ Len(channel') = k + 1 /\ channel'[k + 1] = r
      /\ \A i \in 1 .. k : channel'[i] = channel[i]
  BY <1>1, <1>3, <1>4
<1>6. /\ r.number = Committed + (k + 1) /\ r.root = Leaves(l)
      /\ \A id \in AccountId : r.updated[id] = IF id \in touched THEN Leaf(l, id) ELSE Absent
  <2>1. r.number = nextBlock /\ nextBlock = Committed + (k + 1)
    BY <1>3, <1>4 DEF CommittedBlock
  <2> QED
    BY <2>1 DEF CommittedBlock
<1>l. \A id \in AccountId : Leaf(l, id) # Absent
  BY LeafType, AbsentIsNoAccount
<1>7. r.root = Overwritten(Leaves(memory), r.updated)
  <2>1. \A id \in AccountId \ touched : Leaf(l, id) = Leaf(memory, id)
    BY DEF Leaf
  <2>2. \A id \in AccountId :
          Leaf(l, id) = IF r.updated[id] = Absent THEN Leaves(memory)[id] ELSE r.updated[id]
    BY <1>6, <1>l, <2>1 DEF Leaves
  <2> QED
    BY <1>6, <2>2 DEF Overwritten, Leaves
<1>8. MadeOn(Leaves(memory), r)
  <2>1. Updated(r) = touched
    BY <1>6, <1>l DEF Updated
  <2> QED
    BY <1>7, <2>1 DEF MadeOn, Fits
<1>9. Leaves(memory) = ChannelRoot(k)
      /\ \A id \in AccountId : memory[id] # Absent => KnownInChannel(id, k)
  BY <1>4 DEF BlocksInv
<1>10. \A i \in 0 .. k : /\ ChannelRoot(i)' = ChannelRoot(i)
                         /\ \A id : KnownInChannel(id, i) => KnownInChannel(id, i)'
  BY <1>1, <1>5, RootsStay DEF ChannelRoot, KnownInChannel
<1>11. Committed' = Committed
  BY <1>1 DEF Committed
<1>12. ASSUME NEW i \in 1 .. k + 1
       PROVE  /\ channel'[i].number = Committed + i
              /\ MadeOn(ChannelRoot(i - 1)', channel'[i])
              /\ channel'[i].kind = "exit" => KnownInChannel(channel[i].txs[1].account, i - 1)'
  <2>1. CASE i \in 1 .. k
    <3>1. /\ channel[i].number = Committed + i /\ MadeOn(ChannelRoot(i - 1), channel[i])
          /\ channel[i].kind = "exit" => KnownInChannel(channel[i].txs[1].account, i - 1)
      BY <1>4, <2>1 DEF BlocksInv
    <3>2. i - 1 \in 0 .. k
      BY <2>1
    <3>3. /\ ChannelRoot(i - 1)' = ChannelRoot(i - 1)
          /\ \A id : KnownInChannel(id, i - 1) => KnownInChannel(id, i - 1)'
      BY <1>10, <3>2
    <3> QED
      BY <1>5, <2>1, <3>1, <3>3
  <2>2. CASE i = k + 1
    <3>1. i - 1 = k /\ k \in 0 .. k
      BY <2>2
    <3>2. ChannelRoot(i - 1)' = Leaves(memory)
      BY <1>9, <1>10, <3>1
    <3>3. r.kind = "exit" => KnownInChannel(r.txs[1].account, i - 1)'
      BY <1>9, <1>10, <3>1 DEF Fits
    <3> QED
      BY <1>5, <1>6, <1>8, <2>2, <3>2, <3>3
  <2> QED
    BY <2>1, <2>2
<1>13. Leaves(memory') = ChannelRoot(Len(channel))'
  BY <1>1, <1>5, <1>6 DEF ChannelRoot
<1>14. ASSUME NEW id \in AccountId, l[id] # Absent
       PROVE  KnownInChannel(id, k + 1)'
  <2>1. CASE id \in touched
    <3>1. channel'[k + 1].updated[id] # Absent
      BY <1>5, <1>6, <1>l, <2>1
    <3>2. k + 1 \in 1 .. k + 1
      OBVIOUS
    <3> QED
      BY <3>1, <3>2 DEF KnownInChannel
  <2>2. CASE id \notin touched
    <3>1. KnownInChannel(id, k)
      BY <1>9, <1>14, <2>2
    <3> QED
      BY <1>1, <1>5, <3>1 DEF KnownInChannel
  <2> QED
    BY <2>1, <2>2
<1>15. \A i \in 1 .. Committed :
        /\ MadeOn(RootAfter(i - 1)', commitOps'[i])
        /\ commitOps'[i].kind = "exit" => KnownBefore(commitOps[i].txs[1].account, i)'
  BY <1>1, RootsStay DEF BlocksInv
<1>16. \A id \in AccountId : memory'[id] # Absent => KnownInChannel(id, Len(channel))'
  BY <1>1, <1>5, <1>14
<1> QED
  BY <1>1, <1>5, <1>11, <1>12, <1>13, <1>15, <1>16 DEF BlocksInv

LEMMA BlocksKeeper ==
  ASSUME RecoveryInv, BlocksInv,
         \/ \E tx \in Transfers : MakeTransferBlock(tx)
         \/ \E tx \in Deposits : MakeDepositBlock(tx)
         \/ \E id \in Exits : MakeExitBlock(id)
  PROVE  BlocksInv' /\ UNCHANGED commitOps
<1>1. CASE committer = "stopped"
  <2>1. UNCHANGED <<commitOps, accountUpdates, channel, committer>>
    BY <1>1 DEF MakeTransferBlock, MakeDepositBlock, MakeExitBlock, SendBlock, tables
  <2> QED
    BY <1>1, <2>1, BlocksStay
<1>2. CASE committer # "stopped"
  <2>1. memory \in Ledgers /\ Leaves(memory) \in Ledgers
    BY <1>2, MemoryType, LeavesOfLeaves
  <2>2. ASSUME NEW tx \in Transfers, MakeTransferBlock(tx)
        PROVE  BlocksInv' /\ UNCHANGED commitOps
    <3>1. tx \in TransferTx /\ TransferValid(memory, tx, nextBlock)
      BY <2>2, ServerConstants DEF MakeTransferBlock
    <3>2. {tx.from, tx.to} \in SUBSET AccountId
      BY <3>1 DEF TransferTx
    <3>3. PICK l : l = ApplyTransfer(memory, tx)
      OBVIOUS
    <3>4. /\ l \in Ledgers
          /\ \A id \in AccountId \ {tx.from, tx.to} : l[id] = memory[id]
      BY <2>1, <3>1, <3>3, ApplyTransferType
    <3>5. SendBlock("transfer", <<tx>>, l, {tx.from, tx.to})
      BY <2>2, <3>3 DEF MakeTransferBlock
    <3>6. PICK r : r = CommittedBlock(nextBlock, "transfer", <<tx>>, l, {tx.from, tx.to})
      OBVIOUS
    <3>7. r.kind = "transfer" /\ r.txs = <<tx>> /\ r.number = nextBlock /\ r.root = Leaves(l)
      BY <3>6 DEF CommittedBlock
    <3>8. TransferValid(Leaves(memory), tx, nextBlock) /\ ApplyTransfer(Leaves(memory), tx) = Leaves(l)
      BY <2>1, <3>1, <3>3, LeavesOfTransfer
    <3>9. Updated(r) = {tx.from, tx.to} => TransferMade(Leaves(memory), r)
      BY <3>1, <3>7, <3>8 DEF TransferMade
    <3>10. Fits(memory, r, {tx.from, tx.to})
      BY <3>7, <3>9 DEF Fits
    <3> QED
      BY <1>2, <3>2, <3>4, <3>5, <3>6, <3>10, BlocksSend
  <2>3. ASSUME NEW tx \in Deposits, MakeDepositBlock(tx)
        PROVE  BlocksInv' /\ UNCHANGED commitOps
    <3>1. tx \in DepositTx /\ {tx.account} \in SUBSET AccountId
      BY ServerConstants DEF DepositTx
    <3>3. PICK l : l = ApplyDeposit(memory, tx)
      OBVIOUS
    <3>4. /\ l \in Ledgers
          /\ \A id \in AccountId \ {tx.account} : l[id] = memory[id]
      BY <2>1, <3>1, <3>3, ApplyDepositType
    <3>5. SendBlock("deposit", <<tx>>, l, {tx.account})
      BY <2>3, <3>3 DEF MakeDepositBlock
    <3>6. PICK r : r = CommittedBlock(nextBlock, "deposit", <<tx>>, l, {tx.account})
      OBVIOUS
    <3>7. r.kind = "deposit" /\ r.txs = <<tx>> /\ r.root = Leaves(l)
      BY <3>6 DEF CommittedBlock
    <3>8. ApplyDeposit(Leaves(memory), tx) = Leaves(l)
      BY <2>1, <3>1, <3>3, LeavesOfDeposit
    <3>9. Updated(r) = {tx.account} => DepositMade(Leaves(memory), r)
      BY <3>1, <3>7, <3>8 DEF DepositMade
    <3>10. Fits(memory, r, {tx.account})
      BY <3>7, <3>9 DEF Fits
    <3> QED
      BY <1>2, <3>1, <3>4, <3>5, <3>6, <3>10, BlocksSend
  <2>4. ASSUME NEW id \in Exits, MakeExitBlock(id)
        PROVE  BlocksInv' /\ UNCHANGED commitOps
    <3>1. id \in AccountId /\ {id} \in SUBSET AccountId /\ memory[id] # Absent
      BY <2>4, ServerConstants DEF MakeExitBlock, ExitValid
    <3>2. PICK exit : exit = [account |-> id, amount |-> memory[id].balance]
      OBVIOUS
    <3>3. PICK l : l = ApplyExit(memory, id)
      OBVIOUS
    <3>4. /\ l \in Ledgers
          /\ \A i \in AccountId \ {id} : l[i] = memory[i]
      BY <2>1, <3>1, <3>3, ApplyExitType
    <3>5. SendBlock("exit", <<exit>>, l, {id})
      BY <2>4, <3>2, <3>3 DEF MakeExitBlock
    <3>6. PICK r : r = CommittedBlock(nextBlock, "exit", <<exit>>, l, {id})
      OBVIOUS
    <3>7. r.kind = "exit" /\ r.txs = <<exit>> /\ r.root = Leaves(l)
      BY <3>6 DEF CommittedBlock
    <3>8. ApplyExit(Leaves(memory), id) = Leaves(l)
      BY <2>1, <3>1, <3>3, LeavesOfExit
    <3>9. exit.amount = Leaves(memory)[id].balance
      BY <3>1, <3>2 DEF Leaves, Leaf
    <3>10. Updated(r) = {id} => ExitMade(Leaves(memory), r)
      BY <3>1, <3>2, <3>7, <3>8, <3>9 DEF ExitMade
    <3>11. r.txs[1].account = id
      BY <3>2, <3>7
    <3>12. Fits(memory, r, {id})
      BY <3>1, <3>10, <3>11 DEF Fits
    <3> QED
      BY <1>2, <3>1, <3>4, <3>5, <3>6, <3>12, BlocksSend
  <2> QED
    BY <2>2, <2>3, <2>4
<1> QED
  BY <1>1, <1>2

LEMMA BlockByNumber ==
  ASSUME NEW ops, NEW c \in Nat, DOMAIN ops = 1 .. c, \A i \in 1 .. c : ops[i].number = i,
         NEW n \in 1 .. c
  PROVE  ops[CHOOSE i \in DOMAIN ops : ops[i].number = n] = ops[n]
<1>1. \A i \in DOMAIN ops : ops[i].number = n => i = n
  OBVIOUS
<1> QED
  BY <1>1

\* What a new committed block leaves alone.
LEMMA CommitKeeps ==
  ASSUME OrderInv, RecoveryInv, CommitBlock,
         NEW c, c = Committed, NEW block, block = Head(channel), block.number = c + 1
  PROVE  /\ c \in Nat /\ Committed' = c + 1
         /\ \A n \in 0 .. c : RootAfter(n)' = RootAfter(n)
         /\ RootAfter(c + 1)' = block.root
         /\ \A i \in 1 .. c : commitOps'[i] = commitOps[i]
         /\ commitOps'[c + 1] = block
         /\ accountUpdates' = accountUpdates \cup UpdateRows(block)
         /\ \A row \in accountUpdates : row.block \in 1 .. c
         /\ \A row \in UpdateRows(block) : row.block = c + 1
<1>1. /\ commitOps \in Seq(Blocks) /\ channel \in Seq(Blocks) /\ channel # <<>>
      /\ commitOps' = Append(commitOps, block)
      /\ accountUpdates' = accountUpdates \cup UpdateRows(block)
  BY DEF CommitBlock, CommitOperation, RecoveryInv, TablesInv
<1>2. c \in Nat /\ Len(commitOps) = c
  BY <1>1, LenProperties DEF Committed
<1>3. /\ Len(commitOps') = c + 1 /\ DOMAIN commitOps' = 1 .. c + 1 /\ DOMAIN commitOps = 1 .. c
      /\ commitOps'[c + 1] = block
      /\ \A i \in 1 .. c : commitOps'[i] = commitOps[i]
  BY <1>1, <1>2
<1>4. \A i \in 1 .. c : commitOps[i].number = i
  BY DEF RecoveryInv, TablesInv
<1>5. \A i \in 1 .. c + 1 : commitOps'[i].number = i
  BY <1>2, <1>3, <1>4
<1>6. \A n \in 1 .. c : LoadCommittedBlock(n) = commitOps[n]
  BY <1>2, <1>3, <1>4, BlockByNumber DEF LoadCommittedBlock
<1>7. \A n \in 1 .. c + 1 : LoadCommittedBlock(n)' = commitOps'[n]
  <2>1. PICK ops : ops = commitOps'
    OBVIOUS
  <2>2. \A n \in 1 .. c + 1 : ops[CHOOSE i \in DOMAIN ops : ops[i].number = n] = ops[n]
    BY <1>2, <1>3, <1>5, <2>1, BlockByNumber
  <2> QED
    BY <2>1, <2>2 DEF LoadCommittedBlock
<1>8. \A n \in 0 .. c : RootAfter(n)' = RootAfter(n)
  <2> SUFFICES ASSUME NEW n \in 0 .. c PROVE RootAfter(n)' = RootAfter(n)
    OBVIOUS
  <2>1. CASE n = 0
    BY <2>1 DEF RootAfter
  <2>2. CASE n # 0
    <3>1. n \in 1 .. c /\ n \in 1 .. c + 1
      BY <1>2, <2>2
    <3> QED
      BY <1>3, <1>6, <1>7, <2>2, <3>1 DEF RootAfter
  <2> QED
    BY <2>1, <2>2
<1>9. RootAfter(c + 1)' = block.root
  <2>1. c + 1 # 0 /\ c + 1 \in 1 .. c + 1
    BY <1>2
  <2> QED
    BY <1>3, <1>7, <2>1 DEF RootAfter
<1>10. \A row \in accountUpdates : row.block \in 1 .. c
  BY DEF RecoveryInv, TablesInv
<1>11. \A row \in UpdateRows(block) : row.block = c + 1
  BY DEF UpdateRows
<1> QED
  BY <1>1, <1>2, <1>3, <1>8, <1>9, <1>10, <1>11 DEF Committed

\* The first block of the channel becomes the last of the chain.
LEMMA BlocksCommit ==
  ASSUME OrderInv, RecoveryInv, BlocksInv, CommitBlock
  PROVE  BlocksInv' /\ Chain!Extend
<1>1. /\ channel \in Seq(Blocks) /\ channel # <<>> /\ commitOps \in Seq(Blocks)
      /\ committer # "stopped" /\ UNCHANGED <<memory, committer>>
      /\ commitOps' = Append(commitOps, Head(channel)) /\ channel' = Tail(channel)
  BY DEF CommitBlock, CommitOperation, RecoveryInv, TablesInv
<1>2. PICK block : block = Head(channel)
  OBVIOUS
<1>3. PICK c \in Nat : c = Committed
  BY <1>1, LenProperties DEF Committed
<1>4. PICK k \in Nat : k + 1 = Len(channel)
  <2>1. Len(channel) \in Nat /\ Len(channel) # 0
    BY <1>1, EmptySeq
  <2>2. Len(channel) - 1 \in Nat /\ (Len(channel) - 1) + 1 = Len(channel)
    BY <2>1
  <2> QED
    BY <2>2
<1>5. /\ block = channel[1] /\ Len(channel') = k
      /\ \A i \in 1 .. k : channel'[i] = channel[i + 1]
  BY <1>1, <1>2, <1>4, HeadTailProperties
<1>6. /\ Len(commitOps) = c /\ Len(commitOps') = c + 1 /\ commitOps'[c + 1] = block
      /\ DOMAIN commitOps' = 1 .. c + 1
      /\ \A i \in 1 .. c : commitOps'[i] = commitOps[i]
  BY <1>1, <1>2, <1>3 DEF Committed
<1>7. /\ block.number = c + 1 /\ MadeOn(RootAfter(c), block)
      /\ block.kind = "exit" => KnownInChannel(block.txs[1].account, 0)
  <2>1. 1 \in 1 .. Len(channel) /\ 1 - 1 = 0
    BY <1>4
  <2>2. /\ channel[1].number = Committed + 1 /\ MadeOn(ChannelRoot(0), channel[1])
        /\ channel[1].kind = "exit" => KnownInChannel(channel[1].txs[1].account, 0)
    BY <2>1 DEF BlocksInv
  <2>3. ChannelRoot(0) = RootAfter(c)
    BY <1>3 DEF ChannelRoot
  <2> QED
    BY <1>3, <1>5, <2>2, <2>3
<1>k. /\ Committed' = c + 1
      /\ \A n \in 0 .. c : RootAfter(n)' = RootAfter(n)
      /\ RootAfter(c + 1)' = block.root
      /\ accountUpdates' = accountUpdates \cup UpdateRows(block)
      /\ \A row \in accountUpdates : row.block \in 1 .. c
  BY <1>2, <1>3, <1>7, CommitKeeps
<1>8. Chain!Last(commitOps') = block
  BY <1>6 DEF Chain!Last
<1>9. Chain!IsPrefix(commitOps, commitOps')
  <2>1. /\ SubSeq(commitOps, 1, c) = [i \in 1 .. c |-> commitOps[i]]
        /\ SubSeq(commitOps', 1, c) = [i \in 1 .. c |-> commitOps'[i]]
    BY <1>1, <1>3, <1>6
  <2>2. SubSeq(commitOps, 1, c) = SubSeq(commitOps', 1, c)
    BY <1>6, <2>1
  <2>3. c <= c + 1
    OBVIOUS
  <2> QED
    BY <1>6, <2>2, <2>3 DEF Chain!IsPrefix
<1>10. Chain!Extend
  <2>1. Chain!Last(commitOps').number = 1 + Len(commitOps)
    BY <1>6, <1>7, <1>8
  <2>2. Chain!BlockOn(Chain!Root(commitOps), block)
    BY <1>3, <1>7, RootOfChain, MadeIsChained DEF RecoveryInv
  <2> QED
    BY <1>6, <1>8, <1>9, <2>1, <2>2 DEF Chain!Extend
<1>11. \A i \in 0 .. k : ChannelRoot(i)' = ChannelRoot(i + 1)
  <2>1. ChannelRoot(0)' = block.root
    BY <1>k DEF ChannelRoot
  <2>2. ChannelRoot(0 + 1) = block.root
    BY <1>5 DEF ChannelRoot
  <2>3. \A i \in 1 .. k : ChannelRoot(i)' = channel'[i].root /\ ChannelRoot(i + 1) = channel[i + 1].root
    BY DEF ChannelRoot
  <2> QED
    BY <1>5, <2>1, <2>2, <2>3
<1>12. ASSUME NEW i \in 0 .. k, NEW id \in AccountId, KnownInChannel(id, i + 1)
       PROVE  KnownInChannel(id, i)'
  <2>1. CASE \E row \in accountUpdates : row.id = id
    BY <1>k, <2>1 DEF KnownInChannel
  <2>2. ASSUME NEW j \in 1 .. i + 1, channel[j].updated[id] # Absent
        PROVE  KnownInChannel(id, i)'
    <3>1. CASE j = 1
      <4>1. [id |-> id, block |-> block.number, account |-> block.updated[id]] \in UpdateRows(block)
        BY <1>5, <2>2, <3>1 DEF UpdateRows
      <4> QED
        BY <1>k, <4>1 DEF KnownInChannel
    <3>2. CASE j # 1
      <4>1. j - 1 \in 1 .. i /\ j - 1 \in 1 .. k /\ (j - 1) + 1 = j
        BY <3>2
      <4>2. channel'[j - 1] = channel[j]
        BY <1>5, <4>1
      <4> QED
        BY <2>2, <4>1, <4>2 DEF KnownInChannel
    <3> QED
      BY <3>1, <3>2
  <2> QED
    BY <1>12, <2>1, <2>2 DEF KnownInChannel
<1>13. \A i \in 1 .. Len(channel) : channel[i].kind = "exit" => channel[i].txs[1].account \in AccountId
  <2> SUFFICES ASSUME NEW i \in 1 .. Len(channel), channel[i].kind = "exit"
               PROVE  channel[i].txs[1].account \in AccountId
    OBVIOUS
  <2>1. MadeOn(ChannelRoot(i - 1), channel[i])
    BY DEF BlocksInv
  <2>2. ExitMade(ChannelRoot(i - 1), channel[i])
    BY <2>1 DEF MadeOn, TransferMade, DepositMade
  <2> QED
    BY <2>2 DEF ExitMade
<1>14. ASSUME NEW i \in 1 .. k
       PROVE  /\ channel'[i].number = c + 1 + i
              /\ MadeOn(ChannelRoot(i - 1)', channel'[i])
              /\ channel'[i].kind = "exit" => KnownInChannel(channel[i].txs[1].account, i - 1)'
  <2>1. i + 1 \in 1 .. Len(channel) /\ (i + 1) - 1 = i /\ i - 1 \in 0 .. k /\ (i - 1) + 1 = i
        /\ c + (i + 1) = c + 1 + i
    BY <1>4
  <2>2. /\ channel[i + 1].number = c + (i + 1) /\ MadeOn(ChannelRoot((i + 1) - 1), channel[i + 1])
        /\ channel[i + 1].kind = "exit" => KnownInChannel(channel[i + 1].txs[1].account, (i + 1) - 1)
    BY <1>3, <2>1 DEF BlocksInv
  <2>3. ChannelRoot(i - 1)' = ChannelRoot(i)
    BY <1>11, <2>1
  <2> PICK id : id = channel[i + 1].txs[1].account
    OBVIOUS
  <2>4. channel[i + 1].kind = "exit" => id \in AccountId /\ KnownInChannel(id, (i - 1) + 1)
    BY <1>13, <2>1, <2>2
  <2>5. channel[i + 1].kind = "exit" => KnownInChannel(id, i - 1)'
    BY <1>12, <2>1, <2>4
  <2>6. channel'[i] = channel[i + 1]
    BY <1>5
  <2>7. channel'[i].kind = "exit" => KnownInChannel(channel[i].txs[1].account, i - 1)'
    BY <2>5, <2>6
  <2> QED
    BY <2>1, <2>2, <2>3, <2>6, <2>7
<1>15. /\ Leaves(memory') = ChannelRoot(k)'
       /\ \A id \in AccountId : memory'[id] # Absent => KnownInChannel(id, k)'
  <2>1. /\ Leaves(memory) = ChannelRoot(k + 1)
        /\ \A id \in AccountId : memory[id] # Absent => KnownInChannel(id, k + 1)
    BY <1>1, <1>4 DEF BlocksInv
  <2>2. k \in 0 .. k
    OBVIOUS
  <2>3. ChannelRoot(k)' = ChannelRoot(k + 1)
    BY <1>11, <2>2
  <2> QED
    BY <1>1, <1>12, <2>1, <2>2, <2>3
<1>16. ASSUME NEW i \in 1 .. c + 1
       PROVE  /\ MadeOn(RootAfter(i - 1)', commitOps'[i])
              /\ commitOps'[i].kind = "exit" => KnownBefore(commitOps[i].txs[1].account, i)'
  <2>1. CASE i \in 1 .. c
    <3>1. /\ MadeOn(RootAfter(i - 1), commitOps[i])
          /\ commitOps[i].kind = "exit" => KnownBefore(commitOps[i].txs[1].account, i)
      BY <1>3, <2>1 DEF BlocksInv
    <3>2. i - 1 \in 0 .. c
      BY <2>1
    <3>3. RootAfter(i - 1)' = RootAfter(i - 1)
      BY <1>k, <3>2
    <3>4. \A id : KnownBefore(id, i) => KnownBefore(id, i)'
      BY <1>k DEF KnownBefore
    <3> QED
      BY <1>6, <2>1, <3>1, <3>3, <3>4
  <2>2. CASE i = c + 1
    <3>1. i - 1 = c /\ c \in 0 .. c
      BY <2>2
    <3>2. RootAfter(i - 1)' = RootAfter(c)
      BY <1>k, <3>1
    <3>3. \A id : KnownInChannel(id, 0) => KnownBefore(id, i)'
      BY <1>k, <2>2 DEF KnownInChannel, KnownBefore
    <3> QED
      BY <1>6, <1>7, <2>2, <3>2, <3>3
  <2> QED
    BY <2>1, <2>2
<1>17. /\ \A i \in 1 .. Committed' :
            /\ MadeOn(RootAfter(i - 1)', commitOps'[i])
            /\ commitOps'[i].kind = "exit" => KnownBefore(commitOps[i].txs[1].account, i)'
       /\ \A i \in 1 .. Len(channel') :
            /\ channel'[i].number = Committed' + i
            /\ MadeOn(ChannelRoot(i - 1)', channel'[i])
            /\ channel'[i].kind = "exit" => KnownInChannel(channel[i].txs[1].account, i - 1)'
       /\ Leaves(memory') = ChannelRoot(Len(channel))'
       /\ \A id \in AccountId : memory'[id] # Absent => KnownInChannel(id, Len(channel))'
  BY <1>5, <1>14, <1>15, <1>16, <1>k
<1>18. BlocksInv'
  BY <1>17 DEF BlocksInv
<1> QED
  BY <1>10, <1>18

LEMMA BlocksInvNext ==
  OrderInv /\ RecoveryInv /\ BlocksInv /\ [Next]_allVars => BlocksInv' /\ [Chain!Extend]_commitOps
<1> SUFFICES ASSUME OrderInv, RecoveryInv, BlocksInv, [Next]_allVars
             PROVE  BlocksInv' /\ [Chain!Extend]_commitOps
  OBVIOUS
<1>1. ASSUME UNCHANGED <<commitOps, accountUpdates, channel>>,
             committer' # "stopped" => committer # "stopped" /\ UNCHANGED memory
      PROVE  BlocksInv' /\ [Chain!Extend]_commitOps
  BY <1>1, BlocksStay
<1>2. CASE UNCHANGED allVars
  BY <1>1, <1>2 DEF allVars, tables, serverVars
<1>3. CASE ProverNext /\ UNCHANGED serverVars
  <2>1. UNCHANGED <<commitOps, accountUpdates>>
    BY <1>3 DEF ProverNext, Attempt, FetchJob, FetchProverJob, FastForward, PrepareTree, MakeProof,
         ProofFails, SaveProof, StoreProof, AttemptFails, RestartProver, Heartbeat,
         UpdateProverJob, LeaseExpires, RunExpires, tables
  <2> QED
    BY <1>1, <1>3, <2>1 DEF serverVars
<1>4. CASE VerifyBlock \/ ReceiveTimeout \/ NoMoreProofs
  BY <1>1, <1>4 DEF VerifyBlock, VerifyOperation, ReceiveTimeout, NoMoreProofs, tables
<1>5. CASE CommitterPanics \/ Restart
  BY <1>5, BlocksEmptied DEF CommitterPanics, Restart, tables
<1>6. CASE CommitBlock
  BY <1>6, BlocksCommit
<1> QED
  BY <1>2, <1>3, <1>4, <1>5, <1>6, BlocksKeeper DEF Next, ServerNext, Committer

LEMMA BlocksInvariant == Spec => [](OrderInv /\ RecoveryInv /\ BlocksInv)
BY BlocksInvInit, BlocksInvNext, OrderInvInit, OrderInvNext, InitRecovery, RecoveryInvNext, PTL DEF Spec

\* The blocks in the database are a serial history of the ledger: each is
\* numbered after the one before, and its transaction, valid in its turn,
\* makes its root of the root before, whatever was lost between the keeper,
\* the channel and the committer.
THEOREM CommitsAreSerial == Spec => CommitsAreAChain
BY BlocksInvInit, BlocksInvNext, RecoveryInvariant, PTL DEF Spec, CommitsAreAChain, Chain!Spec

----------------------------------------------------------------------------
\* The trees of the provers

\* The tree of a prover is a ledger, but a transfer replayed on a wrong one
\* may overdraw an account.
TreeAccount == [balance : Int, nonce : Nat, key : Key \cup {NoKey}]

Trees == [AccountId -> TreeAccount \cup {Absent}]

Touched(id, n) == \E row \in accountUpdates : row.id = id /\ row.block = n

\* What a block that was replayed leaves of an account it updated, whatever
\* it was before.
LooksReplayed(leaf, block) ==
  /\ block.kind = "deposit" => leaf.key # NoKey
  /\ block.kind = "exit" => leaf = DefaultAccount

\* An account in a tree that is ready for block c: as it is before the block,
\* or not known by then, or written by a replay that failed of the next block
\* that updates it.
TreeRight(t, c, id) ==
  \/ Leaf(t, id) = RootAfter(c - 1)[id]
  \/ ~KnownBefore(id, c)
  \/ \E n \in c .. Committed :
       /\ Touched(id, n)
       /\ \A k \in c .. n - 1 : ~Touched(id, k)
       /\ LooksReplayed(Leaf(t, id), commitOps[n])

Connects(proof) ==
  /\ proof.block \in 1 .. Committed
  /\ proof.initial = RootAfter(proof.block - 1)
  /\ proof.final = RootAfter(proof.block)

TreeFor(t, c) ==
  /\ t \in Trees
  /\ c \in 1 .. Committed + 1
  /\ \A id \in AccountId : TreeRight(t, c, id)

ProverInv(p) ==
  /\ TreeFor(tree[p], current[p])
  /\ phase[p] = "ready" => current[p] = JobBlock(p)
  /\ phase[p] = "proved" => Connects(made[p])

ProversInv ==
  /\ tree = [p \in Worker |-> tree[p]]
  /\ current = [p \in Worker |-> current[p]]
  /\ \A p \in Worker : ProverInv(p)
  /\ \A proof \in proofs : Connects(proof)

----------------------------------------------------------------------------
\* Replays on any tree

LEMMA AbsentIsNoTreeAccount == Absent \notin TreeAccount
BY LedgerConstants DEF TreeAccount

LEMMA LedgersAreTrees == Ledgers \subseteq Trees /\ LeafMaps \subseteq Trees
<1>1. Account \subseteq TreeAccount
  BY DEF Account, TreeAccount
<1> QED
  BY <1>1 DEF Ledgers, Trees, LeafMaps

LEMMA TreeLeaf ==
  ASSUME NEW t \in Trees, NEW id \in AccountId
  PROVE  /\ Leaf(t, id) \in TreeAccount
         /\ t[id] # Absent => Leaf(t, id) = t[id]
BY DEF Leaf, Trees, TreeAccount, DefaultAccount

\* The accounts of a transfer after it.
Charged(account, tx) == [account EXCEPT !.balance = @ - (tx.amount + tx.fee), !.nonce = @ + 1]

Credited(leaf, tx) ==
  IF tx.to = ExitId THEN leaf ELSE [leaf EXCEPT !.balance = @ + tx.amount]

\* Writing accounts to a tree gives a tree.
LEMMA TransferOnTree ==
  ASSUME NEW t \in Trees, NEW tx \in TransferTx, t[tx.from] # Absent
  PROVE  /\ ApplyTransfer(t, tx) \in Trees
         /\ \A id \in AccountId \ {tx.from, tx.to} : ApplyTransfer(t, tx)[id] = t[id]
         /\ ApplyTransfer(t, tx)[tx.from] = Charged(t[tx.from], tx)
         /\ tx.from # tx.to => ApplyTransfer(t, tx)[tx.to] = Credited(Leaf(t, tx.to), tx)
         /\ Charged(t[tx.from], tx) \in TreeAccount /\ Credited(Leaf(t, tx.to), tx) \in TreeAccount
<1>1. tx.from \in AccountId /\ tx.to \in AccountId /\ tx.amount \in Nat /\ tx.fee \in Nat
  BY DEF TransferTx
<1>2. t[tx.from] \in TreeAccount /\ Leaf(t, tx.to) \in TreeAccount
  BY <1>1, TreeLeaf DEF Trees
<1>3. Charged(t[tx.from], tx) \in TreeAccount
  <2>1. t[tx.from].balance - (tx.amount + tx.fee) \in Int /\ t[tx.from].nonce + 1 \in Nat
    BY <1>1, <1>2 DEF TreeAccount
  <2> QED
    BY <1>2, <2>1 DEF TreeAccount, Charged
<1>4. Credited(Leaf(t, tx.to), tx) \in TreeAccount
  <2>1. Leaf(t, tx.to).balance + tx.amount \in Int
    BY <1>1, <1>2 DEF TreeAccount
  <2> QED
    BY <1>2, <2>1 DEF TreeAccount, Credited
<1>5. ApplyTransfer(t, tx) =
        [t EXCEPT ![tx.to] = Credited(Leaf(t, tx.to), tx), ![tx.from] = Charged(t[tx.from], tx)]
  BY DEF ApplyTransfer, Charged, Credited
<1> QED
  BY <1>1, <1>2, <1>3, <1>4, <1>5 DEF Trees

LEMMA DepositOnTree ==
  ASSUME NEW t \in Trees, NEW tx \in DepositTx
  PROVE  /\ ApplyDeposit(t, tx) \in Trees
         /\ \A id \in AccountId \ {tx.account} : ApplyDeposit(t, tx)[id] = t[id]
         /\ ApplyDeposit(t, tx)[tx.account] # Absent
         /\ ApplyDeposit(t, tx)[tx.account] =
              IF Leaf(t, tx.account).balance = 0
              THEN [balance |-> tx.amount, nonce |-> 0, key |-> tx.key]
              ELSE [Leaf(t, tx.account) EXCEPT !.balance = @ + tx.amount]
<1>1. tx.account \in AccountId /\ tx.amount \in Nat /\ tx.key \in Key \cup {NoKey}
  BY DEF DepositTx
<1>2. Leaf(t, tx.account) \in TreeAccount
  BY <1>1, TreeLeaf
<1>3. [balance |-> tx.amount, nonce |-> 0, key |-> tx.key] \in TreeAccount
  BY <1>1 DEF TreeAccount
<1>4. [Leaf(t, tx.account) EXCEPT !.balance = @ + tx.amount] \in TreeAccount
  <2>1. Leaf(t, tx.account).balance + tx.amount \in Int
    BY <1>1, <1>2 DEF TreeAccount
  <2> QED
    BY <1>2, <2>1 DEF TreeAccount
<1>5. CASE Leaf(t, tx.account).balance = 0
  BY <1>1, <1>3, <1>5, AbsentIsNoTreeAccount DEF ApplyDeposit, Trees
<1>6. CASE Leaf(t, tx.account).balance # 0
  <2>1. Leaf(t, tx.account) = t[tx.account]
    BY <1>6 DEF Leaf, DefaultAccount
  <2> QED
    BY <1>1, <1>4, <1>6, <2>1, AbsentIsNoTreeAccount DEF ApplyDeposit, Trees
<1> QED
  BY <1>5, <1>6

LEMMA ExitOnTree ==
  ASSUME NEW t \in Trees, NEW account \in AccountId
  PROVE  /\ ApplyExit(t, account) \in Trees
         /\ \A id \in AccountId \ {account} : ApplyExit(t, account)[id] = t[id]
         /\ ApplyExit(t, account)[account] = DefaultAccount
BY DEF ApplyExit, Trees, TreeAccount, DefaultAccount

\* A transfer can be undone: the leaves before it follow from those after it.
LEMMA TransferUndone ==
  ASSUME NEW t \in Trees, NEW leaves \in LeafMaps, NEW tx \in TransferTx,
         t[tx.from] # Absent, tx.from # tx.to,
         Leaves(ApplyTransfer(t, tx)) = ApplyTransfer(leaves, tx)
  PROVE  Leaves(t) = leaves
<1>1. tx.from \in AccountId /\ tx.to \in AccountId /\ tx.amount \in Nat /\ tx.fee \in Nat
  BY DEF TransferTx
<1>2. leaves \in Trees /\ \A id \in AccountId : leaves[id] \in TreeAccount
  BY LedgersAreTrees DEF LeafMaps, TreeAccount, Account
<1>3. \A id \in AccountId : leaves[id] # Absent /\ Leaf(leaves, id) = leaves[id]
  BY <1>2, AbsentIsNoTreeAccount DEF Leaf
<1> PICK a : a = ApplyTransfer(t, tx)
  OBVIOUS
<1> PICK b : b = ApplyTransfer(leaves, tx)
  OBVIOUS
<1>4. /\ \A id \in AccountId \ {tx.from, tx.to} : a[id] = t[id]
      /\ a[tx.from] = Charged(t[tx.from], tx) /\ a[tx.from] \in TreeAccount
      /\ a[tx.to] = Credited(Leaf(t, tx.to), tx) /\ a[tx.to] \in TreeAccount
  BY TransferOnTree
<1>5. /\ \A id \in AccountId \ {tx.from, tx.to} : b[id] = leaves[id]
      /\ b[tx.from] = Charged(leaves[tx.from], tx)
      /\ b[tx.to] = Credited(leaves[tx.to], tx)
  BY <1>1, <1>2, <1>3, TransferOnTree
<1>6. \A id \in AccountId : Leaf(a, id) = b[id]
  BY DEF Leaves
<1>7. t[tx.from] \in TreeAccount /\ Leaf(t, tx.to) \in TreeAccount /\ Leaf(t, tx.from) = t[tx.from]
  BY <1>1, TreeLeaf DEF Trees
<1>9. a[tx.from] = b[tx.from] /\ a[tx.to] = b[tx.to]
  BY <1>1, <1>4, <1>6, AbsentIsNoTreeAccount DEF Leaf
<1>10. Leaf(t, tx.from) = leaves[tx.from]
  <2> PICK x : x = t[tx.from]
    OBVIOUS
  <2> PICK y : y = leaves[tx.from]
    OBVIOUS
  <2>1. x \in TreeAccount /\ y \in TreeAccount
    BY <1>1, <1>2, <1>7
  <2>2. [x EXCEPT !.balance = @ - (tx.amount + tx.fee), !.nonce = @ + 1]
          = [y EXCEPT !.balance = @ - (tx.amount + tx.fee), !.nonce = @ + 1]
    BY <1>4, <1>5, <1>9 DEF Charged
  <2>3. /\ x.balance - (tx.amount + tx.fee) = y.balance - (tx.amount + tx.fee)
        /\ x.nonce + 1 = y.nonce + 1 /\ x.key = y.key
    BY <2>1, <2>2 DEF TreeAccount
  <2>4. x.balance = y.balance /\ x.nonce = y.nonce
    BY <1>1, <2>1, <2>3 DEF TreeAccount
  <2>5. x = y
    BY <2>1, <2>3, <2>4 DEF TreeAccount
  <2> QED
    BY <1>7, <2>5
<1>11. Leaf(t, tx.to) = leaves[tx.to]
  <2>1. CASE tx.to = ExitId
    BY <1>4, <1>5, <1>9, <2>1 DEF Credited
  <2>2. CASE tx.to # ExitId
    <3> PICK x : x = Leaf(t, tx.to)
      OBVIOUS
    <3> PICK y : y = leaves[tx.to]
      OBVIOUS
    <3>1. x \in TreeAccount /\ y \in TreeAccount
      BY <1>1, <1>2, <1>7
    <3>2. [x EXCEPT !.balance = @ + tx.amount] = [y EXCEPT !.balance = @ + tx.amount]
      BY <1>4, <1>5, <1>9, <2>2 DEF Credited
    <3>3. x.balance + tx.amount = y.balance + tx.amount /\ x.nonce = y.nonce /\ x.key = y.key
      BY <3>1, <3>2 DEF TreeAccount
    <3>4. x.balance = y.balance
      BY <1>1, <3>1, <3>3 DEF TreeAccount
    <3> QED
      BY <3>1, <3>3, <3>4 DEF TreeAccount
  <2> QED
    BY <2>1, <2>2
<1>12. \A id \in AccountId \ {tx.from, tx.to} : Leaf(t, id) = leaves[id]
  <2>1. \A id \in AccountId \ {tx.from, tx.to} : Leaf(t, id) = Leaf(a, id)
    BY <1>4 DEF Leaf
  <2> QED
    BY <1>5, <1>6, <2>1
<1>13. \A id \in AccountId : Leaf(t, id) = leaves[id]
  BY <1>10, <1>11, <1>12
<1> QED
  BY <1>13 DEF Leaves, LeafMaps

\* A deposit the circuit accepts can be undone, when the account was not known
\* before it or has a key.
LEMMA DepositUndone ==
  ASSUME NEW t \in Trees, NEW leaves \in LeafMaps, NEW tx \in DepositTx,
         DepositProvable(t, tx),
         \/ Leaf(t, tx.account) = leaves[tx.account]
         \/ leaves[tx.account] = DefaultAccount
         \/ Leaf(t, tx.account).key # NoKey,
         Leaves(ApplyDeposit(t, tx)) = ApplyDeposit(leaves, tx)
  PROVE  Leaves(t) = leaves
<1>1. tx.account \in AccountId /\ tx.amount \in Nat
  BY DEF DepositTx
<1>2. leaves \in Trees /\ \A id \in AccountId : leaves[id] \in TreeAccount
  BY LedgersAreTrees DEF LeafMaps, TreeAccount, Account
<1>3. Leaf(leaves, tx.account) = leaves[tx.account]
  BY <1>1, <1>2, AbsentIsNoTreeAccount DEF Leaf
<1> PICK a : a = ApplyDeposit(t, tx)
  OBVIOUS
<1> PICK b : b = ApplyDeposit(leaves, tx)
  OBVIOUS
<1> PICK x : x = Leaf(t, tx.account)
  OBVIOUS
<1> PICK y : y = leaves[tx.account]
  OBVIOUS
<1>4. /\ \A id \in AccountId \ {tx.account} : a[id] = t[id]
      /\ a[tx.account] # Absent
      /\ a[tx.account] = IF x.balance = 0
                         THEN [balance |-> tx.amount, nonce |-> 0, key |-> tx.key]
                         ELSE [x EXCEPT !.balance = @ + tx.amount]
  BY DepositOnTree
<1>5. /\ \A id \in AccountId \ {tx.account} : b[id] = leaves[id]
      /\ b[tx.account] = IF y.balance = 0
                         THEN [balance |-> tx.amount, nonce |-> 0, key |-> tx.key]
                         ELSE [y EXCEPT !.balance = @ + tx.amount]
  BY <1>2, <1>3, DepositOnTree
<1>6. \A id \in AccountId : Leaf(a, id) = b[id]
  BY DEF Leaves
<1>7. x \in TreeAccount /\ y \in TreeAccount
  BY <1>1, <1>2, TreeLeaf
<1>8. a[tx.account] = b[tx.account]
  BY <1>1, <1>4, <1>6 DEF Leaf
<1>9. (IF x.balance = 0 THEN tx.amount ELSE x.balance + tx.amount)
        = (IF y.balance = 0 THEN tx.amount ELSE y.balance + tx.amount)
  BY <1>4, <1>5, <1>7, <1>8 DEF TreeAccount
<1>10. x.balance = y.balance
  BY <1>1, <1>7, <1>9 DEF TreeAccount
<1>11. x = y
  <2>1. CASE x.balance = 0
    <3>1. x = DefaultAccount
      BY <2>1 DEF DepositProvable
    <3>2. x = y \/ y = DefaultAccount
      BY <3>1 DEF DefaultAccount
    <3> QED
      BY <3>1, <3>2
  <2>2. CASE x.balance # 0
    <3>1. [x EXCEPT !.balance = @ + tx.amount] = [y EXCEPT !.balance = @ + tx.amount]
      BY <1>4, <1>5, <1>8, <1>10, <2>2
    <3>2. x.nonce = y.nonce /\ x.key = y.key
      BY <1>7, <3>1 DEF TreeAccount
    <3> QED
      BY <1>7, <1>10, <3>2 DEF TreeAccount
  <2> QED
    BY <2>1, <2>2
<1>12. \A id \in AccountId \ {tx.account} : Leaf(t, id) = leaves[id]
  BY <1>4, <1>5, <1>6 DEF Leaf
<1>13. \A id \in AccountId : Leaf(t, id) = leaves[id]
  BY <1>11, <1>12
<1> QED
  BY <1>13 DEF Leaves, LeafMaps

\* What a replay does to a tree, whatever state it is in.
LEMMA ReplayedTree ==
  ASSUME NEW t \in Trees, NEW leaves, NEW block, MadeOn(leaves, block), Replayable(t, block)
  PROVE  /\ Replayed(t, block) \in Trees
         /\ \A id \in AccountId \ Updated(block) : Replayed(t, block)[id] = t[id]
         /\ \A id \in Updated(block) : LooksReplayed(Leaf(Replayed(t, block), id), block)
<1>1. CASE TransferMade(leaves, block)
  <2>1. PICK tx \in TransferTx : block.txs = <<tx>> /\ Updated(block) = {tx.from, tx.to}
    BY <1>1 DEF TransferMade
  <2>2. block.kind = "transfer" /\ block.txs[1] = tx
    BY <1>1, <2>1 DEF TransferMade
  <2>3. t[tx.from] # Absent /\ Replayed(t, block) = ApplyTransfer(t, tx)
    BY <2>2 DEF Replayable, Replayed
  <2> QED
    BY <2>1, <2>2, <2>3, TransferOnTree DEF LooksReplayed
<1>2. CASE DepositMade(leaves, block)
  <2>1. PICK tx \in DepositTx : block.txs = <<tx>> /\ Updated(block) = {tx.account}
    BY <1>2 DEF DepositMade
  <2>2. block.kind = "deposit" /\ block.txs[1] = tx
    BY <1>2, <2>1 DEF DepositMade
  <2>3. /\ Leaf(ApplyDeposit(t, tx), tx.account).key # NoKey
        /\ Replayed(t, block) = ApplyDeposit(t, tx)
    BY <2>2 DEF Replayable, Replayed
  <2>4. PICK u : u = ApplyDeposit(t, tx)
    OBVIOUS
  <2>5. u \in Trees /\ \A id \in AccountId \ {tx.account} : u[id] = t[id]
    BY <2>4, DepositOnTree
  <2>6. \A id \in Updated(block) : LooksReplayed(Leaf(u, id), block)
    BY <2>1, <2>2, <2>3, <2>4 DEF LooksReplayed
  <2> QED
    BY <2>1, <2>3, <2>4, <2>5, <2>6
<1>3. CASE ExitMade(leaves, block)
  <2>1. PICK id \in AccountId : /\ block.txs = <<[account |-> id, amount |-> leaves[id].balance]>>
                                /\ Updated(block) = {id}
    BY <1>3 DEF ExitMade
  <2>2. block.kind = "exit" /\ block.txs[1].account = id
    BY <1>3, <2>1 DEF ExitMade
  <2>3. Replayed(t, block) = ApplyExit(t, id)
    BY <2>2 DEF Replayed
  <2>4. Leaf(ApplyExit(t, id), id) = DefaultAccount
    BY ExitOnTree DEF Leaf
  <2> QED
    BY <2>1, <2>2, <2>3, <2>4, ExitOnTree DEF LooksReplayed
<1> QED
  BY <1>1, <1>2, <1>3 DEF MadeOn

\* When the replay of a block gives its root and the circuit accepts it, the
\* tree was in the state before the block, even if it was not known to be.
LEMMA ReplayConnects ==
  ASSUME NEW t \in Trees, NEW leaves \in LeafMaps, NEW block, MadeOn(leaves, block),
         Replayable(t, block), RootsAgree(t, block), Satisfiable(t, block),
         \A id \in Updated(block) :
           \/ Leaf(t, id) = leaves[id]
           \/ LooksReplayed(Leaf(t, id), block)
           \/ leaves[id] = DefaultAccount /\ block.kind # "exit"
  PROVE  Leaves(t) = leaves
<1>1. CASE TransferMade(leaves, block)
  <2>1. PICK tx \in TransferTx : block.txs = <<tx>> /\ block.root = ApplyTransfer(leaves, tx)
    BY <1>1 DEF TransferMade
  <2>2. block.kind = "transfer" /\ block.txs[1] = tx
    BY <1>1, <2>1 DEF TransferMade
  <2>3. t[tx.from] # Absent /\ Replayed(t, block) = ApplyTransfer(t, tx)
    BY <2>2 DEF Replayable, Replayed
  <2>4. tx.from # tx.to
    BY <2>2 DEF Satisfiable, TransferProvable
  <2>5. Leaves(ApplyTransfer(t, tx)) = ApplyTransfer(leaves, tx)
    BY <2>1, <2>3 DEF RootsAgree
  <2> QED
    BY <2>3, <2>4, <2>5, TransferUndone
<1>2. CASE DepositMade(leaves, block)
  <2>1. PICK tx \in DepositTx : /\ block.txs = <<tx>> /\ Updated(block) = {tx.account}
                                /\ block.root = ApplyDeposit(leaves, tx)
    BY <1>2 DEF DepositMade
  <2>2. block.kind = "deposit" /\ block.txs[1] = tx
    BY <1>2, <2>1 DEF DepositMade
  <2>3. DepositProvable(t, tx) /\ Replayed(t, block) = ApplyDeposit(t, tx)
    BY <2>2 DEF Satisfiable, Replayed
  <2>4. Leaves(ApplyDeposit(t, tx)) = ApplyDeposit(leaves, tx)
    BY <2>1, <2>3 DEF RootsAgree
  <2>5. \/ Leaf(t, tx.account) = leaves[tx.account]
        \/ leaves[tx.account] = DefaultAccount
        \/ Leaf(t, tx.account).key # NoKey
    BY <2>1, <2>2 DEF LooksReplayed
  <2> QED
    BY <2>3, <2>4, <2>5, DepositUndone
<1>3. CASE ExitMade(leaves, block)
  <2>1. PICK id \in AccountId : /\ block.txs = <<[account |-> id, amount |-> leaves[id].balance]>>
                                /\ Updated(block) = {id}
                                /\ block.root = ApplyExit(leaves, id)
    BY <1>3 DEF ExitMade
  <2>2. block.kind = "exit" /\ block.txs[1].account = id
    BY <1>3, <2>1 DEF ExitMade
  <2>3. PICK a : a = ApplyExit(t, id)
    OBVIOUS
  <2>4. Replayed(t, block) = a
    BY <2>2, <2>3 DEF Replayed
  <2>5. a[id] = DefaultAccount /\ \A i \in AccountId \ {id} : a[i] = t[i]
    BY <2>3, ExitOnTree
  <2>6. \A i \in AccountId \ {id} : Leaf(a, i) = Leaf(t, i)
    BY <2>5 DEF Leaf
  <2>7. Leaf(t, id) # DefaultAccount
    <3>1. Leaf(a, id) = DefaultAccount
      BY <2>5 DEF Leaf
    <3>2. Leaf(t, id) = DefaultAccount => \A i \in AccountId : Leaf(a, i) = Leaf(t, i)
      BY <2>6, <3>1
    <3>3. Leaves(a) # Leaves(t)
      BY <2>4 DEF RootsAgree
    <3> QED
      BY <3>2, <3>3 DEF Leaves
  <2>8. Leaf(t, id) = leaves[id]
    BY <2>1, <2>2, <2>7 DEF LooksReplayed
  <2>9. \A i \in AccountId : Leaf(a, i) = ApplyExit(leaves, id)[i]
    BY <2>1, <2>4 DEF RootsAgree, Leaves
  <2>10. \A i \in AccountId \ {id} : ApplyExit(leaves, id)[i] = leaves[i]
    BY LedgersAreTrees, ExitOnTree
  <2>11. \A i \in AccountId : Leaf(t, i) = leaves[i]
    BY <2>6, <2>8, <2>9, <2>10
  <2> QED
    BY <2>11 DEF Leaves, LeafMaps
<1> QED
  BY <1>1, <1>2, <1>3 DEF MadeOn

----------------------------------------------------------------------------
\* The trees and the tables

LEMMA RootType ==
  ASSUME OrderInv, RecoveryInv, NEW n \in 0 .. Committed
  PROVE  RootAfter(n) \in LeafMaps
<1>1. CASE n = 0
  BY <1>1 DEF RootAfter, LeafMaps, DefaultAccount, Account
<1>2. CASE n # 0
  <2>1. n \in 1 .. Committed
    BY <1>2, Counts DEF RecoveryInv
  <2>2. commitOps[n] \in Blocks /\ RootAfter(n) = commitOps[n].root
    BY <1>2, <2>1, Counts DEF RecoveryInv, TablesInv, RootAfter, Committed
  <2> QED
    BY <2>2 DEF Blocks
<1> QED
  BY <1>1, <1>2

\* An account that is not known by a block has a default leaf before it.
LEMMA UnknownIsDefault ==
  ASSUME OrderInv, RecoveryInv, NEW c \in 1 .. Committed + 1, NEW id \in AccountId,
         ~KnownBefore(id, c)
  PROVE  RootAfter(c - 1)[id] = DefaultAccount
<1>1. PICK L : History(L)
  BY DEF RecoveryInv
<1>2. c - 1 \in 0 .. Committed /\ c \in Nat
  BY Counts DEF RecoveryInv
<1>3. \A row \in accountUpdates : row.block \in Nat
  BY DEF RecoveryInv, TablesInv
<1>4. RowsUpTo(id, c - 1) = {}
  BY <1>2, <1>3 DEF RowsUpTo, KnownBefore
<1>5. IsStateAt(id, c - 1, L[c - 1][id])
  BY <1>1, <1>2 DEF History
<1>6. L[c - 1][id] = Absent
  BY <1>4, <1>5 DEF IsStateAt
<1>7. RootAfter(c - 1) = Leaves(L[c - 1])
  BY <1>1, <1>2, RootsOfHistory DEF RecoveryInv
<1> QED
  BY <1>6, <1>7 DEF Leaves, Leaf

LEMMA TouchedIsUpdated ==
  ASSUME RowsInv, NEW n \in 1 .. Committed, NEW id \in AccountId
  PROVE  Touched(id, n) <=> id \in Updated(commitOps[n])
<1>1. Touched(id, n) <=> RowsOfBlock(id, n) # {}
  BY DEF Touched, RowsOfBlock
<1>2. RowsOfBlock(id, n) # {} <=> commitOps[n].updated[id] # Absent
  BY DEF RowsInv
<1> QED
  BY <1>1, <1>2 DEF Updated

\* A tree that is ready for a block, when the block can be proved on it, is in
\* the state before the block.
LEMMA ReadyConnects ==
  ASSUME OrderInv, RecoveryInv, RowsInv, BlocksInv, NEW t \in Trees, NEW n \in 1 .. Committed,
         \A id \in AccountId : TreeRight(t, n, id),
         Replayable(t, commitOps[n]), RootsAgree(t, commitOps[n]), Satisfiable(t, commitOps[n])
  PROVE  Leaves(t) = RootAfter(n - 1)
<1>1. Committed \in Nat /\ n - 1 \in 0 .. Committed /\ n \in 1 .. Committed + 1 /\ n \in Nat
  BY Counts DEF RecoveryInv
<1>2. PICK leaves : leaves = RootAfter(n - 1)
  OBVIOUS
<1>3. PICK block : block = commitOps[n]
  OBVIOUS
<1>4. leaves \in LeafMaps
  BY <1>1, <1>2, RootType
<1>5. /\ MadeOn(leaves, block)
      /\ block.kind = "exit" => KnownBefore(block.txs[1].account, n)
  BY <1>2, <1>3 DEF BlocksInv
<1>6. ASSUME NEW id \in Updated(block)
      PROVE  \/ Leaf(t, id) = leaves[id]
             \/ LooksReplayed(Leaf(t, id), block)
             \/ leaves[id] = DefaultAccount /\ block.kind # "exit"
  <2>1. id \in AccountId
    BY DEF Updated
  <2>2. CASE ~KnownBefore(id, n)
    <3>1. leaves[id] = DefaultAccount
      BY <1>1, <1>2, <2>1, <2>2, UnknownIsDefault
    <3>2. ASSUME block.kind = "exit" PROVE FALSE
      <4>1. ExitMade(leaves, block)
        BY <1>5, <3>2 DEF MadeOn, TransferMade, DepositMade
      <4>2. id = block.txs[1].account
        BY <4>1 DEF ExitMade
      <4> QED
        BY <1>5, <2>2, <3>2, <4>2
    <3> QED
      BY <3>1, <3>2
  <2>3. ASSUME NEW m \in n .. Committed, Touched(id, m),
               \A k \in n .. m - 1 : ~Touched(id, k),
               LooksReplayed(Leaf(t, id), commitOps[m])
        PROVE  LooksReplayed(Leaf(t, id), block)
    <3>1. Touched(id, n)
      BY <1>3, <2>1, TouchedIsUpdated
    <3>2. ~(n \in n .. m - 1)
      BY <2>3, <3>1
    <3>3. m = n
      BY <1>1, <3>2
    <3> QED
      BY <1>3, <2>3, <3>3
  <2>4. TreeRight(t, n, id)
    BY <2>1
  <2> QED
    BY <1>2, <2>2, <2>3, <2>4 DEF TreeRight
<1>7. Replayable(t, block) /\ RootsAgree(t, block) /\ Satisfiable(t, block)
  BY <1>3
<1>8. Leaves(t) = leaves
  BY <1>4, <1>5, <1>6, <1>7, ReplayConnects
<1> QED
  BY <1>2, <1>8

\* A state diff keeps the accounts of a tree right.
LEMMA DiffKeepsRight ==
  ASSUME OrderInv, RecoveryInv, NEW t \in Trees, NEW id \in AccountId,
         NEW from \in 1 .. Committed + 1, NEW to \in 1 .. Committed + 1,
         TreeRight(t, from, id)
  PROVE  TreeRight(Overlaid(t, LoadStateDiff(from, to)), to, id)
<1>1. PICK diff : diff = LoadStateDiff(from, to)
  OBVIOUS
<1>2. PICK u : u = Overlaid(t, diff)
  OBVIOUS
<1>3. u[id] = IF diff[id] = Absent THEN t[id] ELSE diff[id]
  BY <1>2 DEF Overlaid
<1>4. /\ diff[id] # Absent => diff[id] = RootAfter(to - 1)[id]
      /\ diff[id] = Absent /\ KnownBefore(id, to) =>
           /\ RootAfter(to - 1)[id] = RootAfter(from - 1)[id]
           /\ \A row \in accountUpdates : row.id = id => (row.block < from <=> row.block < to)
  BY <1>1, DiffOfAccount
<1>5. Committed \in Nat /\ from \in Nat /\ to \in Nat
  BY Counts DEF RecoveryInv
<1>6. TreeRight(u, to, id)
  <2>1. CASE ~KnownBefore(id, to)
    BY <2>1 DEF TreeRight
  <2>2. CASE diff[id] # Absent
    BY <1>3, <1>4, <2>2 DEF TreeRight, Leaf
  <2>3. CASE KnownBefore(id, to) /\ diff[id] = Absent
    <3>1. Leaf(u, id) = Leaf(t, id)
      BY <1>3, <2>3 DEF Leaf
    <3>2. \A k \in Nat : Touched(id, k) => (k < from <=> k < to)
      BY <1>4, <2>3 DEF Touched
    <3>3. CASE Leaf(t, id) = RootAfter(from - 1)[id]
      BY <1>4, <2>3, <3>1, <3>3 DEF TreeRight
    <3>4. KnownBefore(id, from)
      BY <1>4, <2>3 DEF KnownBefore
    <3>5. ASSUME NEW n \in from .. Committed, Touched(id, n),
                 \A k \in from .. n - 1 : ~Touched(id, k),
                 LooksReplayed(Leaf(t, id), commitOps[n])
          PROVE  TreeRight(u, to, id)
      <4>1. n \in Nat /\ n \in to .. Committed
        BY <1>5, <3>2, <3>5
      <4>2. ASSUME NEW k \in to .. n - 1 PROVE ~Touched(id, k)
        <5>1. k \in Nat
          BY <1>5
        <5>2. Touched(id, k) => k \in from .. n - 1
          BY <1>5, <3>2, <4>1, <5>1
        <5> QED
          BY <3>5, <5>2
      <4> QED
        BY <3>1, <3>5, <4>1, <4>2 DEF TreeRight
    <3> QED
      BY <3>3, <3>4, <3>5 DEF TreeRight
  <2> QED
    BY <2>1, <2>2, <2>3
<1> QED
  BY <1>1, <1>2, <1>6

LEMMA DiffKeepsTree ==
  ASSUME OrderInv, RecoveryInv, NEW t \in Trees,
         NEW from \in 1 .. Committed + 1, NEW to \in 1 .. Committed + 1
  PROVE  Overlaid(t, LoadStateDiff(from, to)) \in Trees
<1>1. \A id \in AccountId : LoadStateDiff(from, to)[id] \in Account \cup {Absent}
  BY DiffOfAccount
<1>2. Account \subseteq TreeAccount
  BY DEF Account, TreeAccount
<1> QED
  BY <1>1, <1>2 DEF Overlaid, Trees

\* A replay writes accounts that look replayed, so the tree is still right
\* for the block, as long as the block is not taken as done.
LEMMA ReplayKeepsRight ==
  ASSUME OrderInv, RecoveryInv, RowsInv, BlocksInv, NEW t, NEW n \in 1 .. Committed,
         TreeFor(t, n), Replayable(t, commitOps[n])
  PROVE  TreeFor(Replayed(t, commitOps[n]), n)
<1>1. Committed \in Nat /\ n \in Nat /\ n \in n .. Committed /\ \A k \in n .. n - 1 : FALSE
  BY Counts DEF RecoveryInv
<1>2. PICK block : block = commitOps[n]
  OBVIOUS
<1>3. PICK leaves : leaves = RootAfter(n - 1)
  OBVIOUS
<1>4. PICK u : u = Replayed(t, block)
  OBVIOUS
<1>5. MadeOn(leaves, block)
  BY <1>2, <1>3 DEF BlocksInv
<1>6. t \in Trees /\ Replayable(t, block)
  BY <1>2 DEF TreeFor
<1>7. /\ u \in Trees
      /\ \A id \in AccountId \ Updated(block) : u[id] = t[id]
      /\ \A id \in Updated(block) : LooksReplayed(Leaf(u, id), block)
  BY <1>4, <1>5, <1>6, ReplayedTree
<1>8. ASSUME NEW id \in AccountId PROVE TreeRight(u, n, id)
  <2>1. CASE id \in Updated(block)
    <3>1. Touched(id, n)
      BY <1>2, <2>1, TouchedIsUpdated
    <3> QED
      BY <1>1, <1>2, <1>7, <2>1, <3>1 DEF TreeRight
  <2>2. CASE id \notin Updated(block)
    <3>1. Leaf(u, id) = Leaf(t, id)
      BY <1>7, <2>2 DEF Leaf
    <3>2. TreeRight(t, n, id)
      BY DEF TreeFor
    <3> QED
      BY <3>1, <3>2 DEF TreeRight
  <2> QED
    BY <2>1, <2>2
<1>9. n \in 1 .. Committed + 1
  BY <1>1
<1> QED
  BY <1>2, <1>4, <1>7, <1>8, <1>9 DEF TreeFor

\* When the roots agree the tree is in the state after the block.
LEMMA ReplayArrives ==
  ASSUME OrderInv, RecoveryInv, RowsInv, BlocksInv, NEW t, NEW n \in 1 .. Committed,
         TreeFor(t, n), Replayable(t, commitOps[n]), RootsAgree(t, commitOps[n])
  PROVE  TreeFor(Replayed(t, commitOps[n]), n + 1)
<1>1. n + 1 \in 1 .. Committed + 1 /\ (n + 1) - 1 = n /\ n # 0
  BY Counts DEF RecoveryInv
<1>2. RootAfter(n) = commitOps[n].root
  BY <1>1, Counts DEF RootAfter, RecoveryInv
<1>3. PICK u : u = Replayed(t, commitOps[n])
  OBVIOUS
<1>4. u \in Trees
  BY <1>3, ReplayKeepsRight DEF TreeFor
<1>5. Leaves(u) = RootAfter(n)
  BY <1>2, <1>3 DEF RootsAgree
<1>6. \A id \in AccountId : Leaf(u, id) = RootAfter(n)[id]
  BY <1>5 DEF Leaves
<1> QED
  BY <1>1, <1>3, <1>4, <1>6 DEF TreeFor, TreeRight

\* What the database gives a new prover is right for the next block.
LEMMA VerifiedTree ==
  ASSUME OrderInv, RecoveryInv
  PROVE  TreeFor(LoadVerifiedState.ledger, LoadVerifiedState.block + 1)
<1>1. PICK L : History(L)
  BY DEF RecoveryInv
<1>2. Committed \in Nat /\ Verified \in 0 .. Committed /\ Verified \in Nat
  BY Counts DEF RecoveryInv
<1>3. PICK t : t = LoadVerifiedState.ledger
  OBVIOUS
<1>4. LoadVerifiedState.block = Verified /\ \A id \in AccountId : t[id] = L[Verified][id]
  BY <1>1, <1>3, VerifiedState DEF RecoveryInv
<1>5. L[Verified] \in Ledgers
  BY <1>1, <1>2 DEF History
<1>6. t = [id \in AccountId |-> t[id]]
  BY <1>3 DEF LoadVerifiedState
<1>7. t \in Trees
  <2>1. \A id \in AccountId : t[id] \in TreeAccount \cup {Absent}
    BY <1>4, <1>5, LedgersAreTrees DEF Trees
  <2> QED
    BY <1>6, <2>1 DEF Trees
<1>8. \A id \in AccountId : Leaf(t, id) = RootAfter(Verified)[id]
  <2>1. RootAfter(Verified) = Leaves(L[Verified])
    BY <1>1, <1>2, RootsOfHistory DEF RecoveryInv
  <2>2. \A id \in AccountId : Leaf(t, id) = Leaf(L[Verified], id)
    BY <1>4 DEF Leaf
  <2> QED
    BY <2>1, <2>2 DEF Leaves
<1>9. Verified + 1 \in 1 .. Committed + 1 /\ (Verified + 1) - 1 = Verified
  BY <1>2
<1> QED
  BY <1>3, <1>4, <1>7, <1>8, <1>9 DEF TreeFor, TreeRight

\* A state diff moves a tree that is right for one block to another.
LEMMA DiffMovesTree ==
  ASSUME OrderInv, RecoveryInv, NEW t, NEW from, NEW to \in 1 .. Committed + 1, TreeFor(t, from)
  PROVE  TreeFor(Overlaid(t, LoadStateDiff(from, to)), to)
<1>1. t \in Trees /\ from \in 1 .. Committed + 1 /\ \A id \in AccountId : TreeRight(t, from, id)
  BY DEF TreeFor
<1>2. PICK u : u = Overlaid(t, LoadStateDiff(from, to))
  OBVIOUS
<1>3. u \in Trees
  BY <1>1, <1>2, DiffKeepsTree
<1>4. \A id \in AccountId : TreeRight(u, to, id)
  BY <1>1, <1>2, DiffKeepsRight
<1> QED
  BY <1>2, <1>3, <1>4 DEF TreeFor

----------------------------------------------------------------------------
\* What a step of the tables leaves of trees and proofs

Lasting ==
  /\ \A t, c : TreeFor(t, c) => TreeFor(t, c)'
  /\ \A proof : Connects(proof) => Connects(proof)'

LEMMA LastingWithout ==
  ASSUME UNCHANGED <<commitOps, accountUpdates>>
  PROVE  Lasting
<1>1. ASSUME NEW t, NEW c, NEW id PROVE TreeRight(t, c, id)' <=> TreeRight(t, c, id)
  <2>1. \A n : Touched(id, n)' <=> Touched(id, n)
    BY DEF Touched
  <2> QED
    BY <2>1, RootsStay DEF TreeRight, LooksReplayed, Leaf
<1>2. ASSUME NEW t, NEW c, TreeFor(t, c) PROVE TreeFor(t, c)'
  BY <1>1, <1>2, RootsStay DEF TreeFor
<1>3. ASSUME NEW proof, Connects(proof) PROVE Connects(proof)'
  BY <1>3, RootsStay DEF Connects
<1> QED
  BY <1>2, <1>3 DEF Lasting

LEMMA LastingCommit ==
  ASSUME OrderInv, RecoveryInv, BlocksInv, CommitBlock
  PROVE  Lasting
<1>1. PICK c : c = Committed
  OBVIOUS
<1>2. PICK block : block = Head(channel)
  OBVIOUS
<1>3. block.number = c + 1
  <2>1. channel \in Seq(Blocks) /\ channel # <<>>
    BY DEF CommitBlock, RecoveryInv, TablesInv
  <2>2. 1 \in 1 .. Len(channel) /\ Head(channel) = channel[1]
    BY <2>1
  <2> QED
    BY <1>1, <1>2, <2>2 DEF BlocksInv
<1>4. /\ c \in Nat /\ Committed' = c + 1
      /\ \A n \in 0 .. c : RootAfter(n)' = RootAfter(n)
      /\ \A i \in 1 .. c : commitOps'[i] = commitOps[i]
      /\ accountUpdates' = accountUpdates \cup UpdateRows(block)
      /\ \A row \in accountUpdates : row.block \in 1 .. c
      /\ \A row \in UpdateRows(block) : row.block = c + 1
  BY <1>1, <1>2, <1>3, CommitKeeps
<1>5. \A id : \A n \in 1 .. c : Touched(id, n)' <=> Touched(id, n)
  BY <1>4 DEF Touched
<1>6. \A id : \A n \in 1 .. c + 1 : KnownBefore(id, n)' <=> KnownBefore(id, n)
  BY <1>4 DEF KnownBefore
<1>7. ASSUME NEW t, NEW n \in 1 .. c + 1, NEW id, TreeRight(t, n, id)
      PROVE  TreeRight(t, n, id)'
  <2>1. CASE Leaf(t, id) = RootAfter(n - 1)[id]
    <3>1. n - 1 \in 0 .. c
      BY <1>4
    <3> QED
      BY <1>4, <2>1, <3>1 DEF TreeRight, Leaf
  <2>2. CASE ~KnownBefore(id, n)
    BY <1>6, <2>2 DEF TreeRight
  <2>3. ASSUME NEW m \in n .. c, Touched(id, m), \A k \in n .. m - 1 : ~Touched(id, k),
               LooksReplayed(Leaf(t, id), commitOps[m])
        PROVE  TreeRight(t, n, id)'
    <3>1. m \in 1 .. c /\ m \in n .. c + 1 /\ \A k \in n .. m - 1 : k \in 1 .. c
      BY <1>4
    <3>2. Touched(id, m)' /\ \A k \in n .. m - 1 : ~Touched(id, k)'
      BY <1>5, <2>3, <3>1
    <3>3. LooksReplayed(Leaf(t, id), commitOps'[m])
      BY <1>4, <2>3, <3>1
    <3> QED
      BY <1>4, <3>1, <3>2, <3>3 DEF TreeRight, Leaf, LooksReplayed
  <2> QED
    BY <1>1, <1>7, <2>1, <2>2, <2>3 DEF TreeRight
<1>8. ASSUME NEW t, NEW n, TreeFor(t, n) PROVE TreeFor(t, n)'
  <2>1. n \in 1 .. c + 1 /\ n \in 1 .. (c + 1) + 1 /\ t \in Trees
    BY <1>1, <1>4, <1>8 DEF TreeFor
  <2>2. \A id \in AccountId : TreeRight(t, n, id)'
    BY <1>7, <1>8, <2>1 DEF TreeFor
  <2> QED
    BY <1>4, <2>1, <2>2 DEF TreeFor
<1>9. ASSUME NEW proof, Connects(proof) PROVE Connects(proof)'
  <2>1. proof.block \in 1 .. c
    BY <1>1, <1>9 DEF Connects
  <2>2. proof.block \in 0 .. c /\ proof.block - 1 \in 0 .. c /\ proof.block \in 1 .. c + 1
    BY <1>4, <2>1
  <2> QED
    BY <1>4, <1>9, <2>2 DEF Connects
<1> QED
  BY <1>8, <1>9 DEF Lasting

----------------------------------------------------------------------------
\* The provers' steps

LEMMA ProversInvInit == Init => ProversInv
<1> SUFFICES ASSUME Init PROVE ProversInv
  OBVIOUS
<1>1. OrderInv /\ RecoveryInv
  BY OrderInvInit, InitRecovery
<1>2. /\ tree = [p \in Worker |-> LoadVerifiedState.ledger]
      /\ current = [p \in Worker |-> LoadVerifiedState.block + 1]
      /\ \A p \in Worker : phase[p] = "idle"
      /\ proofs = {}
  BY DEF Init, ProverInit, EmptyTables
<1>3. ASSUME NEW p \in Worker PROVE ProverInv(p)
  <2>1. tree[p] = LoadVerifiedState.ledger /\ current[p] = LoadVerifiedState.block + 1
    BY <1>2
  <2>2. TreeFor(tree[p], current[p])
    BY <1>1, <2>1, VerifiedTree
  <2> QED
    BY <1>2, <2>2 DEF ProverInv
<1>4. tree = [p \in Worker |-> tree[p]] /\ current = [p \in Worker |-> current[p]]
  BY <1>2
<1> QED
  BY <1>2, <1>3, <1>4 DEF ProversInv

\* The run of a job keeps its block.
LEMMA JobsStay ==
  ASSUME OrderInv, NEW p \in Worker, job[p] # 0, job'[p] = job[p],
         \/ UNCHANGED proverRuns
         \/ \E run : proverRuns' = Append(proverRuns, run)
         \/ \E i \in DOMAIN proverRuns, fresh \in BOOLEAN :
              proverRuns' = [proverRuns EXCEPT ![i].fresh = fresh]
  PROVE  JobBlock(p)' = JobBlock(p)
<1>1. PICK j : j = job[p]
  OBVIOUS
<1>2. proverRuns \in Seq(Run) /\ j \in 1 .. Len(proverRuns)
  BY <1>1 DEF OrderInv
<1>3. proverRuns'[j].block = proverRuns[j].block
  <2>1. CASE UNCHANGED proverRuns
    BY <2>1
  <2>2. CASE \E run : proverRuns' = Append(proverRuns, run)
    <3>1. PICK run : proverRuns' = Append(proverRuns, run)
      BY <2>2
    <3>2. proverRuns'[j] = proverRuns[j]
      BY <1>2, <3>1
    <3> QED
      BY <3>2
  <2>3. ASSUME NEW i \in DOMAIN proverRuns, NEW fresh \in BOOLEAN,
               proverRuns' = [proverRuns EXCEPT ![i].fresh = fresh]
        PROVE  proverRuns'[j].block = proverRuns[j].block
    <3>1. j \in DOMAIN proverRuns /\ proverRuns[j] \in Run
      BY <1>2
    <3>2. proverRuns'[j] = IF j = i THEN [proverRuns[j] EXCEPT !.fresh = fresh] ELSE proverRuns[j]
      BY <2>3, <3>1
    <3> QED
      BY <3>1, <3>2 DEF Run
  <2> QED
    BY <2>1, <2>2, <2>3
<1> QED
  BY <1>1, <1>3 DEF JobBlock

\* A prover that does nothing while others work.
LEMMA ProverWaits ==
  ASSUME Lasting, NEW p \in Worker, ProverInv(p),
         tree'[p] = tree[p], current'[p] = current[p], phase'[p] = phase[p], made'[p] = made[p],
         phase[p] = "ready" => JobBlock(p)' = JobBlock(p)
  PROVE  ProverInv(p)'
<1>1. PICK t : t = tree[p]
  OBVIOUS
<1>2. PICK c : c = current[p]
  OBVIOUS
<1>3. PICK proof : proof = made[p]
  OBVIOUS
<1>4. TreeFor(t, c) /\ (phase[p] = "proved" => Connects(proof))
  BY <1>1, <1>2, <1>3 DEF ProverInv
<1>5. TreeFor(t, c)' /\ (phase[p] = "proved" => Connects(proof)')
  BY <1>4 DEF Lasting
<1>6. TreeFor(tree[p], current[p])' /\ (phase'[p] = "proved" => Connects(made[p])')
  BY <1>1, <1>2, <1>3, <1>5
<1> QED
  BY <1>6 DEF ProverInv

\* A step of one prover.
Alone(p) ==
  /\ \E t, c : /\ tree' = [tree EXCEPT ![p] = t] /\ current' = [current EXCEPT ![p] = c]
               /\ TreeFor(t, c)
               /\ phase'[p] = "ready" => c = JobBlock(p)
  /\ \A q \in Worker \ {p} : phase'[q] = phase[q] /\ job'[q] = job[q] /\ made'[q] = made[q]
  /\ phase'[p] = "proved" => Connects(made'[p])

LEMMA ProverSteps ==
  ASSUME OrderInv, ProversInv, Lasting, NEW p \in Worker, Alone(p),
         phase'[p] = "ready" => JobBlock(p)' = JobBlock(p),
         \A q \in Worker \ {p} : phase[q] = "ready" => JobBlock(q)' = JobBlock(q),
         \A proof \in proofs' : Connects(proof)
  PROVE  ProversInv'
<1>1. PICK t, c : /\ tree' = [tree EXCEPT ![p] = t] /\ current' = [current EXCEPT ![p] = c]
                  /\ TreeFor(t, c)
                  /\ phase'[p] = "ready" => c = JobBlock(p)
  BY DEF Alone
<1>2. tree = [q \in Worker |-> tree[q]] /\ current = [q \in Worker |-> current[q]]
  BY DEF ProversInv
<1>3. /\ tree'[p] = t /\ current'[p] = c
      /\ \A q \in Worker \ {p} : tree'[q] = tree[q] /\ current'[q] = current[q]
      /\ tree' = [q \in Worker |-> tree'[q]] /\ current' = [q \in Worker |-> current'[q]]
  BY <1>1, <1>2
<1>4. ASSUME NEW q \in Worker \ {p} PROVE ProverInv(q)'
  <2>1. ProverInv(q)
    BY DEF ProversInv
  <2>2. phase'[q] = phase[q] /\ made'[q] = made[q]
    BY DEF Alone
  <2> QED
    BY <1>3, <2>1, <2>2, ProverWaits
<1>5. ProverInv(p)'
  <2>1. TreeFor(t, c)'
    BY <1>1 DEF Lasting
  <2>2. TreeFor(tree[p], current[p])'
    BY <1>3, <2>1
  <2>3. phase'[p] = "ready" => current'[p] = JobBlock(p)'
    BY <1>1, <1>3
  <2>4. phase'[p] = "proved" => Connects(made[p])'
    <3>1. PICK proof : proof = made'[p]
      OBVIOUS
    <3>2. phase'[p] = "proved" => Connects(proof)
      BY <3>1 DEF Alone
    <3>3. phase'[p] = "proved" => Connects(proof)'
      BY <3>2 DEF Lasting
    <3> QED
      BY <3>1, <3>3
  <2> QED
    BY <2>2, <2>3, <2>4 DEF ProverInv
<1>6. \A proof \in proofs' : Connects(proof)'
  BY DEF Lasting
<1> QED
  BY <1>3, <1>4, <1>5, <1>6 DEF ProversInv

ChainInvs == OrderInv /\ RecoveryInv /\ RowsInv /\ BlocksInv

\* The block of a job.
LEMMA BlockOfJob ==
  ASSUME OrderInv, RecoveryInv, NEW p \in Worker, phase[p] \in {"fetched", "ready"}
  PROVE  /\ job[p] # 0
         /\ JobBlock(p) \in 1 .. Committed
         /\ LoadCommittedBlock(JobBlock(p)) = commitOps[JobBlock(p)]
<1>1. job[p] # 0
  BY DEF OrderInv
<1>2. JobBlock(p) \in CommittedNumbers
  BY <1>1, JobIsCommitted
<1> QED
  BY <1>1, <1>2, Counts DEF RecoveryInv

LEMMA ReadyHasJob ==
  ASSUME OrderInv
  PROVE  \A q \in Worker : phase[q] = "ready" => job[q] # 0
BY DEF OrderInv

\* A prover whose tree stays.
LEMMA AloneInPlace ==
  ASSUME OrderInv, ProversInv, NEW p \in Worker, UNCHANGED <<tree, current>>,
         \A q \in Worker \ {p} : phase'[q] = phase[q] /\ job'[q] = job[q] /\ made'[q] = made[q],
         phase'[p] = "ready" => current[p] = JobBlock(p),
         phase'[p] = "proved" => Connects(made'[p])
  PROVE  Alone(p)
<1>1. PICK t, c : t = tree[p] /\ c = current[p]
  OBVIOUS
<1>2. TreeFor(t, c)
  BY <1>1 DEF ProversInv, ProverInv
<1>3. tree' = [tree EXCEPT ![p] = t] /\ current' = [current EXCEPT ![p] = c]
  BY <1>1 DEF ProversInv
<1> QED
  BY <1>1, <1>2, <1>3 DEF Alone

LEMMA ProversFetch ==
  ASSUME ChainInvs, ProversInv, Lasting, NEW p \in Worker, FetchJob(p)
  PROVE  ProversInv'
<1>1. OrderInv
  BY DEF ChainInvs
<1>2. PICK run : proverRuns' = Append(proverRuns, run) /\ proofs' = proofs
  BY DEF FetchJob, FetchProverJob
<1>3. phase'[p] = "fetched"
  BY <1>1 DEF FetchJob, OrderInv
<1>4. \A q \in Worker \ {p} : phase'[q] = phase[q] /\ job'[q] = job[q] /\ made'[q] = made[q]
  BY <1>1 DEF FetchJob, OrderInv
<1>5. \A q \in Worker \ {p} : phase[q] = "ready" => JobBlock(q)' = JobBlock(q)
  BY <1>1, <1>2, <1>4, ReadyHasJob, JobsStay
<1>6. Alone(p)
  BY <1>1, <1>3, <1>4, AloneInPlace DEF FetchJob
<1> QED
  BY <1>1, <1>2, <1>3, <1>5, <1>6, ProverSteps DEF ProversInv

\* A step that moves a tree and leaves the tables alone.
LEMMA ProversMove ==
  ASSUME ChainInvs, ProversInv, Lasting, NEW p \in Worker, UNCHANGED tables,
         \A q \in Worker \ {p} : phase'[q] = phase[q] /\ job'[q] = job[q] /\ made'[q] = made[q],
         phase'[p] = "ready" => phase[p] \in {"fetched", "ready"} /\ job'[p] = job[p],
         Alone(p)
  PROVE  ProversInv'
<1>1. OrderInv
  BY DEF ChainInvs
<1>2. UNCHANGED <<proverRuns, proofs>>
  BY DEF tables
<1>3. \A q \in Worker \ {p} : phase[q] = "ready" => JobBlock(q)' = JobBlock(q)
  BY <1>1, <1>2, ReadyHasJob, JobsStay
<1>4. phase'[p] = "ready" => JobBlock(p)' = JobBlock(p)
  <2>1. phase'[p] = "ready" => job[p] # 0
    BY <1>1 DEF OrderInv
  <2> QED
    BY <1>1, <1>2, <2>1, JobsStay
<1> QED
  BY <1>1, <1>2, <1>3, <1>4, ProverSteps DEF ProversInv

LEMMA ProversRewind ==
  ASSUME ChainInvs, ProversInv, NEW p \in Worker, NEW target \in 1 .. Committed + 1,
         Rewind(p, target)
  PROVE  \E t : /\ tree' = [tree EXCEPT ![p] = t] /\ current' = [current EXCEPT ![p] = target]
                /\ TreeFor(t, target)
<1>1. PICK from : from = current[p]
  OBVIOUS
<1>2. PICK t : t = tree[p]
  OBVIOUS
<1>3. TreeFor(t, from)
  BY <1>1, <1>2 DEF ProversInv, ProverInv
<1>4. TreeFor(Overlaid(t, LoadStateDiff(from, target)), target)
  BY <1>3, DiffMovesTree DEF ChainInvs
<1>5. PICK u : u = Overlaid(t, LoadStateDiff(from, target))
  OBVIOUS
<1>6. tree' = [tree EXCEPT ![p] = u] /\ current' = [current EXCEPT ![p] = target]
  BY <1>1, <1>2, <1>5 DEF Rewind, ProversInv
<1> QED
  BY <1>4, <1>5, <1>6

LEMMA ProversFastForward ==
  ASSUME ChainInvs, ProversInv, Lasting, NEW p \in Worker, FastForward(p)
  PROVE  ProversInv'
<1>1. UNCHANGED <<phase, job, made>> /\ phase[p] = "idle" /\ UNCHANGED tables
  BY DEF FastForward
<1>2. PICK target : target = LastVerified + 1
  OBVIOUS
<1>3. target \in 1 .. Committed + 1
  BY <1>2, Counts DEF ChainInvs, RecoveryInv
<1>4. Rewind(p, target)
  BY <1>2 DEF FastForward
<1>5. Alone(p)
  BY <1>1, <1>3, <1>4, ProversRewind DEF Alone
<1> QED
  BY <1>1, <1>5, ProversMove

LEMMA ProversPrepare ==
  ASSUME ChainInvs, ProversInv, Lasting, NEW p \in Worker, PrepareTree(p)
  PROVE  ProversInv'
<1>1. OrderInv /\ RecoveryInv
  BY DEF ChainInvs
<1>2. /\ phase[p] = "fetched" /\ phase'[p] = "ready" /\ UNCHANGED <<job, made, tables>>
      /\ \A q \in Worker \ {p} : phase'[q] = phase[q]
  BY <1>1 DEF PrepareTree, OrderInv, tables
<1>3. JobBlock(p) \in 1 .. Committed
  BY <1>1, <1>2, BlockOfJob
<1>4. PICK target : target = JobBlock(p)
  OBVIOUS
<1>5. CASE current[p] # JobBlock(p)
  <2>1. Rewind(p, target)
    BY <1>4, <1>5 DEF PrepareTree, MoveToJob
  <2>2. target \in 1 .. Committed + 1
    BY <1>1, <1>3, <1>4, Counts DEF RecoveryInv
  <2>3. Alone(p)
    BY <1>2, <1>4, <2>1, <2>2, ProversRewind DEF Alone
  <2> QED
    BY <1>2, <2>3, ProversMove DEF tables
<1>6. CASE current[p] = JobBlock(p)
  <2>1. UNCHANGED <<tree, current>>
    BY <1>6 DEF PrepareTree, MoveToJob
  <2>2. Alone(p)
    BY <1>1, <1>2, <1>6, <2>1, AloneInPlace
  <2> QED
    BY <1>2, <2>2, ProversMove DEF tables
<1> QED
  BY <1>5, <1>6

\* A proof is of the transition of its block.
LEMMA ProversMakeProof ==
  ASSUME ChainInvs, ProversInv, Lasting, NEW p \in Worker, MakeProof(p)
  PROVE  ProversInv'
<1>1. OrderInv /\ RecoveryInv /\ RowsInv /\ BlocksInv
  BY DEF ChainInvs
<1>2. PICK n : n = JobBlock(p)
  OBVIOUS
<1>3. PICK block : block = LoadCommittedBlock(n)
  OBVIOUS
<1>4. PICK t : t = tree[p]
  OBVIOUS
<1>5. /\ phase[p] = "ready" /\ phase'[p] = "proved" /\ UNCHANGED <<job, tables>>
      /\ \A q \in Worker \ {p} : phase'[q] = phase[q]
  BY <1>1 DEF MakeProof, OrderInv, tables
<1>6. n \in 1 .. Committed /\ block = commitOps[n]
  BY <1>1, <1>2, <1>3, <1>5, BlockOfJob
<1>7. Replayable(t, block) /\ RootsAgree(t, block) /\ Satisfiable(t, block)
  BY <1>2, <1>3, <1>4 DEF MakeProof
<1>8. TreeFor(t, n) /\ current[p] = n
  BY <1>2, <1>4, <1>5 DEF ProversInv, ProverInv
<1>9. Leaves(t) = RootAfter(n - 1)
  BY <1>1, <1>6, <1>7, <1>8, ReadyConnects DEF TreeFor
<1>10. PICK u : u = Replayed(t, block)
  OBVIOUS
<1>11. TreeFor(u, n + 1)
  BY <1>1, <1>6, <1>7, <1>8, <1>10, ReplayArrives
<1>12. block.number = n /\ block.root = RootAfter(n)
  <2>1. n # 0
    BY <1>1, <1>6, Counts DEF RecoveryInv
  <2> QED
    BY <1>1, <1>3, <1>6, <2>1 DEF RecoveryInv, TablesInv, RootAfter
<1>13. PICK proof : proof = [block |-> n, initial |-> RootAfter(n - 1), final |-> RootAfter(n)]
  OBVIOUS
<1>14. Connects(proof)
  BY <1>6, <1>13 DEF Connects
<1>15. made' = [made EXCEPT ![p] = proof]
  BY <1>2, <1>3, <1>4, <1>9, <1>12, <1>13 DEF MakeProof
<1>16. made'[p] = proof /\ \A q \in Worker \ {p} : made'[q] = made[q]
  BY <1>1, <1>15 DEF OrderInv
<1>17. tree' = [tree EXCEPT ![p] = u] /\ current' = [current EXCEPT ![p] = n + 1]
  BY <1>2, <1>3, <1>4, <1>8, <1>10 DEF MakeProof, ProversInv
<1>18. Alone(p)
  BY <1>5, <1>11, <1>14, <1>16, <1>17 DEF Alone
<1> QED
  BY <1>5, <1>16, <1>18, ProversMove DEF tables

LEMMA AttemptEnds ==
  ASSUME OrderInv, NEW p \in Worker, EndAttempt(p)
  PROVE  /\ phase'[p] = "idle"
         /\ \A q \in Worker \ {p} : phase'[q] = phase[q] /\ job'[q] = job[q] /\ made'[q] = made[q]
BY DEF OrderInv, EndAttempt

\* A failed replay leaves the tree right, for the block or the next one.
LEMMA ProversFail ==
  ASSUME ChainInvs, ProversInv, Lasting, NEW p \in Worker, ProofFails(p)
  PROVE  ProversInv'
<1>1. OrderInv /\ RecoveryInv /\ RowsInv /\ BlocksInv
  BY DEF ChainInvs
<1>2. PICK n : n = JobBlock(p)
  OBVIOUS
<1>3. PICK block : block = LoadCommittedBlock(n)
  OBVIOUS
<1>4. PICK t : t = tree[p]
  OBVIOUS
<1>5. phase[p] = "ready" /\ EndAttempt(p) /\ UNCHANGED tables
  BY DEF ProofFails
<1>6. n \in 1 .. Committed /\ block = commitOps[n]
  BY <1>1, <1>2, <1>3, <1>5, BlockOfJob
<1>7. TreeFor(t, n) /\ current[p] = n
  BY <1>2, <1>4, <1>5 DEF ProversInv, ProverInv
<1>8. /\ tree' = IF Replayable(t, block) THEN [tree EXCEPT ![p] = Replayed(@, block)] ELSE tree
      /\ current' = IF Replayable(t, block) /\ RootsAgree(t, block)
                    THEN [current EXCEPT ![p] = @ + 1] ELSE current
  BY <1>2, <1>3, <1>4 DEF ProofFails
<1>9. PICK u : u = Replayed(t, block)
  OBVIOUS
<1>10. \E x, c : /\ tree' = [tree EXCEPT ![p] = x] /\ current' = [current EXCEPT ![p] = c]
                 /\ TreeFor(x, c)
  <2>1. CASE ~Replayable(t, block)
    <3>1. tree' = [tree EXCEPT ![p] = t] /\ current' = [current EXCEPT ![p] = n]
      BY <1>4, <1>7, <1>8, <2>1 DEF ProversInv
    <3> QED
      BY <1>7, <3>1
  <2>2. CASE Replayable(t, block) /\ ~RootsAgree(t, block)
    <3>1. tree' = [tree EXCEPT ![p] = u] /\ current' = [current EXCEPT ![p] = n]
      BY <1>4, <1>7, <1>8, <1>9, <2>2 DEF ProversInv
    <3>2. TreeFor(u, n)
      BY <1>1, <1>6, <1>7, <1>9, <2>2, ReplayKeepsRight
    <3> QED
      BY <3>1, <3>2
  <2>3. CASE Replayable(t, block) /\ RootsAgree(t, block)
    <3>1. tree' = [tree EXCEPT ![p] = u] /\ current' = [current EXCEPT ![p] = n + 1]
      BY <1>4, <1>7, <1>8, <1>9, <2>3 DEF ProversInv
    <3>2. TreeFor(u, n + 1)
      BY <1>1, <1>6, <1>7, <1>9, <2>3, ReplayArrives
    <3> QED
      BY <3>1, <3>2
  <2> QED
    BY <2>1, <2>2, <2>3
<1>11. Alone(p)
  BY <1>1, <1>5, <1>10, AttemptEnds DEF Alone
<1> QED
  BY <1>1, <1>5, <1>11, AttemptEnds, ProversMove

LEMMA ProversSave ==
  ASSUME ChainInvs, ProversInv, Lasting, NEW p \in Worker, SaveProof(p)
  PROVE  ProversInv'
<1>1. OrderInv
  BY DEF ChainInvs
<1>2. EndAttempt(p) /\ UNCHANGED <<tree, current, proverRuns>> /\ phase[p] = "proved"
  BY DEF SaveProof, StoreProof, tables
<1>3. Connects(made[p])
  BY <1>2 DEF ProversInv, ProverInv
<1>4. \A proof \in proofs' : proof \in proofs \/ proof = made[p]
  BY DEF SaveProof, StoreProof, tables
<1>5. \A proof \in proofs' : Connects(proof)
  BY <1>3, <1>4 DEF ProversInv
<1>6. Alone(p)
  BY <1>1, <1>2, AttemptEnds, AloneInPlace
<1>7. \A q \in Worker \ {p} : phase[q] = "ready" => JobBlock(q)' = JobBlock(q)
  BY <1>1, <1>2, AttemptEnds, ReadyHasJob, JobsStay
<1>8. phase'[p] = "idle"
  BY <1>1, <1>2, AttemptEnds
<1> QED
  BY <1>1, <1>5, <1>6, <1>7, <1>8, ProverSteps

LEMMA ProversStop ==
  ASSUME ChainInvs, ProversInv, Lasting, NEW p \in Worker, AttemptFails(p) \/ RestartProver(p)
  PROVE  ProversInv'
<1>1. OrderInv /\ RecoveryInv
  BY DEF ChainInvs
<1>2. EndAttempt(p) /\ UNCHANGED tables
  BY DEF AttemptFails, RestartProver
<1>3. CASE AttemptFails(p)
  BY <1>1, <1>2, <1>3, AttemptEnds, AloneInPlace, ProversMove DEF AttemptFails
<1>4. CASE RestartProver(p)
  <2>1. PICK t, c : t = LoadVerifiedState.ledger /\ c = LoadVerifiedState.block + 1
    OBVIOUS
  <2>2. TreeFor(t, c)
    BY <1>1, <2>1, VerifiedTree
  <2>3. tree' = [tree EXCEPT ![p] = t] /\ current' = [current EXCEPT ![p] = c]
    BY <1>4, <2>1 DEF RestartProver
  <2>4. Alone(p)
    BY <1>1, <1>2, <2>2, <2>3, AttemptEnds DEF Alone
  <2> QED
    BY <1>1, <1>2, <2>4, AttemptEnds, ProversMove
<1> QED
  BY <1>3, <1>4

\* Steps that leave trees, phases and proofs alone.
LEMMA ProversWait ==
  ASSUME OrderInv, ProversInv, Lasting, UNCHANGED <<tree, current, phase, job, made, proofs>>,
         \/ UNCHANGED proverRuns
         \/ \E i \in DOMAIN proverRuns, fresh \in BOOLEAN :
              proverRuns' = [proverRuns EXCEPT ![i].fresh = fresh]
  PROVE  ProversInv'
<1>1. ASSUME NEW p \in Worker PROVE ProverInv(p)'
  <2>1. phase[p] = "ready" => JobBlock(p)' = JobBlock(p)
    BY ReadyHasJob, JobsStay
  <2>2. ProverInv(p)
    BY DEF ProversInv
  <2> QED
    BY <2>1, <2>2, ProverWaits
<1>2. \A proof \in proofs' : Connects(proof)'
  BY DEF ProversInv, Lasting
<1> QED
  BY <1>1, <1>2 DEF ProversInv

LEMMA ProversInvNext == ChainInvs /\ ProversInv /\ [Next]_allVars => ProversInv'
<1> SUFFICES ASSUME ChainInvs, ProversInv, [Next]_allVars PROVE ProversInv'
  OBVIOUS
<1>1. OrderInv /\ RecoveryInv /\ BlocksInv
  BY DEF ChainInvs
<1>2. CASE ServerNext /\ UNCHANGED proverVars
  <2>1. UNCHANGED <<proofs, proverRuns>>
    BY <1>2 DEF ServerNext, Committer, MakeTransferBlock, MakeDepositBlock, MakeExitBlock, SendBlock,
                CommitBlock, CommitOperation, ReceiveTimeout, VerifyBlock, VerifyOperation,
                NoMoreProofs, CommitterPanics, Restart, tables
  <2>2. CASE CommitBlock
    BY <1>1, <1>2, <2>1, <2>2, LastingCommit, ProversWait DEF proverVars
  <2>3. CASE ~CommitBlock
    <3>1. UNCHANGED <<commitOps, accountUpdates>>
      BY <1>2, <2>3 DEF ServerNext, Committer, MakeTransferBlock, MakeDepositBlock, MakeExitBlock,
                        SendBlock, ReceiveTimeout, VerifyBlock, VerifyOperation,
                        NoMoreProofs, CommitterPanics, Restart, tables
    <3> QED
      BY <1>1, <1>2, <2>1, <3>1, LastingWithout, ProversWait DEF proverVars
  <2> QED
    BY <2>2, <2>3
<1>3. CASE UNCHANGED allVars
  BY <1>1, <1>3, LastingWithout, ProversWait DEF allVars, tables, proverVars
<1>4. CASE ProverNext
  <2>1. UNCHANGED <<commitOps, accountUpdates>>
    BY <1>4 DEF ProverNext, Attempt, FetchJob, FetchProverJob, FastForward, PrepareTree, MakeProof,
         ProofFails, SaveProof, StoreProof, AttemptFails, RestartProver, Heartbeat,
         UpdateProverJob, LeaseExpires, RunExpires, tables
  <2>2. Lasting
    BY <2>1, LastingWithout
  <2>3. ASSUME NEW p \in Worker, Heartbeat(p) PROVE ProversInv'
    <3>1. job[p] \in DOMAIN proverRuns
      BY <1>1, <2>3 DEF Heartbeat, OrderInv
    <3> QED
      BY <1>1, <2>2, <2>3, <3>1, ProversWait DEF Heartbeat, UpdateProverJob, proverVars
  <2>4. ASSUME NEW run \in DOMAIN proverRuns, LeaseExpires(run) PROVE ProversInv'
    BY <1>1, <2>2, <2>4, ProversWait DEF LeaseExpires, RunExpires
  <2> QED
    BY <1>4, <2>2, <2>3, <2>4, ProversFetch, ProversFastForward, ProversPrepare, ProversMakeProof,
       ProversFail, ProversSave, ProversStop DEF ProverNext, Attempt
<1> QED
  BY <1>2, <1>3, <1>4 DEF Next

LEMMA ProversInvariant == Spec => []ProversInv
<1>1. Init => ChainInvs /\ ProversInv
  BY OrderInvInit, InitRecovery, RowsInvInit, BlocksInvInit, ProversInvInit DEF ChainInvs
<1>2. ChainInvs /\ ProversInv /\ [Next]_allVars => (ChainInvs /\ ProversInv)'
  BY OrderInvNext, RecoveryInvNext, RowsInvNext, BlocksInvNext, ProversInvNext DEF ChainInvs
<1> QED
  BY <1>1, <1>2, PTL DEF Spec

\* Every proof in the database is of the step its block made, from the root of
\* the block before to its own root, whatever jobs were abandoned and whatever
\* an earlier attempt, an error or a diff left in the tree of its prover: a
\* replay on a tree in any other state does not give the root of the block.
THEOREM ProofsAreOfTheirBlocks == Spec => []ProofsConnect
<1>1. ProversInv => ProofsConnect
  BY DEF ProversInv, Connects, ProofsConnect
<1> QED
  BY <1>1, ProversInvariant, PTL

----------------------------------------------------------------------------
\* The types

\* The part of TypeOK that the invariants above do not give.
TypesInv ==
  /\ memory \in Ledgers
  /\ nextBlock \in Nat
  /\ keeper \in {"running", "stopped"}
  /\ committer \in {"receiving", "checking", "stopped"}
  /\ proofs \subseteq Proof
  /\ made \in [Worker -> Proof \cup {NoProof}]
  /\ \A p \in Worker : phase[p] = "proved" => made[p] \in Proof

LEMMA ResumedType ==
  ASSUME OrderInv, RecoveryInv
  PROVE  Resumed.ledger \in Ledgers /\ Resumed.block \in Nat
<1>1. PICK L : History(L)
  BY DEF RecoveryInv
<1>2. Committed \in Nat
  BY Counts DEF RecoveryInv
<1>3. L[Committed] \in Ledgers
  BY <1>1, <1>2 DEF History
<1> QED
  BY <1>1, <1>2, <1>3, CommittedState DEF RecoveryInv, Resumed

LEMMA TypesInvInit == Init => TypesInv
<1> SUFFICES ASSUME Init PROVE TypesInv
  OBVIOUS
<1>1. OrderInv /\ RecoveryInv
  BY OrderInvInit, InitRecovery
<1>2. memory \in Ledgers /\ nextBlock \in Nat
  BY <1>1, ResumedType DEF Init, ServerInit
<1>3. proofs \subseteq Proof
  BY DEF Init, EmptyTables
<1>4. made \in [Worker -> Proof \cup {NoProof}] /\ \A p \in Worker : phase[p] # "proved"
  BY DEF Init, ProverInit
<1> QED
  BY <1>2, <1>3, <1>4 DEF TypesInv, Init, ServerInit

\* The part of it that is the server's.
ServerTypes ==
  /\ memory \in Ledgers
  /\ nextBlock \in Nat
  /\ keeper \in {"running", "stopped"}
  /\ committer \in {"receiving", "checking", "stopped"}

LEMMA SendTypes ==
  ASSUME ServerTypes, NEW kind, NEW txs, NEW newLedger \in Ledgers, NEW touched,
         SendBlock(kind, txs, newLedger, touched)
  PROVE  ServerTypes'
BY DEF ServerTypes, SendBlock

LEMMA ServerTypesNext ==
  ASSUME OrderInv, RecoveryInv, ServerTypes, ServerNext
  PROVE  ServerTypes'
<1>1. ASSUME NEW tx \in Transfers, MakeTransferBlock(tx) PROVE ServerTypes'
  <2>1. ApplyTransfer(memory, tx) \in Ledgers
    BY <1>1, ServerConstants, ApplyTransferType DEF MakeTransferBlock, ServerTypes
  <2> QED
    BY <1>1, <2>1, SendTypes DEF MakeTransferBlock
<1>2. ASSUME NEW tx \in Deposits, MakeDepositBlock(tx) PROVE ServerTypes'
  <2>1. ApplyDeposit(memory, tx) \in Ledgers
    BY <1>2, ServerConstants, ApplyDepositType DEF ServerTypes
  <2> QED
    BY <1>2, <2>1, SendTypes DEF MakeDepositBlock
<1>3. ASSUME NEW id \in Exits, MakeExitBlock(id) PROVE ServerTypes'
  <2>1. ApplyExit(memory, id) \in Ledgers
    BY <1>3, ServerConstants, ApplyExitType DEF ServerTypes
  <2> QED
    BY <1>3, <2>1, SendTypes DEF MakeExitBlock
<1>4. CASE Committer \/ CommitterPanics
  BY <1>4 DEF ServerTypes, Committer, CommitBlock, ReceiveTimeout, VerifyBlock, NoMoreProofs,
              CommitterPanics
<1>5. CASE Restart
  BY <1>5, ResumedType DEF ServerTypes, Restart
<1> QED
  BY <1>1, <1>2, <1>3, <1>4, <1>5 DEF ServerNext

\* The part of it that is the provers'.
MadeTypes ==
  /\ proofs \subseteq Proof
  /\ made \in [Worker -> Proof \cup {NoProof}]
  /\ \A p \in Worker : phase[p] = "proved" => made[p] \in Proof

LEMMA AttemptEndTypes ==
  ASSUME OrderInv, MadeTypes, NEW p \in Worker, EndAttempt(p), proofs' \subseteq Proof
  PROVE  MadeTypes'
<1>1. made' \in [Worker -> Proof \cup {NoProof}]
  BY DEF MadeTypes, EndAttempt
<1>2. phase'[p] = "idle" /\ \A q \in Worker \ {p} : phase'[q] = phase[q] /\ made'[q] = made[q]
  BY AttemptEnds
<1> QED
  BY <1>1, <1>2 DEF MadeTypes, Proof, LeafMaps, Account

LEMMA MadeProofTypes ==
  ASSUME ChainInvs, ProversInv, MadeTypes, NEW p \in Worker, MakeProof(p)
  PROVE  MadeTypes'
<1>1. OrderInv /\ RecoveryInv /\ RowsInv /\ BlocksInv
  BY DEF ChainInvs
<1>2. PICK n : n = JobBlock(p)
  OBVIOUS
<1>3. PICK block : block = LoadCommittedBlock(n)
  OBVIOUS
<1>4. PICK t : t = tree[p]
  OBVIOUS
<1>5. phase[p] = "ready" /\ UNCHANGED tables
  BY DEF MakeProof
<1>6. n \in 1 .. Committed /\ block = commitOps[n]
  BY <1>1, <1>2, <1>3, <1>5, BlockOfJob
<1>7. Replayable(t, block) /\ RootsAgree(t, block) /\ Satisfiable(t, block)
  BY <1>2, <1>3, <1>4 DEF MakeProof
<1>8. TreeFor(t, n)
  BY <1>2, <1>4, <1>5 DEF ProversInv, ProverInv
<1>9. Leaves(t) = RootAfter(n - 1)
  BY <1>1, <1>6, <1>7, <1>8, ReadyConnects DEF TreeFor
<1>10. n - 1 \in 0 .. Committed
  BY <1>1, <1>6, Counts DEF RecoveryInv
<1>11. Leaves(t) \in LeafMaps
  BY <1>1, <1>9, <1>10, RootType
<1>12. block.number \in Nat /\ block.root \in LeafMaps
  <2>1. block \in Blocks
    BY <1>1, <1>6 DEF RecoveryInv, TablesInv, Committed
  <2> QED
    BY <2>1 DEF Blocks
<1>13. PICK proof : proof = [block |-> block.number, initial |-> Leaves(t), final |-> block.root]
  OBVIOUS
<1>14. proof \in Proof
  BY <1>11, <1>12, <1>13 DEF Proof
<1>15. made' = [made EXCEPT ![p] = proof] /\ phase' = [phase EXCEPT ![p] = "proved"]
  BY <1>2, <1>3, <1>4, <1>13 DEF MakeProof
<1>16. \A q \in Worker \ {p} : phase'[q] = phase[q] /\ made'[q] = made[q]
  BY <1>1, <1>15 DEF OrderInv
<1>17. made' \in [Worker -> Proof \cup {NoProof}] /\ made'[p] = proof
  BY <1>14, <1>15 DEF MadeTypes
<1> HIDE DEF Proof
<1> QED
  BY <1>5, <1>14, <1>16, <1>17 DEF MadeTypes, tables

LEMMA MadeTypesNext ==
  ASSUME ChainInvs, ProversInv, MadeTypes, ProverNext
  PROVE  MadeTypes'
<1>1. OrderInv
  BY DEF ChainInvs
<1>2. ASSUME NEW p \in Worker, FetchJob(p) PROVE MadeTypes'
  <2>1. /\ UNCHANGED <<made, proofs>> /\ phase'[p] = "fetched"
        /\ \A q \in Worker \ {p} : phase'[q] = phase[q]
    BY <1>1, <1>2 DEF FetchJob, FetchProverJob, OrderInv
  <2> QED
    BY <2>1 DEF MadeTypes
<1>3. ASSUME NEW p \in Worker, FastForward(p) \/ Heartbeat(p) PROVE MadeTypes'
  BY <1>3 DEF MadeTypes, FastForward, Heartbeat, UpdateProverJob, proverVars, tables
<1>4. ASSUME NEW p \in Worker, PrepareTree(p) PROVE MadeTypes'
  <2>1. /\ UNCHANGED <<made, proofs>> /\ phase'[p] = "ready"
        /\ \A q \in Worker \ {p} : phase'[q] = phase[q]
    BY <1>1, <1>4 DEF PrepareTree, tables, OrderInv
  <2> QED
    BY <2>1 DEF MadeTypes
<1>5. ASSUME NEW p \in Worker, ProofFails(p) \/ AttemptFails(p) \/ RestartProver(p)
      PROVE  MadeTypes'
  <2>1. EndAttempt(p) /\ UNCHANGED proofs
    BY <1>5 DEF ProofFails, AttemptFails, RestartProver, tables
  <2> QED
    BY <1>1, <2>1, AttemptEndTypes DEF MadeTypes
<1>6. ASSUME NEW p \in Worker, SaveProof(p) PROVE MadeTypes'
  <2>1. EndAttempt(p) /\ (UNCHANGED proofs \/ proofs' = proofs \cup {made[p]})
    BY <1>6 DEF SaveProof, StoreProof, tables
  <2>2. made[p] \in Proof
    BY <1>6 DEF SaveProof, MadeTypes
  <2> QED
    BY <1>1, <2>1, <2>2, AttemptEndTypes DEF MadeTypes
<1>7. ASSUME NEW run \in DOMAIN proverRuns, LeaseExpires(run) PROVE MadeTypes'
  BY <1>7 DEF MadeTypes, LeaseExpires, RunExpires
<1> QED
  BY <1>2, <1>3, <1>4, <1>5, <1>6, <1>7, MadeProofTypes DEF ProverNext, Attempt

LEMMA TypesInvNext == ChainInvs /\ ProversInv /\ TypesInv /\ [Next]_allVars => TypesInv'
<1> SUFFICES ASSUME ChainInvs, ProversInv, ServerTypes, MadeTypes, [Next]_allVars
             PROVE  ServerTypes' /\ MadeTypes'
  BY DEF TypesInv, ServerTypes, MadeTypes
<1>1. CASE ServerNext /\ UNCHANGED proverVars
  <2>1. UNCHANGED proofs
    BY <1>1 DEF ServerNext, Committer, MakeTransferBlock, MakeDepositBlock, MakeExitBlock, SendBlock,
                CommitBlock, CommitOperation, ReceiveTimeout, VerifyBlock, VerifyOperation,
                NoMoreProofs, CommitterPanics, Restart, tables
  <2>2. MadeTypes'
    BY <1>1, <2>1 DEF MadeTypes, proverVars
  <2> QED
    BY <1>1, <2>2, ServerTypesNext DEF ChainInvs
<1>2. CASE ProverNext /\ UNCHANGED serverVars
  <2>1. ServerTypes'
    BY <1>2 DEF ServerTypes, serverVars
  <2> QED
    BY <1>2, <2>1, MadeTypesNext
<1>3. CASE UNCHANGED allVars
  BY <1>3 DEF ServerTypes, MadeTypes, allVars, tables, serverVars, proverVars
<1> QED
  BY <1>1, <1>2, <1>3 DEF Next

LEMMA WiderSeq ==
  ASSUME NEW S, NEW T, \A x \in S : x \in T, NEW s \in Seq(S)
  PROVE  s \in Seq(T)
OBVIOUS

\* The invariants together give every type.
LEMMA TypesCombine ==
  ASSUME ChainInvs, ProversInv, TypesInv
  PROVE  TypeOK
<1>1. OrderInv /\ RecoveryInv
  BY DEF ChainInvs
<1>2. Committed \in Nat /\ CommittedNumbers = 1 .. Committed
  BY <1>1, Counts DEF RecoveryInv
<1>3. commitOps \in Seq(Blocks) /\ channel \in Seq(Blocks) /\ verifyOps \in Seq(Nat)
  BY <1>1 DEF OrderInv, RecoveryInv, TablesInv
<1>4. accountUpdates \subseteq [id : AccountId, block : Nat, account : Account]
  <2>1. accountUpdates \subseteq [id : AccountId, block : 1 .. Committed, account : Account]
    BY <1>1 DEF RecoveryInv, TablesInv
  <2> QED
    BY <1>2, <2>1
<1>5. accounts \in [AccountId -> [lastBlock : Nat, account : Account] \cup {Absent}]
  <2>1. ASSUME NEW id \in AccountId
        PROVE  accounts[id] \in [lastBlock : Nat, account : Account] \cup {Absent}
    <3>1. IsVerified(id, Verified)
      BY <1>1 DEF RecoveryInv, TablesInv
    <3>2. CASE accounts[id] = Absent
      BY <3>2
    <3>3. ASSUME NEW row \in accountUpdates,
                 accounts[id] = [lastBlock |-> row.block, account |-> row.account]
          PROVE  accounts[id] \in [lastBlock : Nat, account : Account]
      <4>1. row.block \in Nat /\ row.account \in Account
        BY <1>4
      <4> QED
        BY <3>3, <4>1
    <3> QED
      BY <3>1, <3>2, <3>3 DEF IsVerified, RowsUpTo
  <2>2. accounts = [id \in AccountId |-> accounts[id]]
    BY <1>1 DEF RecoveryInv, TablesInv
  <2> QED
    BY <2>1, <2>2
<1>6. proverRuns \in Seq([block : Nat, worker : Worker, fresh : BOOLEAN])
  <2>1. proverRuns \in Seq(Run)
    BY <1>1 DEF OrderInv
  <2>2. \A run \in Run : run \in [block : Nat, worker : Worker, fresh : BOOLEAN]
    BY <1>2 DEF Run
  <2> QED
    BY <2>1, <2>2, WiderSeq
<1>7. lastVerified \in Nat
  BY <1>3 DEF OrderInv, ChainInvs
<1>8. current \in [Worker -> Nat]
  <2>1. \A p \in Worker : current[p] \in 1 .. Committed + 1
    BY DEF ProversInv, ProverInv, TreeFor
  <2>2. current = [p \in Worker |-> current[p]]
    BY DEF ProversInv
  <2> QED
    BY <1>2, <2>1, <2>2
<1>9. phase \in [Worker -> Phases] /\ job \in [Worker -> 0 .. Len(proverRuns)]
  <2>1. job \in [Worker -> Nat] /\ \A p \in Worker : job[p] \in 0 .. Len(proverRuns)
    BY <1>1 DEF OrderInv
  <2> QED
    BY <1>1, <2>1 DEF OrderInv
<1> QED
  BY <1>3, <1>4, <1>5, <1>6, <1>7, <1>8, <1>9 DEF TypeOK, TypesInv

\* Every table and every variable of the processes keeps its type, for every
\* set of requests and any number of blocks, provers, stops and failures:
\* nothing the server or a prover reads back is out of range, and no ledger
\* in memory is overdrawn.
THEOREM TablesTyped == Spec => []TypeOK
<1>1. Init => ChainInvs /\ ProversInv /\ TypesInv
  BY OrderInvInit, InitRecovery, RowsInvInit, BlocksInvInit, ProversInvInit, TypesInvInit
     DEF ChainInvs
<1>2. ChainInvs /\ ProversInv /\ TypesInv /\ [Next]_allVars => (ChainInvs /\ ProversInv /\ TypesInv)'
  BY OrderInvNext, RecoveryInvNext, RowsInvNext, BlocksInvNext, ProversInvNext, TypesInvNext
     DEF ChainInvs
<1>3. ChainInvs /\ ProversInv /\ TypesInv => TypeOK
  BY TypesCombine
<1> QED
  BY <1>1, <1>2, <1>3, PTL DEF Spec

=============================================================================
