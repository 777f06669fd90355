------------------------------ MODULE SubmitTx ------------------------------
(***************************************************************************)
(* The handler of submitted transfers (handle_submit_tx in                 *)
(* server/src/api_server.rs) and the table of nonce futures it shares      *)
(* between its threads (server/src/nonce_futures.rs).  A transfer that     *)
(* comes before its turn waits, for a limited time, until the handler of   *)
(* an earlier transfer of the same account announces the next nonce.       *)
(*                                                                         *)
(* Entries of different accounts never touch, so one account stands for    *)
(* all.  The state keeper is reduced to the account's nonce.               *)
(***************************************************************************)
EXTENDS Naturals, Sequences, FiniteSets

CONSTANTS
  Client,       \* concurrent requests, each served by a thread of its own
  MaxNonce,     \* bound on the nonces clients submit
  StartNonce,   \* the account's nonce when the server starts
  MaxResets,    \* bound on resets of the account by an exit and a deposit
  MaxGivenUp,   \* bound on handlers that stop waiting for the reply
  NoRecord, NoCell

ASSUME SubmitConstants ==
  /\ MaxNonce \in Nat /\ StartNonce \in Nat
  /\ MaxResets \in Nat /\ MaxGivenUp \in Nat
  /\ NoRecord \notin Nat /\ NoCell \notin Nat

VARIABLES
  keeperNonce,  \* the nonce of the account in the state keeper
  requests,     \* AddTransferTx requests under way to the state keeper
  applied,      \* the transfers the keeper applied: <<client, nonce>>
  nextNonce,    \* nonces[account], or NoRecord
  futures,      \* futures[(account, n)]: a cell, or NoCell
  tasks,        \* tasks[(account, n)]: the cell to be woken, or NoCell
  cells,        \* the shared futures ever made: the nonce, and the state
  phase,        \* where each handler is
  nonce,        \* the nonce of each handler's transfer
  cell,         \* the future each handler waits for
  resets,
  late,         \* who stopped waiting for the state keeper's reply, and
  wentBack      \* an announcement has moved the record back: nothing the code has

vars == <<keeperNonce, requests, applied, nextNonce, futures, tasks, cells,
          phase, nonce, cell, resets, late, wentBack>>

tableVars == <<nextNonce, futures, tasks, cells, wentBack>>
keeperVars == <<keeperNonce, requests, applied, resets>>

Nonces == 0 .. MaxNonce

\* The answer is a TransactionResponse: "accepted" if its field accepted is
\* true, or "refused" with the text of an error.
Ended == {"accepted", "refused"}

Phases == {"new", "early", "waiting", "ready", "sent", "confirmed"} \cup Ended

Init ==
  /\ keeperNonce = StartNonce
  /\ requests = <<>>
  /\ applied = {}
  /\ nextNonce = NoRecord
  /\ futures = [n \in Nonces |-> NoCell]
  /\ tasks = [n \in Nonces |-> NoCell]
  /\ cells = <<>>
  /\ phase = [c \in Client |-> "new"]
  /\ nonce \in [Client -> Nonces]
  /\ cell = [c \in Client |-> NoCell]
  /\ resets = 0
  /\ late = {}
  /\ wentBack = FALSE

Goto(c, p) == phase' = [phase EXCEPT ![c] = p]

----------------------------------------------------------------------------
\* The handler, up to the wait

\* Rate limit, validation, GetAccount or the signature ends the request.
Refuse(c) ==
  /\ phase[c] \in {"new", "ready"}
  /\ Goto(c, "refused")
  /\ UNCHANGED <<nonce, cell, late>> /\ UNCHANGED tableVars /\ UNCHANGED keeperVars

\* GetAccount: a transfer whose nonce is the account's need not wait.
LookUp(c) ==
  /\ phase[c] = "new"
  /\ Goto(c, IF nonce[c] = keeperNonce THEN "ready" ELSE "early")
  /\ UNCHANGED <<nonce, cell, late>> /\ UNCHANGED tableVars /\ UNCHANGED keeperVars

\* nonce_await: the first request of an account makes its own nonce the next
\* one; the answer is immediate, or a future shared by all that wait for
\* this nonce.
Known == IF nextNonce = NoRecord THEN 0 ELSE nextNonce

NonceAwait(c) ==
  LET n == nonce[c] IN
  /\ phase[c] = "early"
  /\ nextNonce' = IF nextNonce = NoRecord THEN n ELSE nextNonce
  /\ \/ /\ Known >= n
        /\ Goto(c, IF Known > n THEN "refused" ELSE "ready")
        /\ UNCHANGED <<futures, cells, cell>>
     \/ /\ Known < n
        /\ futures[n] # NoCell
        /\ cell' = [cell EXCEPT ![c] = futures[n]]
        /\ Goto(c, "waiting")
        /\ UNCHANGED <<futures, cells>>
     \/ /\ Known < n
        /\ futures[n] = NoCell
        /\ cells' = Append(cells, [nonce |-> n, state |-> "unpolled"])
        /\ futures' = [futures EXCEPT ![n] = Len(cells')]
        /\ cell' = [cell EXCEPT ![c] = Len(cells')]
        /\ Goto(c, "waiting")
  /\ UNCHANGED <<tasks, wentBack, nonce, late>> /\ UNCHANGED keeperVars

\* NonceReadyFuture::poll, called when the shared future is first polled and
\* each time its task was notified.
Poll(c) ==
  LET n == nonce[c] IN
  /\ phase[c] = "waiting"
  /\ cells[cell[c]].state \in {"unpolled", "notified"}
  /\ \/ /\ Known >= n
        /\ cells' = [cells EXCEPT ![cell[c]].state = IF Known > n THEN "failed" ELSE "ready"]
        /\ UNCHANGED tasks
     \/ /\ Known < n
        /\ cells' = [cells EXCEPT ![cell[c]].state = "pending"]
        /\ tasks' = [tasks EXCEPT ![n] = cell[c]]
  /\ UNCHANGED <<nextNonce, futures, wentBack, phase, nonce, cell, late>>
  /\ UNCHANGED keeperVars

\* Everyone who shares a future gets its result.
Resume(c) ==
  /\ phase[c] = "waiting"
  /\ cells[cell[c]].state \in {"ready", "failed"}
  /\ Goto(c, IF cells[cell[c]].state = "ready" THEN "ready" ELSE "refused")
  /\ UNCHANGED <<nonce, cell, late>> /\ UNCHANGED tableVars /\ UNCHANGED keeperVars

\* NONCE_ORDER_TIMEOUT: the table keeps the future and its task.
\* Slips: there is no timeout; it is one for all that follows the wait, too.
SlipNoTimeout(c) == phase[c] = "waiting" /\ cells[cell[c]].state = "failed"

SlipTimeoutForAll(c) == phase[c] \in {"waiting", "ready", "sent"}

MayTimeOut(c) == phase[c] = "waiting"

NonceTimeout(c) ==
  /\ MayTimeOut(c)
  /\ Goto(c, "refused")
  /\ UNCHANGED <<nonce, cell, late>> /\ UNCHANGED tableVars /\ UNCHANGED keeperVars

----------------------------------------------------------------------------
\* The handler, from the state keeper to the reply

AddTransferTx(c) ==
  /\ phase[c] = "ready"
  /\ requests' = Append(requests, c)
  /\ Goto(c, "sent")
  /\ UNCHANGED <<keeperNonce, applied, resets, nonce, cell, late>> /\ UNCHANGED tableVars

\* The state keeper applies the transfer only if its nonce is the account's.
\* Slip: a later nonce is good enough.
SlipNonceAhead(c) == nonce[c] >= keeperNonce

NonceMatches(c) == nonce[c] = keeperNonce

\* The reply, if anybody still listens for it.
Reply(c, p) == phase' = IF phase[c] = "sent" THEN [phase EXCEPT ![c] = p] ELSE phase

\* It may refuse any transfer: for its nonce, the balance or the last block.
KeeperServes ==
  /\ requests # <<>>
  /\ requests' = Tail(requests)
  /\ LET c == Head(requests) IN
     \/ /\ NonceMatches(c)
        /\ keeperNonce' = keeperNonce + 1
        /\ applied' = applied \cup {<<c, nonce[c]>>}
        /\ Reply(c, "confirmed")
     \/ /\ Reply(c, "refused")
        /\ UNCHANGED <<keeperNonce, applied>>
  /\ UNCHANGED <<resets, nonce, cell, late>> /\ UNCHANGED tableVars

\* The reply does not come within 500 ms: the answer is that of a refusal, but
\* for the text of the error, whatever becomes of the request.
ReplyTimeout(c) ==
  /\ phase[c] = "sent"
  /\ Cardinality(late) < MaxGivenUp
  /\ late' = late \cup {c}
  /\ Goto(c, "refused")
  /\ UNCHANGED <<nonce, cell>> /\ UNCHANGED tableVars /\ UNCHANGED keeperVars

\* set_next_nonce, then the response: the tasks of all nonces from the one
\* known before to the new one are notified and forgotten.
\* Slip: the tasks of the new nonce itself are left asleep.
SlipBelowNew(old, new) == {n \in Nonces : old <= n /\ n < new /\ tasks[n] # NoCell}

Notified(old, new) == {n \in Nonces : old <= n /\ n <= new /\ tasks[n] # NoCell}

\* Slip: the notified tasks stay in the table.
SlipKeepTasks(woken) == tasks

TasksWithout(woken) == [n \in Nonces |-> IF n \in woken THEN NoCell ELSE tasks[n]]

SetNextNonce(c) ==
  LET new   == nonce[c] + 1
      old   == IF nextNonce = NoRecord THEN new ELSE nextNonce
      woken == Notified(old, new)
  IN
  /\ phase[c] = "confirmed"
  /\ nextNonce' = new
  /\ wentBack' = (wentBack \/ new < old)
  /\ cells' = [i \in DOMAIN cells |->
                 IF \E n \in woken : tasks[n] = i
                 THEN [cells[i] EXCEPT !.state = IF @ = "pending" THEN "notified" ELSE @]
                 ELSE cells[i]]
  /\ tasks' = TasksWithout(woken)
  /\ futures' = [n \in Nonces |-> IF n \in woken THEN NoCell ELSE futures[n]]
  /\ Goto(c, "accepted")
  /\ UNCHANGED <<nonce, cell, late>> /\ UNCHANGED keeperVars

\* An exit or a deposit into the emptied account sets its nonce to 0.
ResetAccount ==
  /\ resets < MaxResets
  /\ keeperNonce' = 0
  /\ resets' = resets + 1
  /\ UNCHANGED <<requests, applied, phase, nonce, cell, late>> /\ UNCHANGED tableVars

Handle(c) ==
  \/ LookUp(c) \/ NonceAwait(c) \/ Poll(c) \/ Resume(c)
  \/ AddTransferTx(c) \/ SetNextNonce(c)

Next ==
  \/ \E c \in Client : Handle(c) \/ Refuse(c) \/ NonceTimeout(c) \/ ReplyTimeout(c)
  \/ KeeperServes
  \/ ResetAccount

Spec == Init /\ [][Next]_vars

\* Threads run, timers fire, and the state keeper serves its requests.
Fairness ==
  /\ \A c \in Client : WF_vars(Handle(c)) /\ WF_vars(NonceTimeout(c))
  /\ WF_vars(KeeperServes)

FairSpec == Spec /\ Fairness

----------------------------------------------------------------------------
(***************************************************************************)
(* Properties                                                              *)
(***************************************************************************)

CellStates == {"unpolled", "pending", "notified", "ready", "failed"}

\* Every variable holds a value of its type, the table points to cells made
\* for the nonce they are filed under, and a task is one nobody has woken.
TypeOK ==
  /\ keeperNonce \in Nat
  /\ requests \in Seq(Client)
  /\ applied \subseteq Client \X Nonces
  /\ nextNonce \in Nat \cup {NoRecord}
  /\ cells \in Seq([nonce : Nonces, state : CellStates])
  /\ \A n \in Nonces : \A i \in {futures[n], tasks[n]} \ {NoCell} :
       i \in DOMAIN cells /\ cells[i].nonce = n
  /\ \A n \in Nonces : tasks[n] # NoCell => cells[tasks[n]].state = "pending"
  /\ phase \in [Client -> Phases]
  /\ nonce \in [Client -> Nonces]
  /\ \A c \in Client : phase[c] = "waiting" => cell[c] \in DOMAIN cells
  /\ wentBack \in BOOLEAN
  /\ late \subseteq {c \in Client : phase[c] = "refused"}

\* What a client may conclude from its answer.  An accepted transfer was
\* applied.  Of a refused one the client knows less: it may have been applied
\* all the same, or may still be, but only if the handler stopped waiting for
\* the reply of the state keeper; never by a timeout of the wait for the nonce,
\* a refusal of the state keeper or an answer shared with other requests.
OnlyLateRepliesMislead ==
  \A c \in Client :
    /\ phase[c] = "accepted" => <<c, nonce[c]>> \in applied
    /\ phase[c] = "refused" /\ c \notin late =>
         /\ <<c, nonce[c]>> \notin applied
         /\ \A i \in DOMAIN requests : requests[i] # c

\* Between two resets of the account no nonce is used twice and none skipped.
NoncesInOrder ==
  resets = 0 =>
    /\ \A c, d \in Client : \A n \in Nonces :
         <<c, n>> \in applied /\ <<d, n>> \in applied => c = d
    /\ \A n \in Nonces : (\E c \in Client : <<c, n>> \in applied) <=>
                         StartNonce <= n /\ n < keeperNonce

\* Every client gets an answer, although notifications can get lost and
\* requests can come in any order.
EveryoneAnswered == \A c \in Client : <>(phase[c] \in Ended)

\* Nobody sleeps through its turn: unless an announcement has moved the record
\* back, a transfer that sleeps waits for a nonce that was not announced yet,
\* although requests share futures and a woken one may have to register again.
\* Once handlers announce in the reverse order of their confirmations it may
\* miss its turn, and only the timeout ends its wait.
SleepersAreAhead ==
  ~wentBack =>
    \A c \in Client :
      phase[c] = "waiting" /\ cells[cell[c]].state = "pending" => nonce[c] > Known

=============================================================================
