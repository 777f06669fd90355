-------------------------------- MODULE Api --------------------------------
(***************************************************************************)
(* The part of the HTTP server (server/src/api_server.rs) that deposits    *)
(* into accounts and exits them, with the map from addresses to account    *)
(* ids it keeps in memory and the queue of requests to the state keeper    *)
(* (tx_for_state).  The handlers run in several threads: the map is behind *)
(* a lock, but reading it, sending the request and writing it are separate *)
(* steps.  Before it serves, the thread of the server looks for the        *)
(* padding account in the database.                                        *)
(*                                                                         *)
(* The keeper takes deposits and exits in the order they were sent.        *)
(* Transfers have a way of their own (module SubmitTx) and may be applied  *)
(* before deposits and exits that wait behind an open batch.  There are no *)
(* provers, so that the committer never has anything to verify.            *)
(***************************************************************************)
EXTENDS Server

CONSTANTS
  Handler,      \* the threads that serve requests
  Address,      \* addresses, spelled as requests spell them
  Lower,        \* upper_to_lower: an address in lower case
  IdOf,         \* the account id in an address: 24 of its bits, so that two
                \* addresses may share one
  PaddingId, PaddingKey,   \* the account of add_paddingAccount
  Amount,       \* amounts of deposits
  NoRequest,    \* what a handler without work has at hand
  MaxQueued     \* bound on waiting requests

ASSUME ApiConstants ==
  /\ Lower \in [Address -> Address]
  /\ \A a \in Address : Lower[Lower[a]] = Lower[a]
  /\ IdOf \in [Address -> AccountId]
  /\ \A a \in Address : IdOf[Lower[a]] = IdOf[a]
  /\ PaddingId \in AccountId /\ PaddingKey \in Key
  /\ Amount \subseteq Nat
  /\ NoRequest \notin Address

VARIABLES
  book,        \* Accounts: the ids of the addresses that deposited
  requests,    \* tx_for_state, with the queue of the keeper
  startup,     \* "pending", then "checked" or, without a database, "unchecked"
  phase,       \* what a handler did last: "idle", "inserted" the address of a
               \* deposit, "found" that of an exit, "sent" the exit
  address,     \* the address it works on
  request,     \* the request it is going to send
  depositors,  \* addresses whose deposits were sent since the last exit of
               \* the account was: nothing the code has
  raced        \* addresses that were deposited for and exited by two
               \* handlers at once: nothing the code has

handlerVars == <<phase, address, request>>

apiVars == <<book, requests, startup, handlerVars, depositors, raced>>

allVars == <<tables, serverVars, apiVars>>

DepositRequest(tx) == [kind |-> "deposit", tx |-> tx]

\* The amount is filled in by the keeper.
ExitRequest(id) == [kind |-> "exit", tx |-> [account |-> id, amount |-> 0]]

PaddingDeposit == DepositRequest([account |-> PaddingId, amount |-> 0, key |-> PaddingKey])

ApiInit ==
  /\ book = [a \in {} |-> 0]
  /\ requests = <<>>
  /\ startup = "pending"
  /\ phase = [h \in Handler |-> "idle"]
  /\ address = [h \in Handler |-> NoRequest]
  /\ request = [h \in Handler |-> NoRequest]
  /\ depositors = [id \in AccountId |-> {}]
  /\ raced = {}

Init == EmptyTables /\ ServerInit /\ ApiInit

----------------------------------------------------------------------------
\* Sending

\* The channel is open as long as the keeper runs.
Send(r) == requests' = Append(requests, r)

KeeperListens == keeper = "running"

Room == Len(requests) < MaxQueued

HandlerAt(h, step, a, r) ==
  /\ phase' = [phase EXCEPT ![h] = step]
  /\ address' = [address EXCEPT ![h] = a]
  /\ request' = [request EXCEPT ![h] = r]

Answered(h) == HandlerAt(h, "idle", NoRequest, NoRequest)

\* Addresses for which a deposit is on its way while an exit is.
RacingNow ==
  {address[h] : h \in {g \in Handler : phase[g] = "inserted"}}
  \cap {address[h] : h \in {g \in Handler : phase[g] \in {"found", "sent"}}}

----------------------------------------------------------------------------
\* The start of the thread

\* start_api_server: the padding account is deposited when the database has
\* no row for it.
StartChecked ==
  /\ startup = "pending"
  /\ startup' = "checked"
  /\ IF LastCommittedStateForAccount(PaddingId) = Absent /\ KeeperListens
     THEN Send(PaddingDeposit)
     ELSE UNCHANGED requests
  /\ UNCHANGED <<book, handlerVars, depositors, tables, serverVars>>

\* No connection, or the query fails: the server starts all the same.
StartUnchecked ==
  /\ startup = "pending"
  /\ startup' = "unchecked"
  /\ UNCHANGED <<book, requests, handlerVars, depositors, tables, serverVars>>

----------------------------------------------------------------------------
\* The handlers

Serving == startup # "pending"

\* handle_depositReq writes the map, under the address as the request spells
\* it.
EnterDeposit(h) ==
  /\ Serving /\ phase[h] = "idle"
  /\ \E a \in Address, amount \in Amount, key \in Key :
       /\ book' = [x \in DOMAIN book \cup {a} |-> IF x = a THEN IdOf[a] ELSE book[x]]
       /\ HandlerAt(h, "inserted", a,
                    DepositRequest([account |-> IdOf[a], amount |-> amount, key |-> key]))
  /\ UNCHANGED <<requests, startup, depositors, tables, serverVars>>

\* Then it sends the deposit.  Without the keeper it answers with an error,
\* and the address stays in the map.
SendDeposit(h) ==
  /\ phase[h] = "inserted"
  /\ IF KeeperListens
     THEN /\ Room
          /\ Send(request[h])
          /\ depositors' = [depositors EXCEPT ![request[h].tx.account] = @ \cup {address[h]}]
     ELSE UNCHANGED <<requests, depositors>>
  /\ Answered(h)
  /\ UNCHANGED <<book, startup, tables, serverVars>>

\* What handle_address answers and handle_exitReq looks for.
Entry(a) == Lower[a]

KnownAddress(a) == Entry(a) \in DOMAIN book

\* handle_exitReq finds the account; an address it does not find is answered
\* and nothing changes.
FindExit(h) ==
  /\ Serving /\ phase[h] = "idle"
  /\ \E a \in Address :
       /\ KnownAddress(a)
       /\ HandlerAt(h, "found", Entry(a), ExitRequest(book[Entry(a)]))
  /\ UNCHANGED <<book, requests, startup, depositors, tables, serverVars>>

SendExit(h) ==
  /\ phase[h] = "found"
  /\ IF KeeperListens
     THEN /\ Room
          /\ Send(request[h])
          /\ depositors' = [depositors EXCEPT ![request[h].tx.account] = {}]
          /\ HandlerAt(h, "sent", address[h], request[h])
     ELSE UNCHANGED <<requests, depositors>> /\ Answered(h)
  /\ UNCHANGED <<book, startup, tables, serverVars>>

\* Slip: all addresses of the account are removed.
SlipRemoveAccount(h) ==
  /\ phase[h] = "sent"
  /\ book' = [a \in {b \in DOMAIN book : book[b] # request[h].tx.account} |-> book[a]]
  /\ Answered(h)
  /\ UNCHANGED <<requests, startup, depositors, tables, serverVars>>

RemoveAddress(h) ==
  /\ phase[h] = "sent"
  /\ book' = [a \in DOMAIN book \ {address[h]} |-> book[a]]
  /\ Answered(h)
  /\ UNCHANGED <<requests, startup, depositors, tables, serverVars>>

\* handle_deposit: a deposit into any account, with no address.
PlainDeposit ==
  /\ Serving /\ KeeperListens /\ Room
  /\ \E deposit \in Deposits : Send(DepositRequest(deposit))
  /\ UNCHANGED <<book, startup, handlerVars, depositors, tables, serverVars>>

----------------------------------------------------------------------------
\* The keeper takes the first of the requests.

NextRequest == Head(requests)

\* When the keeper panics the queue is gone.
Taken == requests' = IF keeper' = "running" THEN Tail(requests) ELSE <<>>

ServeDeposit ==
  /\ requests # <<>>
  /\ NextRequest.kind = "deposit"
  /\ MakeDepositBlock(NextRequest.tx)
  /\ Taken
  /\ UNCHANGED <<book, startup, handlerVars, depositors>>

ServeExit ==
  /\ requests # <<>>
  /\ NextRequest.kind = "exit"
  /\ MakeExitBlock(NextRequest.tx.account)
  /\ Taken
  /\ UNCHANGED <<book, startup, handlerVars, depositors>>

\* create_exit_block: "must augment exit transaction information".
ExitPanics ==
  /\ KeeperListens
  /\ requests # <<>>
  /\ NextRequest.kind = "exit"
  /\ ~ExitValid(memory, NextRequest.tx.account)
  /\ keeper' = "exit panic"
  /\ Taken
  /\ UNCHANGED <<memory, nextBlock, channel, lastVerified, committer, stops>>
  /\ UNCHANGED <<book, startup, handlerVars, depositors, tables>>

TransferBlock ==
  /\ \E tx \in Transfers : MakeTransferBlock(tx)
  /\ requests' = IF keeper' = "running" THEN requests ELSE <<>>
  /\ UNCHANGED <<book, startup, handlerVars, depositors>>

Keeper == ServeDeposit \/ ServeExit \/ ExitPanics \/ TransferBlock

----------------------------------------------------------------------------

\* The process is stopped and started again: nothing here outlives it.
\* Slip: the map outlives the process.
SlipKeepBook ==
  /\ Restart
  /\ requests' = <<>> /\ startup' = "pending"
  /\ phase' = [h \in Handler |-> "idle"]
  /\ address' = [h \in Handler |-> NoRequest]
  /\ request' = [h \in Handler |-> NoRequest]
  /\ depositors' = [id \in AccountId |-> {}]
  /\ raced' = {}
  /\ UNCHANGED book

RestartAll ==
  /\ Restart
  /\ book' = [a \in {} |-> 0]
  /\ requests' = <<>> /\ startup' = "pending"
  /\ phase' = [h \in Handler |-> "idle"]
  /\ address' = [h \in Handler |-> NoRequest]
  /\ request' = [h \in Handler |-> NoRequest]
  /\ depositors' = [id \in AccountId |-> {}]
  /\ raced' = {}

Work(h) ==
  EnterDeposit(h) \/ SendDeposit(h) \/ FindExit(h) \/ SendExit(h) \/ RemoveAddress(h)

Running ==
  \/ StartChecked \/ StartUnchecked
  \/ \E h \in Handler : Work(h)
  \/ PlainDeposit
  \/ Keeper
  \/ (CommitBlock \/ CommitterPanics) /\ UNCHANGED <<book, requests, startup, handlerVars, depositors>>

Next ==
  \/ Running /\ raced' = raced \cup RacingNow'
  \/ RestartAll

Spec == Init /\ [][Next]_allVars

----------------------------------------------------------------------------
(***************************************************************************)
(* Properties                                                              *)
(***************************************************************************)

Requests ==
  [kind : {"deposit"}, tx : DepositTx]
  \cup [kind : {"exit"}, tx : [account : AccountId, amount : {0}]]

HandlersOK ==
  /\ phase \in [Handler -> {"idle", "inserted", "found", "sent"}]
  /\ address \in [Handler -> Address \cup {NoRequest}]
  /\ request \in [Handler -> Requests \cup {NoRequest}]
  /\ \A h \in Handler : phase[h] # "idle" =>
       /\ address[h] \in Address
       /\ request[h] \in Requests
       /\ request[h].kind = IF phase[h] = "inserted" THEN "deposit" ELSE "exit"
       /\ request[h].tx.account = IdOf[address[h]]

\* The map gives each address its own id, a handler at work has the request
\* for the address it works on, and the ledger holds accounts.
TypeOK ==
  /\ accountUpdates \subseteq [id : AccountId, block : Nat, account : Account]
  /\ memory \in Ledgers /\ nextBlock \in Nat
  /\ channel \in Seq(Blocks)
  /\ keeper \in {"running", "stopped", "exit panic"}
  /\ startup \in {"pending", "checked", "unchecked"}
  /\ requests \in Seq(Requests)
  /\ keeper # "running" => requests = <<>>
  /\ DOMAIN book \subseteq Address
  /\ \A a \in DOMAIN book : book[a] = IdOf[a]
  /\ HandlersOK
  /\ depositors \in [AccountId -> SUBSET Address]
  /\ raced \subseteq Address

\* An exit ends the state keeper for want of an account only when it was asked
\* for while a deposit for the same address was on its way: without such a
\* race every exit in the queue finds its account, be it one the ledger has or
\* one a deposit before it creates.
ExitPanicNeedsRace ==
  keeper = "exit panic" => \E a \in raced : memory[IdOf[a]] = Absent

\* Who deposited, with an address in lower case, finds the account for its
\* exit as long as none was sent: only a removal by a handler that was at work
\* on the same address during the deposit takes the entry away.
DepositorsCanExit ==
  \A id \in AccountId : \A a \in depositors[id] :
    a = Lower[a] /\ a \notin raced => KnownAddress(a) /\ book[Entry(a)] = id

\* After a start with a database, the padding account exists or its deposit is
\* what the state keeper does next: it is there before the first transfer that
\* may need padding.
PaddingFirst ==
  startup = "checked" /\ keeper = "running" /\ memory[PaddingId] = Absent
    => requests # <<>> /\ Head(requests) = PaddingDeposit

=============================================================================
