--------------------------- MODULE SubmitTxProofs ---------------------------
(***************************************************************************)
(* Proofs about the submit handler, for every number of concurrent         *)
(* requests, every nonce, and any number of resets and late replies.       *)
(***************************************************************************)
EXTENDS SubmitTx, SequenceTheorems, TLAPS

----------------------------------------------------------------------------
\* Where a request and its handler are

\* The handler has not asked the state keeper yet.
Before == {"new", "early", "waiting", "ready"}

\* The clients whose transfer was applied.
Served == {c \in Client : <<c, nonce[c]>> \in applied}

RequestTypes ==
  /\ requests \in Seq(Client)
  /\ nonce \in [Client -> Nonces]
  /\ phase \in [Client -> Phases]
  /\ late \subseteq {c \in Client : phase[c] = "refused"}

\* A request is under way at most once.
RequestsOnce ==
  \A i, j \in 1 .. Len(requests) : requests[i] = requests[j] => i = j

\* It is not applied before it is served, and its handler listens or has
\* stopped waiting.
UnderWay(c) == (phase[c] = "sent" \/ c \in late) /\ c \notin Served

RequestsUnderWay == \A i \in 1 .. Len(requests) : UnderWay(requests[i])

\* An answer that is not late is given when the outcome is known.
Answered(c) ==
  /\ phase[c] \in {"confirmed", "accepted"} => c \in Served
  /\ phase[c] \in Before \cup {"refused"} /\ c \notin late => c \notin Served

RequestInv ==
  /\ RequestTypes
  /\ RequestsOnce
  /\ RequestsUnderWay
  /\ \A c \in Client : Answered(c)

LEMMA SeqFacts ==
  ASSUME NEW S, NEW s \in Seq(S)
  PROVE  /\ Len(s) \in Nat
         /\ DOMAIN s = 1 .. Len(s)
         /\ \A i \in 1 .. Len(s) : s[i] \in S
BY LenProperties, ElementOfSeq

LEMMA HeadFacts ==
  ASSUME NEW S, NEW s \in Seq(S), s # <<>>
  PROVE  /\ Head(s) \in S
         /\ Head(s) = s[1]
         /\ 1 \in 1 .. Len(s)
         /\ Tail(s) \in Seq(S)
         /\ \A i \in 1 .. Len(Tail(s)) : /\ Tail(s)[i] = s[i + 1]
                                         /\ i + 1 \in 1 .. Len(s)
                                         /\ i \in Nat /\ i + 1 # 1
<1>1. Len(s) \in Nat /\ Len(s) # 0 /\ s[1] \in S
  BY LenProperties, EmptySeq, ElementOfSeq
<1>2. Len(Tail(s)) = Len(s) - 1 /\ Head(s) = s[1] /\ Tail(s) \in Seq(S)
  BY HeadTailProperties
<1>3. \A i \in 1 .. Len(Tail(s)) : Tail(s)[i] = s[i + 1]
  BY HeadTailProperties
<1> QED
  BY <1>1, <1>2, <1>3

LEMMA RequestInvInit == Init => RequestInv
<1> SUFFICES ASSUME Init PROVE RequestInv
  OBVIOUS
<1>1. requests = <<>> /\ applied = {} /\ nonce \in [Client -> Nonces]
  BY DEF Init
<1>2. phase \in [Client -> Phases] /\ late = {} /\ \A c \in Client : phase[c] = "new"
  BY DEF Init, Phases
<1>3. requests \in Seq(Client) /\ Len(requests) = 0
  BY <1>1
<1> QED
  BY <1>1, <1>2, <1>3 DEF RequestInv, RequestTypes, RequestsOnce, RequestsUnderWay,
                          Answered, Served

\* Steps of a handler that do not concern the state keeper.
LEMMA RequestInvMove ==
  ASSUME RequestInv, NEW c \in Client, NEW x,
         phase' = [phase EXCEPT ![c] = x],
         UNCHANGED <<requests, applied, nonce>>,
         \/ phase[c] \in Before /\ x \in Before \cup {"refused"} /\ late' = late
         \/ phase[c] = "sent" /\ x = "refused" /\ late' = late \cup {c}
         \/ phase[c] = "confirmed" /\ x = "accepted" /\ late' = late
  PROVE  RequestInv'
<1>1. RequestTypes'
  <2>1. phase' \in [Client -> Phases]
    BY DEF RequestInv, RequestTypes, Phases, Before, Ended
  <2>2. ASSUME NEW d \in late' PROVE d \in Client /\ phase'[d] = "refused"
    BY <2>2 DEF RequestInv, RequestTypes, Before
  <2> QED
    BY <2>1, <2>2 DEF RequestInv, RequestTypes
<1>2. Served' = Served
  BY DEF Served
<1>3. phase'[c] = x /\ \A d \in Client \ {c} : phase'[d] = phase[d]
  BY DEF RequestInv, RequestTypes
<1>4. ASSUME NEW d \in Client, UnderWay(d) PROVE UnderWay(d)'
  BY <1>2, <1>3, <1>4 DEF UnderWay, Before, RequestInv, RequestTypes
<1>5. \A i \in 1 .. Len(requests) : requests[i] \in Client
  BY SeqFacts DEF RequestInv, RequestTypes
<1>6. RequestsUnderWay'
  BY <1>4, <1>5 DEF RequestInv, RequestsUnderWay
<1>7. ASSUME NEW d \in Client PROVE Answered(d)'
  <2>1. Answered(d) /\ (d = c => d \notin late)
    BY DEF RequestInv, RequestTypes, Before
  <2> QED
    BY <1>2, <1>3, <2>1 DEF Answered, Before
<1>8. RequestsOnce'
  BY DEF RequestInv, RequestsOnce
<1> QED
  BY <1>1, <1>6, <1>7, <1>8 DEF RequestInv

LEMMA RequestInvAdd ==
  ASSUME RequestInv, NEW c \in Client, AddTransferTx(c)
  PROVE  RequestInv'
<1>1. /\ requests' = Append(requests, c)
      /\ phase' = [phase EXCEPT ![c] = "sent"]
      /\ phase[c] = "ready"
      /\ UNCHANGED <<applied, nonce, late>>
  BY DEF AddTransferTx, Goto
<1>2. requests \in Seq(Client) /\ phase \in [Client -> Phases]
  BY DEF RequestInv, RequestTypes
<1>3. /\ phase'[c] = "sent"
      /\ \A d \in Client \ {c} : phase'[d] = phase[d]
  BY <1>1, <1>2
<1>4. Served' = Served /\ c \notin Served /\ c \notin late
  BY <1>1 DEF RequestInv, RequestTypes, Answered, Served, Before
<1> DEFINE n == Len(requests)
<1>5. n \in Nat /\ \A i \in 1 .. n : requests[i] \in Client \ {c}
  <2>1. n \in Nat /\ \A i \in 1 .. n : requests[i] \in Client
    BY <1>2, SeqFacts
  <2> QED
    BY <1>1, <1>4, <2>1 DEF RequestInv, RequestsUnderWay, UnderWay
<1>6. /\ requests' \in Seq(Client)
      /\ Len(requests') = n + 1
      /\ \A i \in 1 .. n : requests'[i] = requests[i]
      /\ requests'[n + 1] = c
  BY <1>1, <1>2, AppendProperties
<1> HIDE DEF n
<1>7. RequestTypes'
  BY <1>1, <1>3, <1>4, <1>6 DEF RequestInv, RequestTypes, Phases
<1>8. ASSUME NEW i \in 1 .. Len(requests'), NEW j \in 1 .. Len(requests'),
             requests'[i] = requests'[j]
      PROVE  i = j
  <2>1. CASE i = n + 1 \/ j = n + 1
    BY <1>5, <1>6, <1>8, <2>1
  <2>2. CASE i # n + 1 /\ j # n + 1
    <3>1. i \in 1 .. n /\ j \in 1 .. n
      BY <1>5, <1>6, <2>2
    <3>2. requests[i] = requests[j]
      BY <1>6, <1>8, <3>1
    <3> QED
      BY <3>1, <3>2 DEF RequestInv, RequestsOnce, n
  <2> QED
    BY <2>1, <2>2
<1>9. ASSUME NEW i \in 1 .. Len(requests') PROVE UnderWay(requests[i])'
  <2>1. CASE i = n + 1
    BY <1>3, <1>4, <1>6, <2>1 DEF UnderWay
  <2>2. CASE i # n + 1
    <3>1. i \in 1 .. n
      BY <1>5, <1>6, <2>2
    <3>2. UnderWay(requests[i])
      BY <3>1 DEF RequestInv, RequestsUnderWay, n
    <3>3. requests'[i] = requests[i] /\ requests[i] \in Client \ {c}
      BY <1>5, <1>6, <3>1
    <3> QED
      BY <1>1, <1>3, <1>4, <3>2, <3>3 DEF UnderWay
  <2> QED
    BY <2>1, <2>2
<1>10. ASSUME NEW d \in Client PROVE Answered(d)'
  BY <1>1, <1>3, <1>4 DEF RequestInv, Answered, Before
<1> QED
  BY <1>7, <1>8, <1>9, <1>10 DEF RequestInv, RequestsOnce, RequestsUnderWay

LEMMA RequestInvServe ==
  ASSUME RequestInv, KeeperServes
  PROVE  RequestInv'
<1> DEFINE c == Head(requests)
<1>1. /\ requests \in Seq(Client) /\ requests # <<>>
      /\ requests' = Tail(requests)
      /\ UNCHANGED <<nonce, late>>
  BY DEF KeeperServes, RequestInv, RequestTypes
<1>2. /\ c \in Client
      /\ c = requests[1]
      /\ 1 \in 1 .. Len(requests)
      /\ requests' \in Seq(Client)
      /\ \A i \in 1 .. Len(requests') : /\ requests'[i] = requests[i + 1]
                                        /\ i + 1 \in 1 .. Len(requests)
                                        /\ i \in Nat /\ i + 1 # 1
  BY <1>1, HeadFacts
<1>3. UnderWay(c)
  BY <1>2 DEF RequestInv, RequestsUnderWay
<1>4. \/ /\ applied' = applied \cup {<<c, nonce[c]>>}
         /\ \/ phase[c] = "sent" /\ phase' = [phase EXCEPT ![c] = "confirmed"]
            \/ phase[c] # "sent" /\ phase' = phase
      \/ /\ applied' = applied
         /\ \/ phase[c] = "sent" /\ phase' = [phase EXCEPT ![c] = "refused"]
            \/ phase[c] # "sent" /\ phase' = phase
  BY DEF KeeperServes, Reply
<1> HIDE DEF c
<1>5. phase \in [Client -> Phases]
  BY DEF RequestInv, RequestTypes
<1>6. /\ phase' \in [Client -> Phases]
      /\ \A d \in Client \ {c} : phase'[d] = phase[d]
  BY <1>2, <1>4, <1>5 DEF Phases, Ended
<1>7. \A d \in Client \ {c} : d \in Served' <=> d \in Served
  BY <1>1, <1>4 DEF Served
<1>8. \/ phase'[c] = "confirmed" /\ c \in Served'
      \/ phase'[c] = "refused" /\ c \notin Served'
      \/ phase'[c] = "refused" /\ c \in late
  <2>1. c \in late => phase[c] = "refused"
    BY DEF RequestInv, RequestTypes
  <2> QED
    BY <1>1, <1>2, <1>3, <1>4, <1>5, <2>1 DEF UnderWay, Served
<1>9. ASSUME NEW i \in 1 .. Len(requests') PROVE UnderWay(requests[i])'
  <2>1. requests'[i] = requests[i + 1] /\ i + 1 \in 1 .. Len(requests) /\ i + 1 # 1
    BY <1>2
  <2>2. requests[i + 1] \in Client
    BY <1>1, <2>1, SeqFacts
  <2>3. requests[i + 1] # c
    BY <1>2, <2>1 DEF RequestInv, RequestsOnce
  <2>4. UnderWay(requests[i + 1])
    BY <2>1 DEF RequestInv, RequestsUnderWay
  <2> QED
    BY <1>1, <1>6, <1>7, <2>1, <2>2, <2>3, <2>4 DEF UnderWay
<1>10. ASSUME NEW i \in 1 .. Len(requests'), NEW j \in 1 .. Len(requests'),
              requests'[i] = requests'[j]
       PROVE  i = j
  <2>1. i + 1 \in 1 .. Len(requests) /\ j + 1 \in 1 .. Len(requests) /\ i \in Nat /\ j \in Nat
    BY <1>2
  <2>2. requests[i + 1] = requests[j + 1]
    BY <1>2, <1>10
  <2>3. i + 1 = j + 1
    BY <2>1, <2>2 DEF RequestInv, RequestsOnce
  <2> QED
    BY <2>1, <2>3
<1>11. ASSUME NEW d \in Client PROVE Answered(d)'
  <2>1. CASE d = c
    BY <1>1, <1>8, <2>1 DEF Answered, Before
  <2>2. CASE d # c
    BY <1>1, <1>6, <1>7, <2>2 DEF RequestInv, Answered
  <2> QED
    BY <2>1, <2>2
<1>12. RequestTypes'
  <2>1. ASSUME NEW d \in late PROVE d \in Client /\ phase'[d] = "refused"
    BY <1>4, <1>5, <1>6, <2>1 DEF RequestInv, RequestTypes
  <2> QED
    BY <1>1, <1>2, <1>6, <2>1 DEF RequestInv, RequestTypes
<1> QED
  BY <1>9, <1>10, <1>11, <1>12 DEF RequestInv, RequestsOnce, RequestsUnderWay

LEMMA RequestInvNext == RequestInv /\ [Next]_vars => RequestInv'
<1> SUFFICES ASSUME RequestInv, [Next]_vars PROVE RequestInv'
  OBVIOUS
<1>1. ASSUME NEW c \in Client,
             \/ LookUp(c) \/ NonceAwait(c) \/ Resume(c) \/ Refuse(c)
             \/ NonceTimeout(c) \/ ReplyTimeout(c) \/ SetNextNonce(c)
      PROVE  RequestInv'
  <2>1. /\ UNCHANGED <<requests, applied, nonce>>
        /\ \E x : /\ phase' = [phase EXCEPT ![c] = x]
                  /\ \/ phase[c] \in Before /\ x \in Before \cup {"refused"} /\ late' = late
                     \/ phase[c] = "sent" /\ x = "refused" /\ late' = late \cup {c}
                     \/ phase[c] = "confirmed" /\ x = "accepted" /\ late' = late
    BY <1>1 DEF LookUp, NonceAwait, Resume, Refuse, NonceTimeout, MayTimeOut, ReplyTimeout,
                SetNextNonce, Goto, Before, keeperVars
  <2> QED
    BY <2>1, RequestInvMove
<1>2. ASSUME NEW c \in Client, AddTransferTx(c) PROVE RequestInv'
  BY <1>2, RequestInvAdd
<1>3. CASE KeeperServes
  BY <1>3, RequestInvServe
<1>4. ASSUME UNCHANGED <<requests, applied, nonce, phase, late>> PROVE RequestInv'
  BY <1>4 DEF RequestInv, RequestTypes, RequestsOnce, RequestsUnderWay, UnderWay, Answered, Served
<1>5. CASE ResetAccount \/ UNCHANGED vars \/ \E c \in Client : Poll(c)
  BY <1>4, <1>5 DEF ResetAccount, Poll, vars, keeperVars
<1> QED
  BY <1>1, <1>2, <1>3, <1>5 DEF Next, Handle

LEMMA RequestInvariant == Spec => []RequestInv
BY RequestInvInit, RequestInvNext, PTL DEF Spec

\* A client can rely on the answer "accepted", and a refused transfer is
\* neither applied nor under way unless its handler stopped waiting for the
\* reply of the state keeper: for any number of concurrent requests, and
\* whatever timeouts, resets and late replies come in between.  Of a handler
\* that stopped waiting nothing is claimed; its answer says "refused" too.
THEOREM AnswersTold == Spec => []OnlyLateRepliesMislead
<1>1. RequestInv => OnlyLateRepliesMislead
  <2> SUFFICES ASSUME RequestInv, NEW c \in Client
               PROVE  /\ phase[c] = "accepted" => <<c, nonce[c]>> \in applied
                      /\ phase[c] = "refused" /\ c \notin late =>
                           /\ <<c, nonce[c]>> \notin applied
                           /\ \A i \in DOMAIN requests : requests[i] # c
    BY DEF OnlyLateRepliesMislead
  <2>1. Answered(c)
    BY DEF RequestInv
  <2>2. \A i \in DOMAIN requests : UnderWay(requests[i])
    BY SeqFacts DEF RequestInv, RequestTypes, RequestsUnderWay
  <2> QED
    BY <2>1, <2>2 DEF Answered, UnderWay, Served
<1> QED
  BY <1>1, RequestInvariant, PTL

----------------------------------------------------------------------------
\* Nonces

\* Without a reset the applied nonces are those from the first one up to the
\* account's, each applied once.
NonceInv ==
  /\ keeperNonce \in Nat /\ resets \in Nat
  /\ applied \subseteq Client \X Nonces
  /\ resets = 0 =>
       /\ StartNonce <= keeperNonce
       /\ \A c \in Client, n \in Nonces :
            <<c, n>> \in applied => StartNonce <= n /\ n < keeperNonce
  /\ NoncesInOrder

LEMMA NonceInvInit == Init => NonceInv
BY SubmitConstants DEF Init, NonceInv, NoncesInOrder, Nonces

LEMMA NonceInvServe ==
  ASSUME RequestInv, NonceInv, KeeperServes
  PROVE  NonceInv'
<1> DEFINE c == Head(requests)
<1>1. c \in Client /\ nonce[c] \in Nonces /\ UNCHANGED resets
  BY HeadFacts DEF KeeperServes, RequestInv, RequestTypes
<1>2. \/ UNCHANGED <<keeperNonce, applied>>
      \/ /\ nonce[c] = keeperNonce
         /\ keeperNonce' = keeperNonce + 1
         /\ applied' = applied \cup {<<c, nonce[c]>>}
  BY DEF KeeperServes, NonceMatches
<1> HIDE DEF c
<1>3. CASE UNCHANGED <<keeperNonce, applied>>
  BY <1>1, <1>3 DEF NonceInv, NoncesInOrder
<1>4. CASE /\ nonce[c] = keeperNonce
           /\ keeperNonce' = keeperNonce + 1
           /\ applied' = applied \cup {<<c, nonce[c]>>}
  <2>1. /\ keeperNonce' = keeperNonce + 1
        /\ applied' = applied \cup {<<c, keeperNonce>>}
        /\ keeperNonce \in Nonces
    BY <1>1, <1>4
  <2>2. ASSUME resets = 0
        PROVE  \A d \in Client, n \in Nonces :
                 <<d, n>> \in applied' => StartNonce <= n /\ n < keeperNonce'
    BY <2>1, <2>2, SubmitConstants DEF NonceInv, Nonces
  <2>3. ASSUME resets = 0, NEW d \in Client, NEW e \in Client, NEW n \in Nonces,
               <<d, n>> \in applied', <<e, n>> \in applied'
        PROVE  d = e
    <3>1. CASE n = keeperNonce
      BY <2>1, <2>3, <3>1 DEF NonceInv, Nonces
    <3>2. CASE n # keeperNonce
      BY <2>1, <2>3, <3>2 DEF NonceInv, NoncesInOrder
    <3> QED
      BY <3>1, <3>2
  <2>4. ASSUME resets = 0, NEW n \in Nonces
        PROVE  (\E d \in Client : <<d, n>> \in applied') <=>
                 StartNonce <= n /\ n < keeperNonce'
    <3>1. CASE n = keeperNonce
      BY <1>1, <2>1, <2>4, <3>1, SubmitConstants DEF NonceInv, Nonces
    <3>2. CASE n # keeperNonce
      <4>1. (\E d \in Client : <<d, n>> \in applied') <=> \E d \in Client : <<d, n>> \in applied
        BY <2>1, <3>2
      <4>2. n < keeperNonce' <=> n < keeperNonce
        BY <2>1, <3>2, SubmitConstants DEF NonceInv, Nonces
      <4> QED
        BY <2>4, <4>1, <4>2 DEF NonceInv, NoncesInOrder
    <3> QED
      BY <3>1, <3>2
  <2>5. NoncesInOrder'
    BY <1>1, <2>3, <2>4 DEF NoncesInOrder
  <2>6. /\ keeperNonce' \in Nat /\ resets' \in Nat
        /\ applied' \subseteq Client \X Nonces
        /\ resets' = 0 => StartNonce <= keeperNonce'
    BY <1>1, <2>1, SubmitConstants DEF NonceInv
  <2> QED
    BY <1>1, <2>2, <2>5, <2>6 DEF NonceInv
<1> QED
  BY <1>2, <1>3, <1>4

LEMMA NonceInvNext == RequestInv /\ NonceInv /\ [Next]_vars => NonceInv'
<1> SUFFICES ASSUME RequestInv, NonceInv, [Next]_vars PROVE NonceInv'
  OBVIOUS
<1>1. CASE KeeperServes
  BY <1>1, NonceInvServe
<1>2. CASE ResetAccount
  BY <1>2 DEF ResetAccount, NonceInv, NoncesInOrder
<1>3. CASE UNCHANGED <<keeperNonce, resets, applied>>
  BY <1>3 DEF NonceInv, NoncesInOrder
<1>4. CASE UNCHANGED vars \/ \E c \in Client :
             Handle(c) \/ Refuse(c) \/ NonceTimeout(c) \/ ReplyTimeout(c)
  BY <1>3, <1>4 DEF vars, Handle, LookUp, NonceAwait, Poll, Resume, AddTransferTx,
                    SetNextNonce, Refuse, NonceTimeout, ReplyTimeout, keeperVars
<1> QED
  BY <1>1, <1>2, <1>4 DEF Next

\* Until the account is reset no nonce is applied twice and none is skipped,
\* however many requests come at once and in whatever order.
THEOREM NoncesApplied == Spec => []NoncesInOrder
<1>1. NonceInv => NoncesInOrder
  BY DEF NonceInv
<1> QED
  BY <1>1, NonceInvInit, NonceInvNext, RequestInvariant, PTL DEF Spec

----------------------------------------------------------------------------
\* The table of futures

CellType == [nonce : Nonces, state : CellStates]

TableTypes ==
  /\ nextNonce \in Nat \cup {NoRecord}
  /\ cells \in Seq(CellType)
  /\ futures \in [Nonces -> Nat \cup {NoCell}]
  /\ tasks \in [Nonces -> Nat \cup {NoCell}]
  /\ cell \in [Client -> Nat \cup {NoCell}]
  /\ wentBack \in BOOLEAN

\* The table points to cells made for the nonce they are filed under, and a
\* task is one nobody has woken.
Filed ==
  /\ \A n \in Nonces : futures[n] # NoCell =>
       futures[n] \in 1 .. Len(cells) /\ cells[futures[n]].nonce = n
  /\ \A n \in Nonces : tasks[n] # NoCell =>
       /\ tasks[n] \in 1 .. Len(cells)
       /\ cells[tasks[n]].nonce = n /\ cells[tasks[n]].state = "pending"

\* Who waits has a cell of its nonce.
WaitersHaveCells ==
  \A c \in Client : phase[c] = "waiting" =>
    cell[c] \in 1 .. Len(cells) /\ cells[cell[c]].nonce = nonce[c]

RecordFirst == nextNonce = NoRecord => cells = <<>>

\* As long as the record has not moved back, a cell for a later nonce is the
\* only one for it and is not done, and a cell that sleeps is for a later
\* nonce and its task will be found.
InTime(i) ==
  /\ cells[i].nonce > Known =>
       futures[cells[i].nonce] = i /\ cells[i].state \in {"unpolled", "pending"}
  /\ cells[i].state = "pending" =>
       cells[i].nonce > Known /\ tasks[cells[i].nonce] = i

TableInv ==
  /\ TableTypes
  /\ Filed
  /\ WaitersHaveCells
  /\ RecordFirst
  /\ ~wentBack => \A i \in 1 .. Len(cells) : InTime(i)

LEMMA CellFacts ==
  ASSUME TableTypes
  PROVE  /\ Len(cells) \in Nat
         /\ DOMAIN cells = 1 .. Len(cells)
         /\ \A i \in 1 .. Len(cells) : /\ cells[i] \in CellType
                                       /\ cells[i].nonce \in Nonces
                                       /\ cells[i].state \in CellStates
<1>1. cells \in Seq(CellType)
  BY DEF TableTypes
<1>2. \A i \in 1 .. Len(cells) : cells[i] \in CellType
  BY <1>1, SeqFacts
<1> QED
  BY <1>1, <1>2, SeqFacts DEF CellType

LEMMA KnownTyped == TableTypes => Known \in Nat
BY DEF TableTypes, Known

LEMMA TableInvInit == Init => TableInv
<1> SUFFICES ASSUME Init PROVE TableInv
  OBVIOUS
<1>1. cells = <<>> /\ Len(cells) = 0
  BY DEF Init
<1>2. cells \in Seq(CellType)
  BY <1>1
<1>3. TableTypes
  BY <1>2 DEF Init, TableTypes
<1>4. Filed /\ WaitersHaveCells /\ RecordFirst
  BY <1>1 DEF Init, Filed, WaitersHaveCells, RecordFirst
<1>5. \A i \in 1 .. Len(cells) : InTime(i)
  BY <1>1
<1> QED
  BY <1>3, <1>4, <1>5 DEF TableInv

\* Steps that leave the table alone and send nobody to wait.
LEMMA TableInvUnchanged ==
  ASSUME RequestInv, TableInv, UNCHANGED tableVars, UNCHANGED <<nonce, cell>>,
         \A c \in Client : phase'[c] = "waiting" => phase[c] = "waiting"
  PROVE  TableInv'
<1>1. UNCHANGED <<nextNonce, futures, tasks, cells, wentBack>>
  BY DEF tableVars
<1>2. TableTypes' /\ Filed' /\ RecordFirst'
  BY <1>1 DEF TableInv, TableTypes, Filed, RecordFirst
<1>3. WaitersHaveCells'
  BY <1>1 DEF TableInv, WaitersHaveCells
<1>4. ASSUME NEW i \in 1 .. Len(cells), InTime(i) PROVE InTime(i)'
  BY <1>1, <1>4 DEF InTime, Known
<1> QED
  BY <1>1, <1>2, <1>3, <1>4 DEF TableInv

\* A handler that finds a future for its nonce, or needs none.
LEMMA TableInvJoin ==
  ASSUME RequestInv, TableInv, NEW c \in Client, NonceAwait(c), cells' = cells
  PROVE  TableInv'
<1> DEFINE n == nonce[c]
<1>1. /\ n \in Nonces /\ n \in Nat
      /\ phase \in [Client -> Phases]
      /\ nonce' = nonce /\ UNCHANGED <<tasks, wentBack>>
      /\ nextNonce' = IF nextNonce = NoRecord THEN n ELSE nextNonce
  <2>1. /\ nonce' = nonce /\ UNCHANGED <<tasks, wentBack>>
        /\ nextNonce' = IF nextNonce = NoRecord THEN n ELSE nextNonce
    BY DEF NonceAwait
  <2>2. n \in Nonces /\ phase \in [Client -> Phases]
    BY DEF RequestInv, RequestTypes
  <2>3. n \in Nat
    BY <2>2, SubmitConstants DEF Nonces
  <2> QED
    BY <2>1, <2>2, <2>3
<1>2. /\ TableTypes /\ Filed /\ WaitersHaveCells /\ RecordFirst
      /\ ~wentBack => \A i \in 1 .. Len(cells) : InTime(i)
  BY DEF TableInv
<1>3. /\ UNCHANGED futures
      /\ \/ cell' = cell /\ \A d \in Client : phase'[d] = "waiting" => phase[d] = "waiting"
         \/ /\ futures[n] # NoCell
            /\ cell' = [cell EXCEPT ![c] = futures[n]]
            /\ phase' = [phase EXCEPT ![c] = "waiting"]
  <2>1. cells' # Append(cells, [nonce |-> n, state |-> "unpolled"])
    <3>1. [nonce |-> n, state |-> "unpolled"] \in CellType
      BY <1>1 DEF CellType, CellStates
    <3>2. Len(Append(cells, [nonce |-> n, state |-> "unpolled"])) = Len(cells) + 1
      BY <1>2, <3>1, AppendProperties DEF TableTypes
    <3>3. Len(cells) \in Nat
      BY <1>2, CellFacts
    <3>4. Len(cells) # Len(cells) + 1
      BY <3>3
    <3> QED
      BY <3>2, <3>4
  <2> QED
    BY <1>1, <2>1 DEF NonceAwait, Goto
<1> HIDE DEF n
<1>4. TableTypes'
  BY <1>1, <1>2, <1>3 DEF TableTypes
<1>5. Filed' /\ RecordFirst'
  BY <1>1, <1>2, <1>3, SubmitConstants DEF Filed, RecordFirst
<1>6. WaitersHaveCells'
  <2>1. CASE cell' = cell /\ \A d \in Client : phase'[d] = "waiting" => phase[d] = "waiting"
    BY <1>1, <1>2, <2>1 DEF WaitersHaveCells
  <2>2. CASE /\ futures[n] # NoCell
             /\ cell' = [cell EXCEPT ![c] = futures[n]]
             /\ phase' = [phase EXCEPT ![c] = "waiting"]
    <3>1. cell'[c] = futures[n] /\ \A d \in Client \ {c} : cell'[d] = cell[d] /\ phase'[d] = phase[d]
      BY <1>1, <1>2, <2>2 DEF TableTypes
    <3>2. futures[n] \in 1 .. Len(cells) /\ cells[futures[n]].nonce = n
      BY <1>1, <1>2, <2>2 DEF Filed
    <3> QED
      BY <1>1, <1>2, <3>1, <3>2 DEF WaitersHaveCells, n
  <2> QED
    BY <1>3, <2>1, <2>2
<1>7. ASSUME ~wentBack', NEW i \in 1 .. Len(cells') PROVE InTime(i)'
  <2>1. cells # <<>>
    BY <1>2, <1>7, CellFacts
  <2>2. Known' = Known
    BY <1>1, <1>2, <2>1 DEF Known, RecordFirst
  <2>3. InTime(i)
    BY <1>1, <1>2, <1>7
  <2> QED
    BY <1>1, <1>3, <2>2, <2>3 DEF InTime
<1> QED
  BY <1>4, <1>5, <1>6, <1>7 DEF TableInv

\* A handler that is the first to wait for its nonce.
LEMMA TableInvWait ==
  ASSUME RequestInv, TableInv, NEW c \in Client, NonceAwait(c), cells' # cells
  PROVE  TableInv'
<1> DEFINE n   == nonce[c]
           k   == Len(cells)
           new == [nonce |-> n, state |-> "unpolled"]
<1>1. /\ n \in Nonces /\ n \in Nat
      /\ phase \in [Client -> Phases]
      /\ nonce' = nonce /\ UNCHANGED <<tasks, wentBack>>
      /\ nextNonce' = IF nextNonce = NoRecord THEN n ELSE nextNonce
  <2>1. /\ nonce' = nonce /\ UNCHANGED <<tasks, wentBack>>
        /\ nextNonce' = IF nextNonce = NoRecord THEN n ELSE nextNonce
    BY DEF NonceAwait
  <2>2. n \in Nonces /\ phase \in [Client -> Phases]
    BY DEF RequestInv, RequestTypes
  <2>3. n \in Nat
    BY <2>2, SubmitConstants DEF Nonces
  <2> QED
    BY <2>1, <2>2, <2>3
<1>2. /\ TableTypes /\ Filed /\ WaitersHaveCells /\ RecordFirst
      /\ ~wentBack => \A i \in 1 .. k : InTime(i)
  BY DEF TableInv
<1>3. /\ Known < n
      /\ futures[n] = NoCell
      /\ cells' = Append(cells, new)
      /\ futures' = [futures EXCEPT ![n] = Len(cells')]
      /\ cell' = [cell EXCEPT ![c] = Len(cells')]
      /\ phase' = [phase EXCEPT ![c] = "waiting"]
  BY DEF NonceAwait, Goto
<1>4. /\ k \in Nat
      /\ cells' \in Seq(CellType)
      /\ Len(cells') = k + 1
      /\ \A i \in 1 .. k : cells'[i] = cells[i]
      /\ cells'[k + 1].nonce = n /\ cells'[k + 1].state = "unpolled"
  <2>1. new \in CellType /\ k \in Nat
    BY <1>1, <1>2, CellFacts DEF CellType, CellStates
  <2>2. cells \in Seq(CellType)
    BY <1>2 DEF TableTypes
  <2>3. /\ cells' \in Seq(CellType)
        /\ Len(cells') = k + 1
        /\ \A i \in 1 .. k : cells'[i] = cells[i]
        /\ cells'[k + 1] = new
    BY <1>3, <2>1, <2>2, AppendProperties
  <2> QED
    BY <2>1, <2>3
<1>5. /\ futures'[n] = k + 1 /\ \A m \in Nonces \ {n} : futures'[m] = futures[m]
      /\ cell'[c] = k + 1
      /\ \A d \in Client \ {c} : cell'[d] = cell[d] /\ phase'[d] = phase[d]
  BY <1>1, <1>2, <1>3, <1>4 DEF TableTypes
<1>6. \A i \in 1 .. k : cells[i].nonce \in Nonces /\ cells[i] \in CellType
  BY <1>2, CellFacts
<1> HIDE DEF n, k, new
<1>7. TableTypes'
  BY <1>1, <1>2, <1>3, <1>4 DEF TableTypes
<1>8. Filed'
  <2>1. ASSUME NEW m \in Nonces, futures'[m] # NoCell
        PROVE  futures'[m] \in 1 .. Len(cells') /\ cells'[futures'[m]].nonce = m
    <3>1. CASE m = n
      BY <1>4, <1>5, <3>1
    <3>2. CASE m # n
      <4>1. futures'[m] = futures[m] /\ futures[m] \in 1 .. k /\ cells[futures[m]].nonce = m
        BY <1>2, <1>5, <2>1, <3>2 DEF Filed, k
      <4> QED
        BY <1>4, <4>1
    <3> QED
      BY <3>1, <3>2
  <2>2. ASSUME NEW m \in Nonces, tasks'[m] # NoCell
        PROVE  /\ tasks'[m] \in 1 .. Len(cells')
               /\ cells'[tasks'[m]].nonce = m /\ cells'[tasks'[m]].state = "pending"
    <3>1. tasks'[m] = tasks[m] /\ tasks[m] \in 1 .. k
      BY <1>1, <1>2, <2>2 DEF Filed, k
    <3>2. cells[tasks[m]].nonce = m /\ cells[tasks[m]].state = "pending"
      BY <1>1, <1>2, <2>2 DEF Filed
    <3> QED
      BY <1>4, <3>1, <3>2
  <2> QED
    BY <2>1, <2>2 DEF Filed
<1>9. WaitersHaveCells'
  <2> SUFFICES ASSUME NEW d \in Client, phase'[d] = "waiting"
               PROVE  cell'[d] \in 1 .. Len(cells') /\ cells'[cell'[d]].nonce = nonce'[d]
    BY DEF WaitersHaveCells
  <2>1. CASE d = c
    BY <1>1, <1>4, <1>5, <2>1 DEF n
  <2>2. CASE d # c
    <3>1. cell'[d] = cell[d] /\ cell[d] \in 1 .. k /\ cells[cell[d]].nonce = nonce[d]
      BY <1>2, <1>5, <2>2 DEF WaitersHaveCells, k
    <3> QED
      BY <1>1, <1>4, <3>1
  <2> QED
    BY <2>1, <2>2
<1>10. RecordFirst'
  BY <1>1, <1>2, SubmitConstants DEF RecordFirst
<1>11. Known' \in Nat /\ Known \in Nat /\ Known' >= Known /\ (Known' = Known \/ k = 0)
  BY <1>1, <1>2, <1>7, KnownTyped, SubmitConstants DEF Known, RecordFirst, TableTypes, k
<1>12. ASSUME ~wentBack', NEW i \in 1 .. Len(cells') PROVE InTime(i)'
  <2>1. CASE i = k + 1
    BY <1>4, <1>5, <2>1 DEF InTime
  <2>2. CASE i # k + 1
    <3>1. i \in 1 .. k /\ cells'[i] = cells[i] /\ Known' = Known
      BY <1>4, <1>11, <1>12, <2>2
    <3>2. InTime(i)
      BY <1>1, <1>2, <1>12, <3>1
    <3>3. i \in Nat /\ i # NoCell
      BY <1>4, <3>1, SubmitConstants
    <3>4. CASE cells[i].nonce = n
      BY <1>3, <3>2, <3>3, <3>4 DEF InTime
    <3>5. CASE cells[i].nonce # n
      BY <1>1, <1>5, <1>6, <3>1, <3>2, <3>5 DEF InTime
    <3> QED
      BY <3>4, <3>5
  <2> QED
    BY <2>1, <2>2
<1> QED
  BY <1>7, <1>8, <1>9, <1>10, <1>12 DEF TableInv

\* A future is polled: it is done, or it goes to sleep and leaves its task.
LEMMA TableInvPoll ==
  ASSUME RequestInv, TableInv, NEW c \in Client, Poll(c)
  PROVE  TableInv'
<1> DEFINE n == nonce[c]
           k == cell[c]
<1>1. /\ n \in Nonces /\ n \in Nat
      /\ UNCHANGED <<nextNonce, futures, wentBack, phase, nonce, cell>>
      /\ cells[k].state \in {"unpolled", "notified"}
  BY DEF Poll, RequestInv, RequestTypes, Nonces
<1>2. /\ TableTypes /\ Filed /\ WaitersHaveCells /\ RecordFirst
      /\ ~wentBack => \A i \in 1 .. Len(cells) : InTime(i)
  BY DEF TableInv
<1>3. k \in 1 .. Len(cells) /\ cells[k].nonce = n /\ k \in Nat /\ k # NoCell
  BY <1>2, CellFacts, SubmitConstants DEF Poll, WaitersHaveCells
<1>4. \E x \in CellStates :
        /\ cells' = [cells EXCEPT ![k].state = x]
        /\ \/ Known >= n /\ tasks' = tasks /\ x # "pending"
           \/ Known < n /\ tasks' = [tasks EXCEPT ![n] = k] /\ x = "pending"
  BY DEF Poll, CellStates
<1> HIDE DEF n, k
<1>5. PICK x \in CellStates :
        /\ cells' = [cells EXCEPT ![k].state = x]
        /\ \/ Known >= n /\ tasks' = tasks /\ x # "pending"
           \/ Known < n /\ tasks' = [tasks EXCEPT ![n] = k] /\ x = "pending"
  BY <1>4
<1>6. /\ cells' \in Seq(CellType)
      /\ Len(cells') = Len(cells)
      /\ \A i \in (1 .. Len(cells)) \ {k} : cells'[i] = cells[i]
      /\ cells'[k].nonce = n /\ cells'[k].state = x
  <2>1. cells \in Seq(CellType) /\ cells[k] \in CellType
    BY <1>2, <1>3, CellFacts DEF TableTypes
  <2>2. /\ [cells[k] EXCEPT !.state = x] \in CellType
        /\ [cells[k] EXCEPT !.state = x].nonce = n
        /\ [cells[k] EXCEPT !.state = x].state = x
    BY <1>3, <2>1 DEF CellType
  <2>3. cells' = [cells EXCEPT ![k] = [cells[k] EXCEPT !.state = x]]
    BY <1>5
  <2> QED
    BY <1>3, <2>1, <2>2, <2>3, ExceptSeq
<1>7. TableTypes'
  BY <1>1, <1>2, <1>3, <1>5, <1>6 DEF TableTypes
<1>8. \A i \in 1 .. Len(cells) : cells'[i].nonce = cells[i].nonce
  BY <1>3, <1>6
<1>9. RecordFirst'
  <2>1. cells # <<>>
    BY <1>3
  <2> QED
    BY <1>1, <1>2, <2>1 DEF RecordFirst
<1>10. Filed'
  <2>1. ASSUME NEW m \in Nonces, futures'[m] # NoCell
        PROVE  futures'[m] \in 1 .. Len(cells') /\ cells'[futures'[m]].nonce = m
    BY <1>1, <1>2, <1>6, <1>8, <2>1 DEF Filed
  <2>2. ASSUME NEW m \in Nonces, tasks'[m] # NoCell
        PROVE  /\ tasks'[m] \in 1 .. Len(cells')
               /\ cells'[tasks'[m]].nonce = m /\ cells'[tasks'[m]].state = "pending"
    <3>1. CASE tasks'[m] = tasks[m]
      <4>1. tasks[m] \in 1 .. Len(cells) /\ cells[tasks[m]].nonce = m
            /\ cells[tasks[m]].state = "pending"
        BY <1>2, <2>2, <3>1 DEF Filed
      <4>2. tasks[m] # k
        BY <1>1, <4>1
      <4> QED
        BY <1>6, <3>1, <4>1, <4>2
    <3>2. CASE tasks'[m] # tasks[m]
      <4>1. m = n /\ tasks'[m] = k /\ x = "pending"
        BY <1>1, <1>2, <1>5, <3>2 DEF TableTypes
      <4> QED
        BY <1>3, <1>6, <4>1
    <3> QED
      BY <3>1, <3>2
  <2> QED
    BY <2>1, <2>2 DEF Filed
<1>11. WaitersHaveCells'
  BY <1>1, <1>2, <1>6, <1>8 DEF WaitersHaveCells
<1>12. Known' = Known /\ Known \in Nat
  BY <1>1, <1>2, KnownTyped DEF Known
<1>13. ASSUME ~wentBack', NEW i \in 1 .. Len(cells') PROVE InTime(i)'
  <2>1. i \in 1 .. Len(cells) /\ InTime(i) /\ InTime(k)
    BY <1>1, <1>2, <1>3, <1>6, <1>13
  <2>2. cells[i].nonce \in Nonces /\ cells[i].nonce \in Nat
    BY <1>2, <2>1, CellFacts DEF Nonces
  <2>3. CASE i = k
    <3>1. CASE Known >= n /\ x # "pending"
      BY <1>1, <1>3, <1>6, <1>12, <2>3, <3>1 DEF InTime
    <3>2. CASE Known < n /\ tasks' = [tasks EXCEPT ![n] = k] /\ x = "pending"
      <4>1. futures[n] = k /\ tasks'[n] = k
        BY <1>1, <1>2, <1>3, <2>1, <3>2 DEF InTime, TableTypes
      <4> QED
        BY <1>1, <1>6, <1>12, <2>3, <3>2, <4>1 DEF InTime
    <3> QED
      BY <1>5, <3>1, <3>2
  <2>4. CASE i # k
    <3>1. cells'[i] = cells[i]
      BY <1>6, <2>1, <2>4
    <3>2. CASE tasks' = tasks
      BY <1>1, <1>12, <2>1, <3>1, <3>2 DEF InTime
    <3>3. CASE Known < n /\ tasks' = [tasks EXCEPT ![n] = k]
      <4>1. cells[i].nonce # n
        BY <1>3, <2>1, <2>4, <3>3 DEF InTime
      <4>2. tasks'[cells[i].nonce] = tasks[cells[i].nonce]
        BY <1>1, <1>2, <2>2, <3>3, <4>1 DEF TableTypes
      <4> QED
        BY <1>1, <1>12, <2>1, <3>1, <4>2 DEF InTime
    <3> QED
      BY <1>5, <3>2, <3>3
  <2> QED
    BY <2>3, <2>4
<1> QED
  BY <1>7, <1>9, <1>10, <1>11, <1>13 DEF TableInv

\* The next nonce is announced: the tasks up to it are woken and forgotten.
LEMMA TableInvAnnounce ==
  ASSUME RequestInv, TableInv, NEW c \in Client, SetNextNonce(c)
  PROVE  TableInv'
<1> DEFINE new   == nonce[c] + 1
           old   == IF nextNonce = NoRecord THEN new ELSE nextNonce
           woken == Notified(old, new)
<1>1. /\ new \in Nat /\ nextNonce' = new
      /\ UNCHANGED <<nonce, cell>>
      /\ wentBack' = (wentBack \/ new < old)
      /\ tasks' = [m \in Nonces |-> IF m \in woken THEN NoCell ELSE tasks[m]]
      /\ futures' = [m \in Nonces |-> IF m \in woken THEN NoCell ELSE futures[m]]
      /\ \A d \in Client : phase'[d] = "waiting" => phase[d] = "waiting"
  BY DEF SetNextNonce, Goto, TasksWithout, RequestInv, RequestTypes, Nonces
<1>2. /\ TableTypes /\ Filed /\ WaitersHaveCells /\ RecordFirst
      /\ ~wentBack => \A i \in 1 .. Len(cells) : InTime(i)
  BY DEF TableInv
<1>3. cells' = [i \in DOMAIN cells |->
                  IF \E m \in woken : tasks[m] = i
                  THEN [cells[i] EXCEPT !.state = IF @ = "pending" THEN "notified" ELSE @]
                  ELSE cells[i]]
  BY DEF SetNextNonce
<1>4. old \in Nat /\ Known \in Nat /\ Known' = new
  <2>1. Known \in Nat /\ old \in Nat
    BY <1>1, <1>2, KnownTyped DEF TableTypes
  <2> QED
    BY <1>1, <2>1, SubmitConstants DEF Known
<1>5. \A m \in Nonces : m \in woken <=> old <= m /\ m <= new /\ tasks[m] # NoCell
  BY DEF Notified
<1>6. nextNonce # NoRecord => old = Known
  BY DEF Known
<1> HIDE DEF new, old, woken
<1>7. woken \subseteq Nonces
  BY DEF woken, Notified
<1>8. /\ Len(cells) \in Nat
      /\ \A i \in 1 .. Len(cells) :
           /\ cells[i] \in CellType
           /\ cells[i].nonce \in Nonces /\ cells[i].nonce \in Nat
           /\ cells[i].state \in CellStates
  BY <1>2, CellFacts DEF Nonces
<1>9. ASSUME NEW i \in 1 .. Len(cells)
      PROVE  /\ cells'[i] \in CellType
             /\ cells'[i].nonce = cells[i].nonce
             /\ \/ /\ \E m \in woken : tasks[m] = i
                   /\ cells'[i].state = "notified"
                \/ /\ ~ \E m \in woken : tasks[m] = i
                   /\ cells'[i] = cells[i]
  <2>1. DOMAIN cells = 1 .. Len(cells)
    BY <1>2, CellFacts
  <2>2. CASE \E m \in woken : tasks[m] = i
    <3>1. cells[i].state = "pending"
      BY <1>2, <1>5, <1>7, <2>2 DEF Filed
    <3>2. cells'[i] = [cells[i] EXCEPT !.state = "notified"]
      BY <1>3, <2>1, <2>2, <3>1
    <3> QED
      BY <1>8, <2>2, <3>2 DEF CellType, CellStates
  <2>3. CASE ~ \E m \in woken : tasks[m] = i
    BY <1>3, <1>8, <2>1, <2>3
  <2> QED
    BY <2>2, <2>3
<1>10. cells' \in Seq(CellType) /\ Len(cells') = Len(cells)
  <2>1. DOMAIN cells = 1 .. Len(cells)
    BY <1>2, CellFacts
  <2>2. cells' \in [1 .. Len(cells) -> CellType]
    <3>1. cells' = [i \in 1 .. Len(cells) |-> cells'[i]]
      BY <1>3, <2>1
    <3> QED
      BY <1>9, <3>1
  <2> QED
    BY <1>8, <2>2, SeqDef, LenProperties
<1>11. TableTypes'
  BY <1>1, <1>2, <1>7, <1>10 DEF TableTypes
<1>12. Filed'
  <2>1. ASSUME NEW m \in Nonces, futures'[m] # NoCell
        PROVE  futures'[m] \in 1 .. Len(cells') /\ cells'[futures'[m]].nonce = m
    <3>1. futures'[m] = futures[m]
      BY <1>1, <2>1
    <3>2. futures[m] \in 1 .. Len(cells) /\ cells[futures[m]].nonce = m
      BY <1>2, <2>1, <3>1 DEF Filed
    <3> QED
      BY <1>9, <1>10, <3>1, <3>2
  <2>2. ASSUME NEW m \in Nonces, tasks'[m] # NoCell
        PROVE  /\ tasks'[m] \in 1 .. Len(cells')
               /\ cells'[tasks'[m]].nonce = m /\ cells'[tasks'[m]].state = "pending"
    <3>1. m \notin woken /\ tasks'[m] = tasks[m]
      BY <1>1, <2>2
    <3>2. /\ tasks[m] \in 1 .. Len(cells)
          /\ cells[tasks[m]].nonce = m /\ cells[tasks[m]].state = "pending"
      BY <1>2, <2>2, <3>1 DEF Filed
    <3>3. ~ \E j \in woken : tasks[j] = tasks[m]
      <4> SUFFICES ASSUME NEW j \in woken, tasks[j] = tasks[m] PROVE FALSE
        OBVIOUS
      <4>1. cells[tasks[j]].nonce = j
        BY <1>2, <1>5, <1>7 DEF Filed
      <4> QED
        BY <3>1, <3>2, <4>1
    <3> QED
      BY <1>9, <1>10, <3>1, <3>2, <3>3
  <2> QED
    BY <2>1, <2>2 DEF Filed
<1>13. WaitersHaveCells'
  BY <1>1, <1>2, <1>9, <1>10 DEF WaitersHaveCells
<1>14. RecordFirst'
  BY <1>1, SubmitConstants DEF RecordFirst
<1>15. ASSUME ~wentBack', NEW i \in 1 .. Len(cells') PROVE InTime(i)'
  <2>1. ~wentBack /\ old <= new /\ i \in 1 .. Len(cells)
    <3>1. ~wentBack /\ ~ (new < old)
      BY <1>1, <1>15
    <3> QED
      BY <1>1, <1>4, <1>10, <1>15, <3>1
  <2>2. InTime(i) /\ cells # <<>>
    BY <1>2, <1>8, <2>1
  <2>3. old = Known
    BY <1>2, <1>6, <2>2 DEF RecordFirst
  <2> DEFINE m == cells[i].nonce
  <2>4. m \in Nonces /\ m \in Nat
    BY <1>8, <2>1
  <2> HIDE DEF m
  <2>5. cells'[i].nonce = m
    BY <1>9, <2>1 DEF m
  <2>6. CASE m > new
    <3>1. m > Known /\ m \notin woken
      <4>1. m > old /\ ~ (m <= new)
        BY <1>1, <1>4, <2>1, <2>4, <2>6
      <4> QED
        BY <1>5, <2>3, <2>4, <4>1
    <3>2. futures'[m] = futures[m] /\ tasks'[m] = tasks[m]
      BY <1>1, <2>4, <3>1
    <3>3. ~ \E j \in woken : tasks[j] = i
      <4> SUFFICES ASSUME NEW j \in woken, tasks[j] = i PROVE FALSE
        OBVIOUS
      <4>1. cells[tasks[j]].nonce = j
        BY <1>2, <1>5, <1>7 DEF Filed
      <4> QED
        BY <3>1, <4>1 DEF m
    <3>4. cells'[i] = cells[i]
      BY <1>9, <2>1, <3>3
    <3> QED
      BY <1>4, <2>2, <2>6, <3>1, <3>2, <3>4 DEF InTime, m
  <2>7. CASE ~ (m > new)
    <3>1. cells'[i].state # "pending"
      <4> SUFFICES ASSUME cells'[i].state = "pending" PROVE FALSE
        OBVIOUS
      <4>1. cells'[i] = cells[i] /\ ~ \E j \in woken : tasks[j] = i
        BY <1>9, <2>1
      <4>2. m > Known /\ tasks[m] = i
        BY <2>2, <4>1 DEF InTime, m
      <4>3. i # NoCell
        BY <1>8, <2>1, SubmitConstants
      <4>4. m \in woken
        BY <1>1, <1>4, <1>5, <2>3, <2>4, <2>7, <4>2, <4>3
      <4> QED
        BY <4>1, <4>2, <4>4
    <3> QED
      BY <1>4, <2>5, <2>7, <3>1 DEF InTime
  <2> QED
    BY <2>6, <2>7
<1> QED
  BY <1>11, <1>12, <1>13, <1>14, <1>15 DEF TableInv

LEMMA TableInvNext == RequestInv /\ TableInv /\ [Next]_vars => TableInv'
<1> SUFFICES ASSUME RequestInv, TableInv, [Next]_vars PROVE TableInv'
  OBVIOUS
<1>1. ASSUME NEW c \in Client, NonceAwait(c) PROVE TableInv'
  BY <1>1, TableInvJoin, TableInvWait
<1>2. ASSUME NEW c \in Client, Poll(c) PROVE TableInv'
  BY <1>2, TableInvPoll
<1>3. ASSUME NEW c \in Client, SetNextNonce(c) PROVE TableInv'
  BY <1>3, TableInvAnnounce
<1>4. ASSUME UNCHANGED tableVars, UNCHANGED <<nonce, cell>>,
             \/ phase' = phase
             \/ \E c \in Client, x \in Phases \ {"waiting"} : phase' = [phase EXCEPT ![c] = x]
      PROVE  TableInv'
  <2>1. \A d \in Client : phase'[d] = "waiting" => phase[d] = "waiting"
    BY <1>4 DEF RequestInv, RequestTypes
  <2> QED
    BY <1>4, <2>1, TableInvUnchanged
<1>5. ASSUME NEW c \in Client,
             \/ LookUp(c) \/ Resume(c) \/ Refuse(c) \/ NonceTimeout(c) \/ ReplyTimeout(c)
             \/ AddTransferTx(c)
      PROVE  TableInv'
  <2>1. /\ UNCHANGED tableVars /\ UNCHANGED <<nonce, cell>>
        /\ \E x \in Phases \ {"waiting"} : phase' = [phase EXCEPT ![c] = x]
    BY <1>5 DEF LookUp, Resume, Refuse, NonceTimeout, ReplyTimeout, AddTransferTx,
                Goto, Phases, Ended
  <2> QED
    BY <1>4, <2>1
<1>6. CASE KeeperServes
  <2>1. Head(requests) \in Client
    BY <1>6, HeadFacts DEF KeeperServes, RequestInv, RequestTypes
  <2>2. /\ UNCHANGED tableVars /\ UNCHANGED <<nonce, cell>>
        /\ \/ phase' = phase
           \/ \E x \in Phases \ {"waiting"} : phase' = [phase EXCEPT ![Head(requests)] = x]
    BY <1>6 DEF KeeperServes, Reply, Phases, Ended
  <2> QED
    BY <1>4, <2>1, <2>2
<1>7. CASE ResetAccount \/ UNCHANGED vars
  BY <1>4, <1>7 DEF ResetAccount, vars, tableVars
<1> QED
  BY <1>1, <1>2, <1>3, <1>5, <1>6, <1>7 DEF Next, Handle

LEMMA TableInvariant == Spec => []TableInv
BY TableInvInit, TableInvNext, RequestInvariant, PTL DEF Spec

\* Nobody sleeps through its turn, for any number of requests that share
\* futures: as long as no announcement moves the record back, a transfer that
\* sleeps waits for a nonce that was not announced.
THEOREM SleepersWait == Spec => []SleepersAreAhead
<1>1. TableInv => SleepersAreAhead
  <2> SUFFICES ASSUME TableInv, ~wentBack, NEW c \in Client,
                      phase[c] = "waiting", cells[cell[c]].state = "pending"
               PROVE  nonce[c] > Known
    BY DEF SleepersAreAhead
  <2>1. cell[c] \in 1 .. Len(cells) /\ cells[cell[c]].nonce = nonce[c]
    BY DEF TableInv, WaitersHaveCells
  <2>2. InTime(cell[c])
    BY <2>1 DEF TableInv
  <2> QED
    BY <2>1, <2>2 DEF InTime
<1> QED
  BY <1>1, TableInvariant, PTL

\* The handlers and the table keep their types, the table files every future
\* under its nonce, and a registered task is one nobody has woken, for any
\* number of requests and nonces.
THEOREM HandlersTyped == Spec => []TypeOK
<1>1. RequestInv /\ NonceInv /\ TableInv => TypeOK
  <2> SUFFICES ASSUME RequestInv, NonceInv, TableInv PROVE TypeOK
    OBVIOUS
  <2>1. TableTypes /\ Filed /\ WaitersHaveCells /\ DOMAIN cells = 1 .. Len(cells)
    BY CellFacts DEF TableInv
  <2>2. /\ nextNonce \in Nat \cup {NoRecord}
        /\ cells \in Seq([nonce : Nonces, state : CellStates])
        /\ wentBack \in BOOLEAN
    BY <2>1 DEF TableTypes, CellType
  <2>3. \A n \in Nonces : \A i \in {futures[n], tasks[n]} \ {NoCell} :
          i \in DOMAIN cells /\ cells[i].nonce = n
    BY <2>1 DEF Filed
  <2>4. \A n \in Nonces : tasks[n] # NoCell => cells[tasks[n]].state = "pending"
    BY <2>1 DEF Filed
  <2>5. \A c \in Client : phase[c] = "waiting" => cell[c] \in DOMAIN cells
    BY <2>1 DEF WaitersHaveCells
  <2>6. keeperNonce \in Nat /\ applied \subseteq Client \X Nonces
    BY DEF NonceInv
  <2>7. /\ requests \in Seq(Client) /\ phase \in [Client -> Phases] /\ nonce \in [Client -> Nonces]
        /\ late \subseteq {c \in Client : phase[c] = "refused"}
    BY DEF RequestInv, RequestTypes
  <2> QED
    BY <2>2, <2>3, <2>4, <2>5, <2>6, <2>7 DEF TypeOK
<1> QED
  BY <1>1, RequestInvariant, NonceInvInit, NonceInvNext, TableInvariant, PTL DEF Spec

=============================================================================
