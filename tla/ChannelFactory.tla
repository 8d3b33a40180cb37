---------------------------- MODULE ChannelFactory ----------------------------
(***************************************************************************)
(* Opening a payment channel (ChannelFactory in                           *)
(* packages/core-ethereum/src/channel/index.ts) between the initiator A,   *)
(* which calls create(), and the counterparty B, which answers the        *)
(* opening request in handleOpeningRequest.                               *)
(*                                                                         *)
(* Three views of the one channel:                                         *)
(*   chain       the HoprChannels contract's channel status and A's        *)
(*               deposit;                                                  *)
(*   idx[n]      the status node n's indexer has processed so far; it      *)
(*               lags behind the chain.  getOnChainState reads it, except  *)
(*               when the node runs against ganache, where it reads the    *)
(*               contract directly;                                        *)
(*   rec[n]      whether node n's DB holds the off-chain SignedChannel     *)
(*               record.                                                   *)
(* isOpen compares the first (through getOnChainState) with the last.     *)
(* Amounts are A's side of the channel balance only.                       *)
(***************************************************************************)
EXTENDS Naturals

CONSTANTS
  Need,          \* amountToFund: A's part of the agreed channel balance
  MaxCreates,    \* create() calls A makes
  MaxTxFailures, \* openChannel transactions that revert
  MaxCrashes,    \* node processes that crash and restart
  InGanache,     \* getOnChainState reads the contract, not the indexer
  HashSize, Base,\* bytes of a ticket hash, and values of a byte
  WinProbs       \* values of WIN_PROB createDummyChannelTicket may use

ASSUME Need \in Nat \ {0} /\ MaxCreates \in Nat \ {0}
ASSUME MaxTxFailures \in Nat /\ MaxCrashes \in Nat /\ InGanache \in BOOLEAN
ASSUME WinProbs \subseteq Nat \ {0}

VARIABLES
  chain,      \* on-chain channel status
  deposit,    \* A's deposit in the channel on-chain
  balance,    \* A's HOPR token balance
  idx,        \* idx[n]: channel status node n's indexer has reduced
  rec,        \* rec[n]: node n's DB holds the off-chain channel record
  pc,         \* where A's current create() call is
  calls,      \* create() calls made so far
  request,    \* the opening request of A's current call
  subs,       \* B's onceOpen subscriptions: requested, active, fired
  txFailures, \* openChannel transactions that reverted so far
  crashes     \* crashes so far

vars == <<chain, deposit, balance, idx, rec, pc, calls, request, subs,
          txFailures, crashes>>

Parties  == {"A", "B"}
Statuses == {"UNINITIALISED", "FUNDED", "OPEN"}
CreateSteps == {"idle", "isOpen", "fund", "sign", "put", "done", "failed"}

-----------------------------------------------------------------------------
(* getOnChainState(counterparty).status is OPEN or PENDING. *)
OnChainOpen(n) ==
  (IF InGanache THEN chain ELSE idx[n]) = "OPEN"

(* isOpen: a record that exists off-chain but not on-chain is deleted;    *)
(* on-chain but not off-chain throws.                                     *)
IsOpenResult(n) ==
  CASE OnChainOpen(n) /\ rec[n]     -> "open"
    [] OnChainOpen(n) /\ ~rec[n]    -> "throw"
    [] OTHER                        -> "closed"

\* The DB after isOpen's reconciliation: the record survives only when the
\* channel is open on-chain as getOnChainState sees it.
Reconciled(n) == [rec EXCEPT ![n] = @ /\ OnChainOpen(n)]

\* Mutant: funds are topped up only when nothing is deposited yet.
NeedsFundsWhenEmpty == deposit = 0

(* amountFunded.lt(amountToFund): A's deposit is short of its part.       *)
NeedsFunds == deposit < Need

\* Mutant: the whole amountToFund is sent, not the part still missing.
AmountToIncreaseFull == Need

\* new Balance(amountToFund.sub(amountFunded)): the top-up A sends.
AmountToIncrease == Need - deposit

(* increaseFunds(counterparty, amount) throws: on a zero balance          *)
(* (ERRORS.OOF_HOPR), or when the token transfer of amount reverts and    *)
(* waitForConfirmation rejects.                                            *)
IncreaseFundsRejects == balance = 0 \/ balance < AmountToIncrease

Init ==
  /\ chain   = "UNINITIALISED"
  /\ deposit \in 0..Need
  /\ balance \in 0..Need
  /\ idx     = [n \in Parties |-> "UNINITIALISED"]
  /\ rec     = [n \in Parties |-> FALSE]
  /\ pc      = "idle"
  /\ calls   = 0
  /\ request = "none"
  /\ subs    = [requested |-> 0, active |-> 0, fired |-> FALSE]
  /\ txFailures = 0
  /\ crashes = 0

\* A calls create(counterparty, ..., channelBalance, sign).
CreateStart ==
  /\ pc \in {"idle", "done", "failed"} /\ calls < MaxCreates
  /\ pc' = "isOpen" /\ calls' = calls + 1 /\ request' = "none"
  /\ UNCHANGED <<chain, deposit, balance, idx, rec, subs, txFailures,
                 crashes>>

\* if (await this.isOpen(counterparty)): an open channel is returned from
\* the record; isOpen throwing fails the call; otherwise A goes on to fund.
CreateIsOpen ==
  /\ pc = "isOpen"
  /\ rec' = Reconciled("A")
  /\ pc'  = CASE IsOpenResult("A") = "open"  -> "done"
              [] IsOpenResult("A") = "throw" -> "failed"
              [] OTHER                       -> "fund"
  /\ UNCHANGED <<chain, deposit, balance, idx, calls, request, subs,
                 txFailures, crashes>>

\* if (amountFunded.lt(amountToFund)) await this.increaseFunds(...):
\* increaseFunds throws on a zero balance; a token transfer larger than the
\* balance reverts and waitForConfirmation throws.
CreateFund ==
  /\ pc = "fund"
  /\ \/ /\ ~NeedsFunds
        /\ pc' = "sign"
        /\ UNCHANGED <<chain, deposit, balance>>
     \/ /\ NeedsFunds /\ IncreaseFundsRejects
        /\ pc' = "failed"
        /\ UNCHANGED <<chain, deposit, balance>>
     \/ /\ NeedsFunds /\ ~IncreaseFundsRejects
        /\ balance' = balance - AmountToIncrease
        /\ deposit' = deposit + AmountToIncrease
        /\ chain' = IF chain = "UNINITIALISED" THEN "FUNDED" ELSE chain
        /\ pc' = "sign"
  /\ UNCHANGED <<idx, rec, calls, request, subs, txFailures, crashes>>

\* signedChannel = await sign(channelBalance): the request goes to B.
CreateSign ==
  /\ pc = "sign" /\ request = "none"
  /\ request' = "sent"
  /\ UNCHANGED <<chain, deposit, balance, idx, rec, pc, calls, subs,
                 txFailures, crashes>>

\* Mutant: B saves its record as soon as it answers the request.
HandleOpeningRequestEagerSave ==
  /\ request = "sent"
  /\ request' = "answered"
  /\ subs' = [subs EXCEPT !.requested = @ + 1]
  /\ rec'  = [rec EXCEPT !["B"] = TRUE]
  /\ UNCHANGED <<chain, deposit, balance, idx, pc, calls, txFailures, crashes>>

\* Mutant: B awaits onceOpen before it yields the signed channel.
HandleOpeningRequestAwaitOpen ==
  /\ request = "sent" /\ chain = "OPEN"
  /\ request' = "answered"
  /\ subs' = [subs EXCEPT !.requested = @ + 1]
  /\ UNCHANGED <<chain, deposit, balance, idx, rec, pc, calls, txFailures,
                 crashes>>

\* B's handleOpeningRequest: onceOpen(self, counterparty) is called, its
\* .then saves the record, and the signed channel is yielded back before
\* the log subscription is established.
HandleOpeningRequest ==
  /\ request = "sent"
  /\ request' = "answered"
  /\ subs' = [subs EXCEPT !.requested = @ + 1]
  /\ UNCHANGED <<chain, deposit, balance, idx, rec, pc, calls, txFailures,
                 crashes>>

\* web3.eth.subscribe('logs', ...) is established; from now on it sees new
\* OpenedChannel logs, never earlier ones.
Subscribe ==
  /\ subs.requested > 0
  /\ subs' = [subs EXCEPT !.requested = @ - 1, !.active = @ + 1]
  /\ UNCHANGED <<chain, deposit, balance, idx, rec, pc, calls, request,
                 txFailures, crashes>>

\* openChannel(counterparty) is sent and waitForConfirmation resolves: the
\* OpenedChannel log reaches every established subscription.  A reverted
\* transaction ("counterparty must have called init") fails the call.
CreateOpen ==
  /\ pc = "sign" /\ request = "answered"
  /\ \/ /\ chain' = "OPEN"
        /\ subs' = IF subs.active > 0
                     THEN [subs EXCEPT !.active = 0, !.fired = TRUE]
                     ELSE subs
        /\ pc' = "put"
        /\ UNCHANGED txFailures
     \/ /\ txFailures < MaxTxFailures
        /\ txFailures' = txFailures + 1
        /\ pc' = "failed"
        /\ UNCHANGED <<chain, subs>>
  /\ UNCHANGED <<deposit, balance, idx, rec, calls, request, crashes>>

\* await this.coreConnector.db.put(Channel(counterparty), signedChannel).
CreatePut ==
  /\ pc = "put"
  /\ rec' = [rec EXCEPT !["A"] = TRUE]
  /\ pc'  = "done"
  /\ UNCHANGED <<chain, deposit, balance, idx, calls, request, subs,
                 txFailures, crashes>>

\* The subscription's data handler matches the channel id, unsubscribes
\* and resolves; .then(saveOffChainState) stores B's record.
OnceOpenSave ==
  /\ subs.fired
  /\ rec'  = [rec EXCEPT !["B"] = TRUE]
  /\ subs' = [subs EXCEPT !.fired = FALSE]
  /\ UNCHANGED <<chain, deposit, balance, idx, pc, calls, request,
                 txFailures, crashes>>

\* Any other caller of isOpen on node n (ticket issuing calls create for
\* an existing channel): only its reconciliation changes state.
IsOpen(n) ==
  /\ rec' = Reconciled(n)
  /\ UNCHANGED <<chain, deposit, balance, idx, pc, calls, request, subs,
                 txFailures, crashes>>

\* Node n's indexer reduces the chain's logs up to the current block.
Index(n) ==
  /\ idx' = [idx EXCEPT ![n] = chain]
  /\ UNCHANGED <<chain, deposit, balance, rec, pc, calls, request, subs,
                 txFailures, crashes>>

(* Node n's process dies and restarts.  What is on-chain and in its DB    *)
(* stays; A's create() call in flight is gone (the caller sees it fail),  *)
(* B loses its pending onceOpen subscriptions and the saveOffChainState   *)
(* its fired subscription had not run yet.                                *)
Crash(n) ==
  /\ crashes < MaxCrashes
  /\ crashes' = crashes + 1
  /\ IF n = "A"
       THEN /\ pc' = IF pc \in {"idle", "done", "failed"} THEN pc ELSE "failed"
            /\ UNCHANGED subs
       ELSE /\ subs' = [requested |-> 0, active |-> 0, fired |-> FALSE]
            /\ UNCHANGED pc
  /\ UNCHANGED <<chain, deposit, balance, idx, rec, calls, request,
                 txFailures>>

Next ==
  \/ CreateStart \/ CreateIsOpen \/ CreateFund \/ CreateSign
  \/ CreateOpen \/ CreatePut
  \/ HandleOpeningRequest \/ Subscribe \/ OnceOpenSave
  \/ \E n \in Parties : IsOpen(n) \/ Index(n) \/ Crash(n)

\* A's call runs to completion once started; B's protocol handler answers,
\* web3 establishes subscriptions and delivers logs; indexers catch up.
Fairness ==
  /\ WF_vars(CreateIsOpen) /\ WF_vars(CreateFund) /\ WF_vars(CreateSign)
  /\ WF_vars(CreateOpen) /\ WF_vars(CreatePut)
  /\ WF_vars(HandleOpeningRequest) /\ WF_vars(Subscribe)
  /\ WF_vars(OnceOpenSave)
  /\ \A n \in Parties : WF_vars(Index(n))

Spec == Init /\ [][Next]_vars /\ Fairness

-----------------------------------------------------------------------------
TypeOK ==
  /\ chain \in Statuses
  /\ deposit \in 0..Need /\ balance \in 0..Need
  /\ idx \in [Parties -> Statuses] /\ rec \in [Parties -> BOOLEAN]
  /\ pc \in CreateSteps /\ calls \in 0..MaxCreates
  /\ request \in {"none", "sent", "answered"}
  /\ subs \in [requested : 0..MaxCreates, active : 0..MaxCreates,
               fired : BOOLEAN]
  /\ txFailures \in 0..MaxTxFailures /\ crashes \in 0..MaxCrashes

(* A node holds an off-chain record only for a channel opened on-chain:   *)
(* B saves it when its subscription sees OpenedChannel, A after the       *)
(* openChannel transaction is confirmed.                                   *)
RecordOnlyForOpenedChannel ==
  \A n \in Parties : rec[n] => chain = "OPEN"

(* A channel is never opened on-chain with less than A's agreed part      *)
(* deposited, whatever deposit A had from earlier failed attempts.        *)
OpenedWithAgreedFunds ==
  chain = "OPEN" => deposit >= Need

\* createDummyChannelTicket's threshold and the win test that reads it.
Ticket == INSTANCE TicketWinProb

(* A ticket createDummyChannelTicket signs with WIN_PROB = w wins with    *)
(* probability 1/w to within one hash: never more often, and short of it  *)
(* by less than one of the Base^HashSize hashes.  The threshold is built  *)
(* from all-0xff bytes read big-endian and written back little-endian.    *)
(* It depends on constants only, so TLC checks it before each run.        *)
ASSUME WinProbMatchesTarget ==
  \A w \in WinProbs :
    LET won == Ticket!Winners(w) * w
    IN  Base^HashSize - w <= won /\ won < Base^HashSize

(* Every create() call A starts ends, returning a channel or throwing.    *)
CreateTerminates ==
  (pc = "isOpen") ~> (pc \in {"done", "failed"})

(* isOpen never deletes the record of a channel that is open on-chain:    *)
(* the branch at line 92 is meant for records left by channels that no    *)
(* longer exist.                                                          *)
NeverDeleteOpenChannelRecord ==
  [][\A n \in Parties : (rec[n] /\ ~rec'[n]) => chain # "OPEN"]_vars

(* Once the channel is open on-chain, B eventually records it (the        *)
(* comment at line 305: "listen for opening event and update DB").        *)
CounterpartyEventuallyRecords ==
  (chain = "OPEN") ~> rec["B"]

=============================================================================
