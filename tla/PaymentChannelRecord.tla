------------------------- MODULE PaymentChannelRecord -------------------------
(***************************************************************************)
(* The legacy payment channel bookkeeping of src/paymentChannels: the      *)
(* TransactionRecord each node keeps per channel in its DB, the on-chain   *)
(* channel state of the HoprChannel contract, the in-memory event          *)
(* listeners, and what happens to them across a crash and restart.        *)
(*                                                                         *)
(*   PaymentChannel.registerEventListeners (index.js:189)  node start     *)
(*   PaymentChannel.handleClosedChannel    (index.js:228)  at start       *)
(*   the ClosedChannel listener            (close.js:61)   on a log       *)
(*                                                                         *)
(* Channels are numbered; the DB read stream visits them in that order.   *)
(* A channel is closed on-chain with some transaction (index, amountA);   *)
(* amountA is party A's balance and Total the channel's deposit.          *)
(***************************************************************************)
EXTENDS Integers, FiniteSets

CONSTANTS
  K,          \* channels 1..K
  Total,      \* channel deposit; balances are 0..Total
  MaxIndex,   \* transaction indexes 0..MaxIndex
  MaxCrashes, \* crashes of the node
  MaxStreamErrors \* deleteState key streams that fail

ASSUME K \in Nat \ {0} /\ Total \in Nat /\ MaxIndex \in Nat
ASSUME MaxCrashes \in Nat /\ MaxStreamErrors \in Nat

\* HoprChannel contract states (index.js:34-36).
CHANNEL_STATE_UNINITIALIZED == 0
CHANNEL_STATE_FUNDED        == 3
CHANNEL_STATE_WITHDRAWABLE  == 4

VARIABLES
  up,         \* the node process is running
  crashes,    \* crashes so far
  startup,    \* registerEventListeners: "ready", "handling", "failed", "down"
  local,      \* local[c]: partyA, initialBalance and the last transaction
  rec,        \* rec[c]: TransactionRecord state in the DB, "NONE" if absent
  cob,        \* cob[c]: the record's currentOnchainBalance, -1 if unset
  chain,      \* chain[c]: on-chain channel state
  closing,    \* closing[c]: the transaction the channel was closed with
  listener,   \* listener[c]: in-memory listener, "none" or "settlement"
  logPending, \* logPending[c]: a ClosedChannel log awaits the listener
  handling,   \* handling[c]: handleClosedChannel's autoWithdraw, -1 if none
  streamErrors \* deleteState key streams failed so far

vars == <<up, crashes, startup, local, rec, cob, chain, closing, listener,
          logPending, handling, streamErrors>>

Channels == 1..K
Balances == 0..Total
Txs      == [index : 0..MaxIndex, value : Balances]
RecStates == {"NONE", "OPEN", "SETTLING", "SETTLED", "WITHDRAWABLE"}
NoTx == [index |-> 0, value |-> 0]

-----------------------------------------------------------------------------
(* getCurrentOnchainBalance(state, isPartyA, newBalance) (close.js:10):   *)
(* the BN difference written with toBuffer, which drops the sign.         *)
GetCurrentOnchainBalance(initialBalance, isPartyA, newBalance) ==
  LET d == IF isPartyA THEN newBalance - initialBalance
                       ELSE initialBalance - newBalance
  IN  IF d < 0 THEN -d ELSE d

(* hasBetterTransaction (close.js:24): the on-chain index is older than    *)
(* our last transaction and that transaction gives us more.               *)
HasBetterTransaction(newBalance, newIndex, c) ==
  /\ newIndex < local[c].last.index
  /\ IF local[c].partyA THEN local[c].last.value > newBalance
                        ELSE newBalance > local[c].last.value

(* decodeEventData yields the bytes16 onchainIndex as a '0x'-prefixed    *)
(* hex string, and new BN(onchainIndex, 'hex') does not strip the prefix: *)
(* bn.js reads the 'x' as the hex digit 8, so the result is               *)
(* 8 * 16^32 + index.  IndexSpace, the 16^32 values of a bytes16 index,   *)
(* is scaled down to the MaxIndex + 1 indexes of the model.               *)
IndexSpace == MaxIndex + 1
ParseOnchainIndex(index) == 8 * IndexSpace + index

\* Channels whose record is SETTLING or SETTLED, in read-stream order.
SettledChannels == {c \in Channels : rec[c] \in {"SETTLING", "SETTLED"}}
\* The position of c in settledChannels, which map() passes on as the
\* second argument of handleClosedChannel, i.e. as autoWithdraw.
MapIndex(c) == Cardinality({d \in SettledChannels : d < c})

Init ==
  /\ up = TRUE /\ crashes = 0 /\ startup = "ready"
  /\ local \in [Channels -> [partyA : BOOLEAN, initialBalance : Balances,
                             last : Txs]]
  /\ rec        = [c \in Channels |-> "OPEN"]
  /\ cob        = [c \in Channels |-> -1]
  /\ chain      = [c \in Channels |-> CHANNEL_STATE_FUNDED]
  /\ closing    = [c \in Channels |-> NoTx]
  /\ listener   = [c \in Channels |-> "settlement"]
  /\ logPending = [c \in Channels |-> FALSE]
  /\ handling   = [c \in Channels |-> -1]
  /\ streamErrors = 0

\* The channel is closed on-chain with transaction tx; the ClosedChannel
\* log reaches a listener subscribed now, and no later one.
Close(c, tx) ==
  /\ chain[c] = CHANNEL_STATE_FUNDED
  /\ chain'      = [chain EXCEPT ![c] = CHANNEL_STATE_WITHDRAWABLE]
  /\ closing'    = [closing EXCEPT ![c] = tx]
  /\ logPending' = [logPending EXCEPT ![c] = up /\ listener[c] = "settlement"]
  /\ UNCHANGED <<up, crashes, streamErrors, startup, local, rec, cob,
                 listener, handling>>

\* After the settlement period someone withdraws: the contract deletes it.
Withdraw(c) ==
  /\ chain[c] = CHANNEL_STATE_WITHDRAWABLE
  /\ chain' = [chain EXCEPT ![c] = CHANNEL_STATE_UNINITIALIZED]
  /\ UNCHANGED <<up, crashes, streamErrors, startup, local, rec, cob,
                 closing, listener, logPending, handling>>

\* The ClosedChannel listener: read the record, store the on-chain balance
\* (computed from channelId where the record was meant), then either mark
\* it SETTLING and submit the better transaction, or mark it SETTLED.
ClosedListener(c) ==
  /\ up /\ logPending[c] /\ rec[c] # "NONE"
  /\ logPending' = [logPending EXCEPT ![c] = FALSE]
  /\ cob' = [cob EXCEPT ![c] =
               GetCurrentOnchainBalance(0, local[c].partyA,
                                        closing[c].value)]
  /\ rec' = [rec EXCEPT ![c] =
               IF HasBetterTransaction(closing[c].value,
                                       ParseOnchainIndex(closing[c].index), c)
                 THEN "SETTLING" ELSE "SETTLED"]
  /\ UNCHANGED <<up, crashes, streamErrors, startup, local, chain, closing,
                 listener, handling>>

\* The process dies: listeners, subscriptions and pending calls are gone.
Halt ==
  /\ up /\ up' = FALSE /\ startup' = "down"
  /\ listener'   = [c \in Channels |-> "none"]
  /\ logPending' = [c \in Channels |-> FALSE]
  /\ handling'   = [c \in Channels |-> -1]
  /\ UNCHANGED <<local, rec, cob, chain, closing>>

\* A crash of the node, one of MaxCrashes.
Crash ==
  /\ crashes < MaxCrashes /\ crashes' = crashes + 1
  /\ Halt /\ UNCHANGED streamErrors

\* PaymentChannel.create -> registerEventListeners: OPEN records get a
\* settlement listener, SETTLING and SETTLED records are collected and on
\* the stream's end handed to handleClosedChannel through map().
RegisterEventListeners ==
  /\ ~up
  /\ up' = TRUE
  /\ listener' = [c \in Channels |->
                    IF rec[c] = "OPEN" THEN "settlement" ELSE "none"]
  /\ handling' = [c \in Channels |->
                    IF c \in SettledChannels THEN MapIndex(c) ELSE -1]
  /\ startup' = IF SettledChannels = {} THEN "ready" ELSE "handling"
  /\ UNCHANGED <<crashes, streamErrors, local, rec, cob, chain, closing,
                 logPending>>

\* handleClosedChannel's switch completes: the contract deleted the
\* channel, or it is WITHDRAWABLE and autoWithdraw is falsy (0).
HandleOk(c) ==
  \/ chain[c] = CHANNEL_STATE_UNINITIALIZED
  \/ chain[c] = CHANNEL_STATE_WITHDRAWABLE /\ handling[c] = 0

\* The record after the switch: deleteState, setState(WITHDRAWABLE), or
\* untouched when the call throws.
HandledRecord(c) ==
  CASE chain[c] = CHANNEL_STATE_UNINITIALIZED -> "NONE"
    [] HandleOk(c)                            -> "WITHDRAWABLE"
    [] OTHER                                  -> rec[c]

\* handleClosedChannel(settledChannel, autoWithdraw): read the contract's
\* channel state; UNINITIALIZED deletes the record, WITHDRAWABLE marks it
\* so unless autoWithdraw is truthy, where the call to withdraw reads the
\* undefined localState and throws; any other state throws.  A throw
\* rejects the Promise.all of registerEventListeners.
HandleClosedChannel(c) ==
  /\ up /\ handling[c] >= 0
  /\ handling' = [handling EXCEPT ![c] = -1]
  /\ rec' = [rec EXCEPT ![c] = HandledRecord(c)]
  /\ startup' = CASE ~HandleOk(c) -> "failed"
                  [] startup = "handling"
                     /\ \A d \in Channels \ {c} : handling[d] = -1 -> "ready"
                  [] OTHER -> startup
  /\ UNCHANGED <<up, crashes, streamErrors, local, cob, chain, closing,
                 listener, logPending>>

(* deleteState's key stream fails while handleClosedChannel deletes the   *)
(* record of a withdrawn channel.  The stream has a listener for 'err',   *)
(* none for 'error', so Node throws the error as an uncaught exception    *)
(* and the process dies before the batch is written.                      *)
DeleteStateStreamError(c) ==
  /\ handling[c] >= 0 /\ chain[c] = CHANNEL_STATE_UNINITIALIZED
  /\ streamErrors < MaxStreamErrors /\ streamErrors' = streamErrors + 1
  /\ Halt /\ UNCHANGED crashes

Next ==
  \/ \E c \in Channels, tx \in Txs : Close(c, tx)
  \/ \E c \in Channels : Withdraw(c) \/ ClosedListener(c)
                         \/ HandleClosedChannel(c)
                         \/ DeleteStateStreamError(c)
  \/ Crash \/ RegisterEventListeners

\* The web3 subscription delivers logs and the event loop runs the
\* listener and the startup handlers; a crashed node is restarted.
Fairness ==
  /\ \A c \in Channels : WF_vars(ClosedListener(c))
                         /\ WF_vars(HandleClosedChannel(c))
  /\ WF_vars(RegisterEventListeners)

Spec == Init /\ [][Next]_vars /\ Fairness

-----------------------------------------------------------------------------
TypeOK ==
  /\ up \in BOOLEAN /\ crashes \in 0..MaxCrashes
  /\ startup \in {"ready", "handling", "failed", "down"}
  /\ rec \in [Channels -> RecStates]
  /\ cob \in [Channels -> Balances \cup {-1}]
  /\ chain \in [Channels -> {CHANNEL_STATE_UNINITIALIZED, CHANNEL_STATE_FUNDED,
                             CHANNEL_STATE_WITHDRAWABLE}]
  /\ closing \in [Channels -> Txs]
  /\ listener \in [Channels -> {"none", "settlement"}]
  /\ logPending \in [Channels -> BOOLEAN]
  /\ handling \in [Channels -> -1..K]
  /\ streamErrors \in 0..MaxStreamErrors

\* Party's own balance under A's balance v.
Own(c, v) == IF local[c].partyA THEN v ELSE Total - v

(* The ClosedChannel listener (close.js:80) never accepts a close, i.e.  *)
(* marks the record SETTLED, whose transaction is older than the node's   *)
(* own last one and pays it less: hasBetterTransaction is there to mark   *)
(* it SETTLING and submit the node's own transaction instead.             *)
NeverAcceptWorseClose ==
  \A c \in Channels :
    rec[c] = "SETTLED" =>
      ~(/\ closing[c].index < local[c].last.index
        /\ Own(c, local[c].last.value) > Own(c, closing[c].value))

(* Restarting the node never fails while reconciling settled channels.   *)
StartupNeverFails == startup # "failed"

=============================================================================
