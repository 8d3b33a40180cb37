-------------------------- MODULE LegacyPaymentChannel -------------------------
(***************************************************************************)
(* One PaymentChannel instance of src/src/paymentChannels/index.js: its    *)
(* channel records and listeners (PaymentChannelRecord) and its            *)
(* transaction nonce (ContractCallNonce) live in the same process.  A      *)
(* crash loses the listeners, the pending handlers and the calls in        *)
(* flight at once; PaymentChannel.create then reads the nonce and          *)
(* registers the listeners again.                                          *)
(***************************************************************************)
EXTENDS Naturals

CONSTANTS K, Total, MaxIndex, MaxCrashes, MaxStreamErrors,
          Calls, MaxGasFailures, MaxSendFailures

VARIABLES up, crashes, startup, local, rec, cob, chain, closing, listener,
          logPending, handling, streamErrors,
          nonce, pc, txNonce, sent, pool, minedCount, mined, faults

R == INSTANCE PaymentChannelRecord
\* The nonce half sees every death of the process, crash or stream error.
N == INSTANCE ContractCallNonce WITH MaxCrashes <- MaxCrashes + MaxStreamErrors

recVars   == <<crashes, startup, local, rec, cob, chain, closing, listener,
               logPending, handling, streamErrors>>
nonceVars == <<nonce, pc, txNonce, sent, pool, minedCount, mined, faults>>
vars == <<up, recVars, nonceVars>>

Init == R!Init /\ N!Init

\* The process dies: both halves lose their in-memory state together.
Crash == R!Crash /\ N!Crash

\* PaymentChannel.create: the nonce is read with getTransactionCount and
\* registerEventListeners runs on the new instance.
Create == R!RegisterEventListeners /\ N!Restart

\* deleteState's stream error kills the process: both halves die.
DeleteStateStreamError(c) == R!DeleteStateStreamError(c) /\ N!Crash

Next ==
  \/ /\ \/ \E c \in R!Channels, tx \in R!Txs : R!Close(c, tx)
        \/ \E c \in R!Channels : \/ R!Withdraw(c) \/ R!ClosedListener(c)
                                 \/ R!HandleClosedChannel(c)
     /\ UNCHANGED nonceVars
  \/ /\ \/ \E i \in Calls : \/ N!ContractCall(i) \/ N!EstimateGas(i)
                            \/ N!EstimateGasFails(i) \/ N!SendTransaction(i)
                            \/ N!SendTransactionFails(i)
        \/ \E t \in pool : N!Mine(t)
     /\ UNCHANGED recVars
  \/ Crash
  \/ \E c \in R!Channels : DeleteStateStreamError(c)
  \/ Create

Spec == Init /\ [][Next]_vars

-----------------------------------------------------------------------------
TypeOK == R!TypeOK /\ N!TypeOK

(* The ClosedChannel listener never marks SETTLED an older close that    *)
(* pays the node less than its own last transaction (close.js:80).       *)
NeverAcceptWorseClose == R!NeverAcceptWorseClose

=============================================================================
