--------------------------- MODULE ContractCallNonce ---------------------------
(***************************************************************************)
(* Transaction nonces of the legacy PaymentChannel                        *)
(* (src/src/paymentChannels/index.js).  PaymentChannel.create reads the    *)
(* account's transaction count once (line 92) and contractCall (line 489)  *)
(* hands out this.nonce to every transaction it sends.  Several            *)
(* contractCalls run interleaved at their awaits.  The chain mines an      *)
(* account's transactions strictly in nonce order; a transaction whose     *)
(* nonce is already mined is dropped.                                       *)
(***************************************************************************)
EXTENDS Integers, FiniteSets

CONSTANTS
  Calls,             \* contractCall invocations
  MaxGasFailures,    \* estimateGas rejections
  MaxSendFailures,   \* sendTransaction rejections before broadcast
  MaxCrashes         \* crashes and restarts of the node

VARIABLES
  up,         \* the node process is running
  nonce,      \* this.nonce
  pc,         \* pc[i]: where call i is: idle, estimate, send, done, failed
  txNonce,    \* txNonce[i]: the nonce call i sends with, or NoNonce
  sent,       \* transactions broadcast, as <<call, nonce, incarnation>>
  pool,       \* broadcast transactions not yet mined or dropped
  minedCount, \* the account's mined transaction count ('latest')
  mined,      \* calls whose transaction was mined
  faults      \* faults used: [gas, send, crash]

vars == <<up, nonce, pc, txNonce, sent, pool, minedCount, mined, faults>>

NoNonce == -1
Steps == {"idle", "estimate", "send", "done", "failed"}
\* Each call consumes at most one nonce, starting from 0.
Nonces == 0..Cardinality(Calls)
TxNonces == 0..Cardinality(Calls) - 1

Init ==
  /\ up = TRUE
  /\ nonce = 0            \* getTransactionCount(address, 'latest')
  /\ pc = [i \in Calls |-> "idle"]
  /\ txNonce = [i \in Calls |-> NoNonce]
  /\ sent = {} /\ pool = {}
  /\ minedCount = 0 /\ mined = {}
  /\ faults = [gas |-> 0, send |-> 0, crash |-> 0]

\* A caller (open, close, withdraw) invokes contractCall(txObject, ...).
ContractCall(i) ==
  /\ up /\ pc[i] = "idle"
  /\ pc' = [pc EXCEPT ![i] = "estimate"]
  /\ UNCHANGED <<up, nonce, txNonce, sent, pool, minedCount, mined, faults>>

\* await txObject.estimateGas(...) resolves; in the same synchronous run
\* this.nonce is incremented and sendTransaction gets this.nonce - 1.
EstimateGas(i) ==
  /\ up /\ pc[i] = "estimate"
  /\ nonce' = nonce + 1
  /\ txNonce' = [txNonce EXCEPT ![i] = nonce' - 1]
  /\ pc' = [pc EXCEPT ![i] = "send"]
  /\ UNCHANGED <<up, sent, pool, minedCount, mined, faults>>

\* estimateGas rejects: contractCall rejects before touching the nonce.
EstimateGasFails(i) ==
  /\ up /\ pc[i] = "estimate" /\ faults.gas < MaxGasFailures
  /\ pc' = [pc EXCEPT ![i] = "failed"]
  /\ faults' = [faults EXCEPT !.gas = @ + 1]
  /\ UNCHANGED <<up, nonce, txNonce, sent, pool, minedCount, mined>>

\* sendTransaction signs and broadcasts the transaction.
SendTransaction(i) ==
  /\ up /\ pc[i] = "send"
  /\ sent' = sent \cup {<<i, txNonce[i], faults.crash>>}
  /\ pool' = pool \cup {<<i, txNonce[i], faults.crash>>}
  /\ pc' = [pc EXCEPT ![i] = "done"]
  /\ UNCHANGED <<up, nonce, txNonce, minedCount, mined, faults>>

\* sendTransaction rejects before the transaction leaves the node; the
\* nonce it was given stays consumed.
SendTransactionFails(i) ==
  /\ up /\ pc[i] = "send" /\ faults.send < MaxSendFailures
  /\ pc' = [pc EXCEPT ![i] = "failed"]
  /\ faults' = [faults EXCEPT !.send = @ + 1]
  /\ UNCHANGED <<up, nonce, txNonce, sent, pool, minedCount, mined>>

\* The chain mines the pooled transaction with the next nonce; others with
\* that nonce are dropped.
Mine(t) ==
  /\ t \in pool /\ t[2] = minedCount
  /\ minedCount' = minedCount + 1
  /\ mined' = mined \cup {t[1]}
  /\ pool' = {u \in pool : u[2] > minedCount}
  /\ UNCHANGED <<up, nonce, pc, txNonce, sent, faults>>

\* The process dies; calls in flight are gone, the mempool is not.
Crash ==
  /\ up /\ faults.crash < MaxCrashes
  /\ up' = FALSE
  /\ pc' = [i \in Calls |-> IF pc[i] \in {"estimate", "send"}
                              THEN "failed" ELSE pc[i]]
  /\ faults' = [faults EXCEPT !.crash = @ + 1]
  /\ UNCHANGED <<nonce, txNonce, sent, pool, minedCount, mined>>

\* PaymentChannel.create: nonce = getTransactionCount(address, 'latest').
Restart ==
  /\ ~up
  /\ up' = TRUE /\ nonce' = minedCount
  /\ UNCHANGED <<pc, txNonce, sent, pool, minedCount, mined, faults>>

Next ==
  \/ \E i \in Calls : \/ ContractCall(i) \/ EstimateGas(i)
                      \/ EstimateGasFails(i) \/ SendTransaction(i)
                      \/ SendTransactionFails(i)
  \/ \E t \in pool : Mine(t)
  \/ Crash \/ Restart

\* Awaits settle, the chain mines valid transactions, the node restarts.
Fairness ==
  /\ \A i \in Calls : WF_vars(EstimateGas(i)) /\ WF_vars(SendTransaction(i))
  /\ WF_vars(\E t \in pool : Mine(t))
  /\ WF_vars(Restart)

Spec == Init /\ [][Next]_vars /\ Fairness

-----------------------------------------------------------------------------
TypeOK ==
  /\ up \in BOOLEAN /\ nonce \in Nonces
  /\ pc \in [Calls -> Steps]
  /\ txNonce \in [Calls -> TxNonces \cup {NoNonce}]
  /\ sent \subseteq Calls \X TxNonces \X (0..MaxCrashes) /\ pool \subseteq sent
  /\ minedCount \in Nonces /\ mined \subseteq Calls
  /\ faults \in [gas : 0..MaxGasFailures, send : 0..MaxSendFailures,
                 crash : 0..MaxCrashes]

(* No two transactions contractCall broadcasts share a nonce, also across *)
(* a restart: one of them would be dropped by the chain.                   *)
NoNonceReuse ==
  \A a, b \in sent : a[1] # b[1] => a[2] # b[2]

(* Every transaction contractCall broadcasts is eventually mined.        *)
EveryTxMined ==
  \A i \in Calls : (\E t \in sent : t[1] = i) ~> (i \in mined)

=============================================================================
