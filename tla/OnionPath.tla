------------------------------ MODULE OnionPath ------------------------------
(***************************************************************************)
(* What packet forwarding promises along one path                          *)
(*                                                                         *)
(*     Sender = 0  ->  relay 1  ->  ...  ->  relay N-1  ->  Receiver = N  *)
(*                                                                         *)
(* stated without Mixer, tags, awaits or wire: a packet reaches node n+1   *)
(* only after it reached relay n, the receiver emits a packet at most once *)
(* and only after it reached it, and relay n is paid for a packet at most  *)
(* once and only after the next hop did its part for it (relayed it on,    *)
(* or emitted it).  PacketForward implements this specification.          *)
(***************************************************************************)
EXTENDS Naturals

CONSTANTS Packets, N

VARIABLES
  reached,  \* reached[n]: packets sent to node n
  emitted,  \* emitted[p]: 1 once the receiver emitted p
  paid      \* paid[n][p]: 1 once relay n's ticket for p became redeemable

avars == <<reached, emitted, paid>>

Hops     == 1..N
Relays   == 1..(N-1)
Receiver == N

\* Node m has done its part for p.
Done(m, p) == IF m = Receiver THEN emitted[p] = 1 ELSE p \in reached[m + 1]

Init ==
  /\ reached = [n \in Hops |-> {}]
  /\ emitted = [p \in Packets |-> 0]
  /\ paid    = [n \in Relays |-> [p \in Packets |-> 0]]

\* The sender hands p to the first relay.
Inject(p) ==
  /\ p \notin reached[1]
  /\ reached' = [reached EXCEPT ![1] = @ \cup {p}]
  /\ UNCHANGED <<emitted, paid>>

\* Relay n passes p on to n+1.
Forward(n, p) ==
  /\ p \in reached[n] /\ p \notin reached[n + 1]
  /\ reached' = [reached EXCEPT ![n + 1] = @ \cup {p}]
  /\ UNCHANGED <<emitted, paid>>

\* The receiver emits p.
Deliver(p) ==
  /\ p \in reached[Receiver] /\ emitted[p] = 0
  /\ emitted' = [emitted EXCEPT ![p] = 1]
  /\ UNCHANGED <<reached, paid>>

\* Relay n's ticket for p becomes redeemable.
Pay(n, p) ==
  /\ Done(n + 1, p) /\ paid[n][p] = 0
  /\ paid' = [paid EXCEPT ![n][p] = 1]
  /\ UNCHANGED <<reached, emitted>>

Next ==
  \/ \E p \in Packets : Inject(p) \/ Deliver(p)
  \/ \E n \in Relays, p \in Packets : Forward(n, p) \/ Pay(n, p)

SafetySpec == Init /\ [][Next]_avars

\* On a transport that loses nothing, a packet handed on is carried to the
\* receiver and emitted.  Payment is not promised: see LastRelayPaid.
Spec ==
  /\ SafetySpec
  /\ \A p \in Packets :
       /\ WF_avars(Deliver(p))
       /\ \A n \in Relays : WF_avars(Forward(n, p))

=============================================================================
