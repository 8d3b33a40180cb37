---------------------------- MODULE PacketForward ----------------------------
(***************************************************************************)
(* The packet forward interaction (PacketForwardInteraction in            *)
(* packages/core/src/interactions/packet/forward.ts) run by every node of  *)
(* one path                                                                *)
(*                                                                         *)
(*     Sender = 0  ->  relay 1  ->  ...  ->  relay N-1  ->  Receiver = N  *)
(*                                                                         *)
(* together with the collaborators forward.ts calls: the Mixer, the        *)
(* HoprDB tag and ticket stores, the transport (sendMessage with           *)
(* FORWARD_TIMEOUT) and the acknowledgement handler upstream.              *)
(*                                                                         *)
(* handleMixedPacket is an async function the Mixer calls without          *)
(* awaiting it, so every node runs many of them interleaved at their       *)
(* awaits.  A running call is a record [p, pc] in the bag handlers[n];     *)
(* pc names the await it is suspended at, and each action resumes one      *)
(* call and runs it to its next await.                                     *)
(*                                                                         *)
(* Packets are abstracted to their identity: the tag of packet p at node  *)
(* n is <<p, n>>, so tags[n] holds packets.  The PoR material is reduced   *)
(* to "the ack for p at n can only come from n+1" (module PoR checks the   *)
(* key-share algebra that makes this so).                                  *)
(***************************************************************************)
EXTENDS Naturals, FiniteSets, Bags, BagsExt

CONSTANTS
  Packets,          \* packets the sender sends along the path
  N,                \* the receiver's index; nodes 1..N-1 are relays
  MaxReplays,       \* wire messages an adversary may re-inject
  MaxTimeouts,      \* sendMessage calls that end in FORWARD_TIMEOUT
  MaxLosses,        \* messages the transport loses in flight
  MaxStoreFailures, \* storeUnacknowledgedTicket calls that reject
  MaxCrashes        \* node processes that crash and restart

ASSUME N \in Nat /\ N >= 2
ASSUME {MaxReplays, MaxTimeouts, MaxLosses, MaxStoreFailures, MaxCrashes}
         \subseteq Nat

VARIABLES
  unsent,      \* packets the sender has not sent yet
  wire,        \* bag of messages in flight
  sent,        \* every message ever put on the wire (what can be replayed)
  mixer,       \* mixer[n]: bag of packets waiting in node n's Mixer
  handlers,    \* handlers[n]: bag of suspended handleMixedPacket calls
  tags,        \* tags[n]: packet tags recorded in node n's HoprDB
  unack,       \* unack[n]: unacknowledged tickets node n has stored
  redeemed,    \* redeemed[n][p]: times an ack made p's ticket redeemable
  passed,      \* passed[n][p]: calls for p at n that got past checkPacketTag
  dispatched,  \* dispatched[n]: packets whose interact() resolved at n
  dropped,     \* dropped[n]: packets a call at n rejected as seen before
  faults       \* faults[k]: faults of kind k used so far

vars == <<unsent, wire, sent, mixer, handlers, tags, unack, redeemed,
          passed, dispatched, dropped, faults>>

Nodes    == 0..N
Sender   == 0
Receiver == N
Relays   == 1..(N-1)
Hops     == 1..N          \* nodes that run handlePacket for the path

FaultKinds == {"replay", "timeout", "loss", "store", "crash"}
Bound == [replay |-> MaxReplays, timeout |-> MaxTimeouts,
          loss |-> MaxLosses, store |-> MaxStoreFailures,
          crash |-> MaxCrashes]
CanFault(k) == faults[k] < Bound[k]
UseFault(k) == faults' = [faults EXCEPT ![k] = @ + 1]

Msg(kind, p, to) == [kind |-> kind, p |-> p, to |-> to]
Messages == [kind : {"pkt", "ack"}, p : Packets, to : Nodes]

\* Await points of handleMixedPacket (forward.ts:38-52).
Stages == {"checkTag", "store", "send"}
Call(p, pc) == [p |-> p, pc |-> pc]

\* Replace call h of node n by the calls in the set new.
Resume(n, h, new) ==
  handlers' = [handlers EXCEPT ![n] =
                 LET rest == BagRemove(@, h)
                 IN  IF new = {} THEN rest ELSE rest (+) SetToBag(new)]

\* Put the messages of the set ms on the wire.
Send(ms) ==
  /\ wire' = wire (+) SetToBag(ms)
  /\ sent' = sent \cup ms

-----------------------------------------------------------------------------
Init ==
  /\ unsent     = Packets
  /\ wire       = EmptyBag
  /\ sent       = {}
  /\ mixer      = [n \in Hops |-> EmptyBag]
  /\ handlers   = [n \in Hops |-> EmptyBag]
  /\ tags       = [n \in Hops |-> {}]
  /\ unack      = [n \in Hops |-> {}]
  /\ redeemed   = [n \in Hops |-> [p \in Packets |-> 0]]
  /\ passed     = [n \in Hops |-> [p \in Packets |-> 0]]
  /\ dispatched = [n \in Nodes |-> {}]
  /\ dropped    = [n \in Hops |-> {}]
  /\ faults     = [k \in FaultKinds |-> 0]

\* The sender's interact(firstHop, packet): the packet goes to relay 1.
SendPacket(p) ==
  /\ p \in unsent
  /\ unsent' = unsent \ {p}
  /\ Send({Msg("pkt", p, 1)})
  /\ dispatched' = [dispatched EXCEPT ![Sender] = @ \cup {p}]
  /\ UNCHANGED <<mixer, handlers, tags, unack, redeemed, passed, dropped,
                 faults>>

\* Mutant: the raw message is pushed into the Mixer without being decoded.
DeserializeRaw(m) == m

\* Packet.deserialize(msg.slice(), privKey, remotePeer): the packet a
\* message carries.
Deserialize(m) == m.p

\* handlePacket: deserialize the bytes and push the packet into the Mixer.
HandlePacket(n, m) ==
  /\ m.kind = "pkt" /\ m.to = n
  /\ wire'  = BagRemove(wire, m)
  /\ mixer' = [mixer EXCEPT ![n] = BagAdd(@, Deserialize(m))]
  /\ UNCHANGED <<unsent, sent, handlers, tags, unack, redeemed, passed,
                 dispatched, dropped, faults>>

\* Mutant: an acknowledged ticket stays in the store.
AcknowledgedKeep(ts, p) == ts

\* The unacknowledged tickets once the ticket for p is acknowledged.
Acknowledged(ts, p) == ts \ {p}

\* The acknowledgement handler: an ack for p turns the unacknowledged
\* ticket stored for p into a redeemable one; an ack with no stored ticket
\* is ignored.
HandleAcknowledgement(n, m) ==
  /\ m.kind = "ack" /\ m.to = n
  /\ wire' = BagRemove(wire, m)
  /\ IF n \in Hops /\ m.p \in unack[n]
       THEN /\ unack'    = [unack EXCEPT ![n] = Acknowledged(@, m.p)]
            /\ redeemed' = [redeemed EXCEPT ![n][m.p] = @ + 1]
       ELSE UNCHANGED <<unack, redeemed>>
  /\ UNCHANGED <<unsent, sent, mixer, handlers, tags, passed, dispatched,
                 dropped, faults>>

\* The Mixer releases a packet and calls handleMixedPacket(packet), which
\* runs up to its first await, checkPacketTag.
MixerRelease(n, p) ==
  /\ p \in BagToSet(mixer[n])
  /\ mixer'    = [mixer EXCEPT ![n] = BagRemove(@, p)]
  /\ handlers' = [handlers EXCEPT ![n] = BagAdd(@, Call(p, "checkTag"))]
  /\ UNCHANGED <<unsent, wire, sent, tags, unack, redeemed, passed,
                 dispatched, dropped, faults>>

\* Mutant: the result of the tag lookup is read the wrong way round.
SeenBeforeInverted(ts, p) == p \notin ts

\* checkPacketTag rejects a packet whose tag is in the DB.
SeenBefore(ts, p) == p \in ts

\* checkPacketTag stores the packet's tag.
TagRecorded(ts, p) == ts \cup {p}

\* await packet.checkPacketTag(db): the tag is checked and recorded in one
\* step.  A tag seen before rejects the call.  Otherwise the receiver emits
\* the plaintext and returns; a relay goes on to store its ticket.
CheckPacketTag(n, h) ==
  /\ h.pc = "checkTag"
  /\ tags' = [tags EXCEPT ![n] = TagRecorded(@, h.p)]
  /\ IF SeenBefore(tags[n], h.p)
       THEN /\ dropped' = [dropped EXCEPT ![n] = @ \cup {h.p}]
            /\ Resume(n, h, {})
            /\ UNCHANGED passed
       ELSE /\ passed' = [passed EXCEPT ![n][h.p] = @ + 1]
            /\ Resume(n, h, IF n = Receiver THEN {} ELSE {Call(h.p, "store")})
            /\ UNCHANGED dropped
  /\ UNCHANGED <<unsent, wire, sent, mixer, unack, redeemed, dispatched,
                 faults>>

\* await storeUnacknowledgedTicket(db); await forwardTransform(...): the
\* ticket is stored and the packet re-encoded for the next hop, then
\* interact() is called.  The two awaits are one step: no other step
\* reads what forwardTransform changes.  A rejecting store ends the call.
StoreUnacknowledgedTicket(n, h) ==
  /\ h.pc = "store"
  /\ \/ /\ unack' = [unack EXCEPT ![n] = @ \cup {h.p}]
        /\ Resume(n, h, {Call(h.p, "send")})
        /\ UNCHANGED faults
     \/ /\ CanFault("store") /\ UseFault("store")
        /\ Resume(n, h, {})
        /\ UNCHANGED unack
  /\ UNCHANGED <<unsent, wire, sent, mixer, tags, redeemed, passed,
                 dispatched, dropped>>

\* Mutant: sendAcknowledgement is never called.
AckAfterSendNone(n, p) == {}

\* sendAcknowledgement(packet, previousHop, ...) once interact() resolved.
AckAfterSend(n, p) == {Msg("ack", p, n - 1)}

\* Mutant: sendAcknowledgement runs also when interact() rejected.
AckAfterTimeoutSent(n, p) == {Msg("ack", p, n - 1)}

\* A rejected interact() skips sendAcknowledgement: no ack.
AckAfterTimeout(n, p) == {}

\* await this.interact(nextHop, packet), then sendAcknowledgement to the
\* previous hop (not awaited).  When sendMessage rejects with the timeout
\* the call ends without an ack; the packet may still have arrived.
Interact(n, h) ==
  /\ h.pc = "send"
  /\ Resume(n, h, {})
  /\ \/ /\ Send({Msg("pkt", h.p, n + 1)} \cup AckAfterSend(n, h.p))
        /\ dispatched' = [dispatched EXCEPT ![n] = @ \cup {h.p}]
        /\ UNCHANGED faults
     \/ /\ CanFault("timeout") /\ UseFault("timeout")
        /\ \E arrived \in BOOLEAN :
             Send((IF arrived THEN {Msg("pkt", h.p, n + 1)} ELSE {})
                  \cup AckAfterTimeout(n, h.p))
        /\ UNCHANGED dispatched
  /\ UNCHANGED <<unsent, mixer, tags, unack, redeemed, passed, dropped>>

\* The transport loses a message.
Lose(m) ==
  /\ CanFault("loss") /\ UseFault("loss")
  /\ wire' = BagRemove(wire, m)
  /\ UNCHANGED <<unsent, sent, mixer, handlers, tags, unack, redeemed,
                 passed, dispatched, dropped>>

\* An adversary re-sends bytes it saw on the wire.
Replay(m) ==
  /\ CanFault("replay") /\ UseFault("replay")
  /\ wire' = BagAdd(wire, m)
  /\ UNCHANGED <<unsent, sent, mixer, handlers, tags, unack, redeemed,
                 passed, dispatched, dropped>>

\* Node n's process dies and a new PacketForwardInteraction is constructed
\* with a new Mixer: the packets in the Mixer and the suspended
\* handleMixedPacket calls are gone, the tags and tickets in HoprDB stay.
Crash(n) ==
  /\ CanFault("crash") /\ UseFault("crash")
  /\ mixer'    = [mixer EXCEPT ![n] = EmptyBag]
  /\ handlers' = [handlers EXCEPT ![n] = EmptyBag]
  /\ UNCHANGED <<unsent, wire, sent, tags, unack, redeemed, passed,
                 dispatched, dropped>>

\* Every packet is sent and every message, Mixer entry and call is done:
\* the nodes idle.
Idle ==
  /\ unsent = {} /\ wire = EmptyBag
  /\ \A n \in Hops : mixer[n] = EmptyBag /\ handlers[n] = EmptyBag
  /\ UNCHANGED vars

OnWire == BagToSet(wire)
CallsAt(n) == BagToSet(handlers[n])

Next ==
  \/ \E p \in Packets : SendPacket(p)
  \/ \E m \in OnWire : HandlePacket(m.to, m)
  \/ \E m \in OnWire : HandleAcknowledgement(m.to, m)
  \/ \E n \in Hops, p \in Packets : MixerRelease(n, p)
  \/ \E n \in Hops : \E h \in CallsAt(n) :
        \/ CheckPacketTag(n, h)
        \/ StoreUnacknowledgedTicket(n, h)
        \/ Interact(n, h)
  \/ \E m \in OnWire : Lose(m)
  \/ \E m \in sent : Replay(m)
  \/ \E n \in Hops : Crash(n)
  \/ Idle

\* The event loop resumes every settled await, the Mixer's timer fires
\* and the transport hands over what it carries: each is weakly fair.
Fairness ==
  /\ \A p \in Packets : WF_vars(SendPacket(p))
  /\ WF_vars(\E m \in OnWire : HandlePacket(m.to, m))
  /\ WF_vars(\E m \in OnWire : HandleAcknowledgement(m.to, m))
  /\ \A n \in Hops :
       /\ WF_vars(\E p \in Packets : MixerRelease(n, p))
       /\ WF_vars(\E h \in CallsAt(n) : CheckPacketTag(n, h))
       /\ WF_vars(\E h \in CallsAt(n) : StoreUnacknowledgedTicket(n, h))
       /\ WF_vars(\E h \in CallsAt(n) : Interact(n, h))

Spec == Init /\ [][Next]_vars /\ Fairness

-----------------------------------------------------------------------------
TypeOK ==
  /\ unsent \subseteq Packets
  /\ IsABag(wire) /\ BagToSet(wire) \subseteq Messages
  /\ sent \subseteq Messages
  /\ \A n \in Hops :
       /\ IsABag(mixer[n]) /\ BagToSet(mixer[n]) \subseteq Packets
       /\ IsABag(handlers[n])
       /\ BagToSet(handlers[n]) \subseteq [p : Packets, pc : Stages]
       /\ tags[n] \subseteq Packets /\ unack[n] \subseteq Packets
       /\ dropped[n] \subseteq Packets
       /\ redeemed[n] \in [Packets -> Nat] /\ passed[n] \in [Packets -> Nat]
  /\ \A n \in Nodes : dispatched[n] \subseteq Packets
  /\ faults \in [FaultKinds -> Nat]

\* Node m has done its part for p: the receiver emitted it, a relay's
\* interact() with the next hop resolved.
Relayed(m, p) ==
  IF m = Receiver THEN passed[m][p] > 0 ELSE p \in dispatched[m]

(* Proof of relay: a relay's ticket for p becomes redeemable only after   *)
(* the next hop has done its part for p (forwarded it, or emitted it),    *)
(* whatever timeouts, losses and replays happened on the way.  This is    *)
(* what the ordering "await interact, then sendAcknowledgement" in        *)
(* handleMixedPacket is for.                                              *)
RedeemOnlyAfterRelay ==
  \A n \in Relays, p \in Packets : redeemed[n][p] > 0 => Relayed(n + 1, p)

(* Spec 7: a packet that was validated is never later treated as a replay *)
(* unless an earlier call for it completed or is still running: a call    *)
(* that rejects after checkPacketTag must not make a retransmission look  *)
(* like a replay.                                                         *)
ReplayOnlyOfHandled ==
  \A n \in Hops, p \in Packets :
    p \in dropped[n] =>
      \/ Relayed(n, p)
      \/ \E h \in CallsAt(n) : h.p = p /\ h.pc # "checkTag"

\* Refinement mapping: a packet reached node n once a message carrying it
\* to n was put on the wire; the receiver's emissions and each relay's
\* redemptions are counted as they happen.
Path == INSTANCE OnionPath WITH
          reached <- [n \in Hops |-> {p \in Packets : Msg("pkt", p, n) \in sent}],
          emitted <- passed[Receiver],
          paid    <- [n \in Relays |-> redeemed[n]]

(* The nodes' handlePacket, handleMixedPacket and acknowledgement        *)
(* handler, with replays, losses, timeouts and failing stores, implement  *)
(* OnionPath: packets move hop by hop, the receiver emits each packet at  *)
(* most once, and a relay's ticket becomes redeemable at most once and    *)
(* only after the next hop relayed or emitted the packet.                 *)
ImplementsOnionPathSafety == Path!SafetySpec

(* With fair scheduling and a transport that loses nothing, the nodes     *)
(* implement OnionPath with its fairness: every packet the sender sends   *)
(* is carried hop by hop to the receiver and emitted.                      *)
ImplementsOnionPath == Path!Spec

(* A relay whose successor is a relay eventually holds its ticket for p  *)
(* acknowledged: the successor's handleMixedPacket acks every packet it   *)
(* forwards, on a transport that loses nothing.                           *)
UpstreamRelaysEventuallyPaid ==
  \A n \in 1..(N-2), p \in Packets :
    (p \in unack[n]) ~> (redeemed[n][p] > 0)

(* Spec 8, end to end: every relay that stores a ticket for p eventually  *)
(* holds it acknowledged, on a transport that loses nothing.              *)
EveryRelayEventuallyPaid ==
  \A n \in Relays, p \in Packets : (p \in unack[n]) ~> (redeemed[n][p] > 0)

=============================================================================
