--------------------------------- MODULE PoR ---------------------------------
(***************************************************************************)
(* The proof-of-relay challenge builder of spec 4.1, as exercised by       *)
(* packages/utils/src/crypto/por/index.spec.ts.  Its implementation is not  *)
(* in the repository, so the operators follow the spec and the test.      *)
(*                                                                         *)
(* secp256k1 is replaced by the cyclic group Z_N with generator Gen:       *)
(* publicKeyCreate(x) is x * Gen and publicKeyCombine is addition, so the *)
(* point of a + b is the combination of the points of a and b, as on the *)
(* curve.  The key derivations are hashes of the secret; they are        *)
(* modelled as fixed bijections, i.e. without collisions, and so is the   *)
(* address, a truncated hash of the point.                                *)
(***************************************************************************)
EXTENDS Naturals

CONSTANTS
  N,       \* group order, a prime
  Gen,     \* generator, in 1..N-1
  Secrets  \* per-hop secrets the sender may draw

ASSUME N \in Nat \ {0, 1} /\ Gen \in 1..(N - 1) /\ Secrets \subseteq 0..(N - 1)

\* publicKeyCreate: the point of a scalar.
PublicKeyCreate(x) == (x * Gen) % N

\* publicKeyCombine: point addition.
PublicKeyCombine(p, q) == (p + q) % N

\* toAddress: the account-identifier hash of a point.
ToAddress(p) == p

\* deriveAckKeyShare(secret): the key share the next hop reveals in its ack.
DeriveAckKeyShare(s) == (2 * s + 1) % N

\* The own key share a hop derives from its secret (spec 4.1 "ownKey").
DeriveOwnKeyShare(s) == (3 * s + 2) % N

\* createFirstChallenge(s0, s1): the challenge of the first hop's ticket.
CreateFirstChallenge(s0, s1) ==
  [ticketChallenge |-> PublicKeyCombine(PublicKeyCreate(DeriveOwnKeyShare(s0)),
                                        PublicKeyCreate(DeriveAckKeyShare(s1))),
   ownKey          |-> DeriveOwnKeyShare(s0)]

(* createPoRString(sCur, sNext): the next hop's ticket challenge, then the *)
(* hint of the key share the current hop's ack will reveal.               *)
CreatePoRString(sCur, sNext) ==
  <<PublicKeyCombine(PublicKeyCreate(DeriveOwnKeyShare(sCur)),
                     PublicKeyCreate(DeriveAckKeyShare(sNext))),
    PublicKeyCreate(DeriveAckKeyShare(sCur))>>

(* preVerify(secret, porString, challengeAddress): the hop's own key plus *)
(* the hinted ack point must be the challenge its ticket commits to.      *)
PreVerify(s, por, address) ==
  LET ownKey == DeriveOwnKeyShare(s)
  IN  [valid               |-> ToAddress(PublicKeyCombine(PublicKeyCreate(ownKey),
                                                          por[2])) = address,
       ackChallenge        |-> por[2],
       nextTicketChallenge |-> por[1],
       ownKey              |-> ownKey,
       ownShare            |-> PublicKeyCreate(ownKey)]

\* validateAcknowledgement with a precomputed response.
ValidateResponse(response, address) ==
  ToAddress(PublicKeyCreate(response)) = address

(* validateAcknowledgement(ownKey, ack, challengeAddress): the response   *)
(* is the sum of the two scalars; it solves the challenge iff its point   *)
(* has the ticket's challenge address.                                    *)
ValidateAcknowledgement(ownKey, ack, address) ==
  LET response == (ownKey + ack) % N
  IN  [valid |-> ValidateResponse(response, address), response |-> response]

-----------------------------------------------------------------------------
(* The first test of index.spec.ts for every choice of four secrets: each *)
(* relayer's preVerify accepts the challenge the previous hop committed   *)
(* to, extracts the next hop's challenge, and the ack derived from the    *)
(* next secret solves it, with and without the precomputed share.         *)
PoRChainValid ==
  \A s0, s1, s2, s3 \in Secrets :
    LET first  == CreateFirstChallenge(s0, s1)
        por1   == CreatePoRString(s1, s2)
        por2   == CreatePoRString(s2, s3)
        r1     == PreVerify(s0, por1, ToAddress(first.ticketChallenge))
        r2     == PreVerify(s1, por2, ToAddress(r1.nextTicketChallenge))
        v1     == ValidateAcknowledgement(r1.ownKey, DeriveAckKeyShare(s1),
                                          ToAddress(first.ticketChallenge))
    IN  /\ r1.valid
        /\ r1.ackChallenge = PublicKeyCreate(DeriveAckKeyShare(s1))
        /\ v1.valid
        /\ ValidateResponse(v1.response, ToAddress(first.ticketChallenge))
        /\ r2.valid
        /\ ValidateAcknowledgement(r2.ownKey, DeriveAckKeyShare(s2),
                                   ToAddress(r1.nextTicketChallenge)).valid

(* Spec 8: the ack derived from any secret other than s1 fails against   *)
(* createFirstChallenge(s0, s1), and preVerify accepts a challenge        *)
(* address iff it is the one createFirstChallenge(s0, s1) commits to.     *)
PoRRejectsOthers ==
  \A s0, s1, s2, t \in Secrets :
    LET first == CreateFirstChallenge(s0, s1)
    IN  /\ t # s1 =>
             ~ValidateAcknowledgement(first.ownKey, DeriveAckKeyShare(t),
                                      ToAddress(first.ticketChallenge)).valid
        /\ \A address \in 0..(N - 1) :
             PreVerify(s0, CreatePoRString(s1, s2), address).valid
               <=> address = ToAddress(first.ticketChallenge)

=============================================================================
