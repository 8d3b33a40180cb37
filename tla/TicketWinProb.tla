---------------------------- MODULE TicketWinProb ----------------------------
(***************************************************************************)
(* The winning probability createDummyChannelTicket writes into a ticket   *)
(* (packages/core-ethereum/src/channel/index.ts:115) and the win test of   *)
(* spec 4.2 that reads it back: a ticket wins iff its hash, an integer of  *)
(* Hash.SIZE bytes, is below the threshold read as a little-endian         *)
(* integer.  A byte has Base values: 256 in the code, fewer here so that   *)
(* every hash can be enumerated.  The arithmetic is the same at any width. *)
(***************************************************************************)
EXTENDS Naturals, FiniteSets

LOCAL INSTANCE SequencesExt

CONSTANTS
  HashSize,  \* Hash.SIZE: bytes of a hash and of the threshold
  Base       \* values of one byte

ASSUME HashSize \in Nat \ {0} /\ Base \in Nat \ {0, 1}

Hashes == 0..(Base^HashSize - 1)

\* new BN(bytes): the bytes read most significant first.
FromBytesBE(s) == FoldLeft(LAMBDA acc, b : acc * Base + b, 0, s)

\* The threshold read least significant byte first (spec 4.2).
FromBytesLE(s) == FoldRight(LAMBDA b, acc : acc * Base + b, s, 0)

\* Mutant: the threshold written most significant byte first.
ToArrayBE(v, n) == [i \in 1..n |-> (v \div Base^(n - i)) % Base]

\* bn.toArray('le', n): least significant byte first, zero-padded to n.
ToArrayLE(v, n) == [i \in 1..n |-> (v \div Base^(i - 1)) % Base]

\* Mutant: 2^256 div WIN_PROB, one past the largest hash, cut to the bytes.
WinProbWrapped(winProb) == ToArrayLE((Base^HashSize) \div winProb, HashSize)

(* new BN(new Uint8Array(Hash.SIZE).fill(0xff)).div(WIN_PROB)             *)
(*   .toArray('le', Hash.SIZE)                                            *)
WinProb(winProb) ==
  ToArrayLE(FromBytesBE([i \in 1..HashSize |-> Base - 1]) \div winProb,
            HashSize)

\* Spec 4.2: the ticket wins iff hash < winProb.
IsWinning(hash, threshold) == hash < FromBytesLE(threshold)

\* How many of all hashes win under WIN_PROB = winProb.
Winners(winProb) == Cardinality({h \in Hashes : IsWinning(h, WinProb(winProb))})

=============================================================================
