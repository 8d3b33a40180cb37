--------------------------- MODULE MCPacketForward ---------------------------
(* Model-checking harness for PacketForward: packets are model values and *)
(* may be permuted freely in the safety runs.                             *)
EXTENDS PacketForward, TLC

CONSTANTS p1, p2

MCPackets == {p1, p2}

MCOnePacket == {p1}

PacketSymmetry == Permutations(MCPackets)

\* The PoR challenge builder over Z_7, every secret drawn from all of it.
PoRCheck == INSTANCE PoR WITH N <- 7, Gen <- 3, Secrets <- 0..6

(* The assertions of the PoR test hold for every choice of secrets, and   *)
(* spec 8's negative cases are rejected.  They depend on constants only,  *)
(* so TLC checks them before each run of this harness.                    *)
ASSUME PoRTestHolds == PoRCheck!PoRChainValid /\ PoRCheck!PoRRejectsOthers
=============================================================================
