---------------------------- MODULE IndexerSnapshot ----------------------------
(***************************************************************************)
(* The indexer utilities of packages/core-ethereum/src/indexer/utils.ts:   *)
(* snapshotComparator orders channel logs, isConfirmedBlock decides which  *)
(* blocks are final enough, and updateChannelEntry stores a channel entry  *)
(* together with the latest confirmed snapshot.                           *)
(*                                                                         *)
(* The indexer that calls them is not in src: it is modelled as the loop   *)
(* they are written for, applying the next confirmed log, in               *)
(* snapshotComparator order, after the latest confirmed snapshot.  The     *)
(* chain grows block by block and may drop its last MaxReorgDepth blocks;  *)
(* a block has a unique id, so a block re-mined at the same height is a    *)
(* different one.                                                          *)
(***************************************************************************)
EXTENDS Integers, Sequences

CONSTANTS
  MaxConfirmations, \* the indexer's maxConfirmations
  MaxReorgDepth,    \* deepest reorganisation of the chain
  MaxBlocks,        \* blocks mined in all
  MaxReorgs,        \* reorganisations in all
  Logs              \* the logs a block may hold: [tx, li, ch]

VARIABLES
  chain,      \* the canonical chain: a sequence of [id, logs]
  mined,      \* blocks mined so far, the next block's id
  reorgs,     \* reorganisations so far
  entries,    \* entries[ch]: the snapshot and block id of the stored entry
  latest,     \* LATEST_CONFIRMED_SNAPSHOT, or None
  applied     \* history: [block id, log] pairs given to updateChannelEntry

vars == <<chain, mined, reorgs, entries, latest, applied>>

None == [block |-> 0, tx |-> 0, li |-> 0]
Channels == {l.ch : l \in Logs}
\* new Snapshot(undefined, {blockNumber, transactionIndex, logIndex}) of the
\* log l in block h.
Snap(h, l) == [block |-> h, tx |-> l.tx, li |-> l.li]

-----------------------------------------------------------------------------
\* Mutant: logIndex compared before transactionIndex.
SnapshotComparatorSwapped(a, b) ==
  CASE a.block # b.block -> a.block - b.block
    [] a.li # b.li       -> a.li - b.li
    [] OTHER             -> a.tx - b.tx

(* snapshotComparator(snapA, snapB): 0 if equal, negative if a comes     *)
(* first.                                                                 *)
SnapshotComparator(a, b) ==
  CASE a.block # b.block -> a.block - b.block
    [] a.tx # b.tx       -> a.tx - b.tx
    [] OTHER             -> a.li - b.li

\* Mutant: the head block counts as one of its own confirmations.
IsConfirmedBlockWithHead(blockNumber, onChainBlockNumber, maxConfirmations) ==
  blockNumber + maxConfirmations <= onChainBlockNumber + 1

(* isConfirmedBlock(blockNumber, onChainBlockNumber, maxConfirmations).  *)
IsConfirmedBlock(blockNumber, onChainBlockNumber, maxConfirmations) ==
  blockNumber + maxConfirmations <= onChainBlockNumber

\* The logs of confirmed blocks the indexer has not reached yet.
Pending ==
  {<<h, l>> \in (1..Len(chain)) \X Logs :
     /\ l \in chain[h].logs
     /\ IsConfirmedBlock(h, Len(chain), MaxConfirmations)
     /\ latest = None \/ SnapshotComparator(Snap(h, l), latest) > 0}

Init ==
  /\ chain = <<>> /\ mined = 0 /\ reorgs = 0
  /\ entries = [ch \in Channels |-> None]
  /\ latest = None                 \* getLatestConfirmedSnapshot: notFound
  /\ applied = {}

\* A new block with some of the logs.
Mine(logs) ==
  /\ mined < MaxBlocks
  /\ mined' = mined + 1
  /\ chain' = Append(chain, [id |-> mined + 1, logs |-> logs])
  /\ UNCHANGED <<reorgs, entries, latest, applied>>

\* The last d blocks are replaced; their successors are mined later.
Reorg(d) ==
  /\ reorgs < MaxReorgs /\ d <= Len(chain)
  /\ reorgs' = reorgs + 1
  /\ chain' = SubSeq(chain, 1, Len(chain) - d)
  /\ UNCHANGED <<mined, entries, latest, applied>>

\* The indexer loop takes the first pending log in snapshotComparator order.
FirstPending(h, l) ==
  \A p \in Pending : SnapshotComparator(Snap(h, l), Snap(p[1], p[2])) <= 0

\* Mutant: the values of the two puts of the batch swapped.
UpdateChannelEntrySwappedPuts(h, l) ==
  /\ <<h, l>> \in Pending
  /\ \A p \in Pending : SnapshotComparator(Snap(h, l), Snap(p[1], p[2])) <= 0
  /\ entries' = [entries EXCEPT ![l.ch] = Snap(h, l)]
  /\ latest' = [snap |-> Snap(h, l), id |-> chain[h].id]
  /\ applied' = applied \cup {<<chain[h].id, l>>}
  /\ UNCHANGED <<chain, mined, reorgs>>

\* updateChannelEntry(partyA, partyB, channelEntry): one batch puts the
\* channel entry and the snapshot of its log as the latest confirmed one.
\* The indexer calls it for the first pending log in comparator order.
UpdateChannelEntry(h, l) ==
  /\ <<h, l>> \in Pending /\ FirstPending(h, l)
  /\ entries' = [entries EXCEPT ![l.ch] =
                   [snap |-> Snap(h, l), id |-> chain[h].id]]
  /\ latest' = Snap(h, l)
  /\ applied' = applied \cup {<<chain[h].id, l>>}
  /\ UNCHANGED <<chain, mined, reorgs>>

Next ==
  \/ \E logs \in SUBSET Logs : Mine(logs)
  \/ \E d \in 1..MaxReorgDepth : Reorg(d)
  \/ \E h \in 1..Len(chain), l \in Logs : UpdateChannelEntry(h, l)

Spec == Init /\ [][Next]_vars

-----------------------------------------------------------------------------
Snapshots == [block : 0..MaxBlocks, tx : {l.tx : l \in Logs},
              li : {l.li : l \in Logs}]

TypeOK ==
  /\ Len(chain) \in 0..MaxBlocks /\ mined \in 0..MaxBlocks
  /\ reorgs \in 0..MaxReorgs
  /\ latest \in Snapshots \cup {None}
  /\ \A ch \in Channels :
       entries[ch] = None \/ entries[ch] \in [snap : Snapshots,
                                               id : 1..MaxBlocks]

\* Lexicographic order on (blockNumber, transactionIndex, logIndex).
LexLess(a, b) ==
  \/ a.block < b.block
  \/ a.block = b.block /\ (a.tx < b.tx \/ (a.tx = b.tx /\ a.li < b.li))

(* A stored channel entry comes from a block that is still on the chain:  *)
(* waiting for MaxConfirmations blocks protects the DB against every      *)
(* reorganisation up to that depth.                                        *)
EntriesOnCanonicalChain ==
  \A ch \in Channels :
    entries[ch] # None =>
      LET h == entries[ch].snap.block
      IN  h <= Len(chain) /\ chain[h].id = entries[ch].id

(* No log of a confirmed block is skipped: every one that comes before    *)
(* the latest confirmed snapshot in (block, tx, log) order was applied.   *)
NoConfirmedLogSkipped ==
  \A h \in 1..Len(chain), l \in Logs :
    /\ l \in chain[h].logs
    /\ IsConfirmedBlock(h, Len(chain), MaxConfirmations)
    /\ latest # None /\ LexLess(Snap(h, l), latest)
    => <<chain[h].id, l>> \in applied

=============================================================================
