----------------------------- MODULE ChainStore -----------------------------
(***************************************************************************)
(* What one node keeps on disk for fork choice, and the transactions that  *)
(* change it.  Each action operator below is one SQLite commit: a crash    *)
(* falls between two of them, never inside one.                            *)
(*                                                                         *)
(*   headers   block_headers: the tree of verified headers                 *)
(*   best      best_chain: a row's height is always its header's own, so   *)
(*             the index is the set of its hashes, one for a height        *)
(*   staged    staged_blocks: bound bodies waiting to be applied           *)
(*   refused   refused_headers: the marks                                  *)
(*   tip       the newest ordering_blocks row.  The apply funnel checks    *)
(*             the chain link, so the applied chain is Chain[tip]          *)
(*   journals  heights block_journal holds an undo record for              *)
(***************************************************************************)
EXTENDS HeaderTree, FiniteSetsExt

CONSTANT MaxReorgDepth
ASSUME MaxReorgDepthAssumption == MaxReorgDepth \in Nat \ {0}

VARIABLES headers, best, staged, refused, tip, journals
storeVars == <<headers, best, staged, refused, tip, journals>>

StoreTypeOK ==
  /\ headers \subseteq Blocks
  /\ best \subseteq Blocks
  /\ staged \subseteq Blocks
  /\ refused \subseteq Blocks
  /\ tip \in Nodes
  /\ journals \subseteq Nat \ {0}

StoreInit ==
  /\ headers = {} /\ best = {} /\ staged = {} /\ refused = {}
  /\ tip = Root
  /\ journals = {}

-----------------------------------------------------------------------------
(* Reads. *)

\* getBestTip: Root stands for null, so its height and work read as 0.
BestTip ==
  LET top == {b \in best : \A c \in best : Height(c) <= Height(b)}
  IN  IF top \cap headers = {} THEN Root ELSE CHOOSE b \in top \cap headers : TRUE

\* getOrderingBlockHash(Height(b)) = b
IsApplied(b) == b \in Path(tip)

LowestJournal == IF journals = {} THEN Height(tip) + 1 ELSE Min(journals)

ReachFloor ==
  LET byDepth == Height(tip) - MaxReorgDepth
      byJournal == LowestJournal - 1
  IN  IF byDepth > byJournal THEN byDepth ELSE byJournal

HeadersHeavierThan(w) == {b \in headers : Work[b] > w}

\* The members of S an ORDER BY chain_work DESC may list first.
Heaviest(S) == {b \in S : \A c \in S : Work[c] <= Work[b]}

-----------------------------------------------------------------------------
(* Commits. *)

InsertHeader(b) ==
  /\ headers' = headers \cup {b}
  /\ UNCHANGED <<best, staged, refused, tip, journals>>

RewriteBestChain(forkHeight, hashes) ==
  LET leaving == {b \in best : Height(b) > forkHeight}
  IN  /\ best' = (best \ leaving) \cup hashes
      /\ staged' = staged \ (leaving \ hashes)
      /\ UNCHANGED <<headers, refused, tip, journals>>

\* Mutated form of Subtree: the header alone, its descendants stay.
HeaderAlone(b) == {b}

\* The WITH RECURSIVE rows: b and what hangs off it through rows of headers.
Subtree(b) ==
  {b} \cup {d \in headers : b \in Path(d) /\ PathAbove(d, Height(b)) \subseteq headers}

\* Mutated form of RemoveHeaderSubtree: the staged bodies stay.
RemoveHeadersOnly(b) ==
  /\ headers' = headers \ Subtree(b)
  /\ best' = best \ Subtree(b)
  /\ UNCHANGED <<staged, refused, tip, journals>>

RemoveHeaderSubtree(b) ==
  /\ headers' = headers \ Subtree(b)
  /\ best' = best \ Subtree(b)
  /\ staged' = staged \ Subtree(b)
  /\ UNCHANGED <<refused, tip, journals>>

\* Mutated form of PruneHeadersBelow: rows of the index go as well.
PruneBestHeadersToo(height) ==
  LET kept == {b \in Blocks : Height(b) >= height}
  IN  /\ headers' = headers \cap kept
      /\ staged' = staged \cap kept
      /\ UNCHANGED <<best, refused, tip, journals>>

PruneHeadersBelow(height) ==
  LET kept == best \cup {b \in Blocks : Height(b) >= height}
  IN  /\ headers' = headers \cap kept
      /\ staged' = staged \cap kept
      /\ UNCHANGED <<best, refused, tip, journals>>

StageBlock(b) ==
  /\ staged' = staged \cup {b}
  /\ UNCHANGED <<headers, best, refused, tip, journals>>

UnstageBlock(b) ==
  /\ staged' = staged \ {b}
  /\ UNCHANGED <<headers, best, refused, tip, journals>>

InsertRefusedHeader(b) ==
  /\ refused' = refused \cup {b}
  /\ UNCHANGED <<headers, best, staged, tip, journals>>

\* purgeOldJournals(h - maxReorgDepth) over what a transaction leaves.
KeptJournals(js, h) == {j \in js : j >= h - MaxReorgDepth}

\* purgeRefusedHeaders(h - maxReorgDepth)
KeptMarks(h) == {b \in refused : Height(b) >= h - MaxReorgDepth}

\* Mutated form of CommitBlock: the journal is filed under the parent's height.
CommitBlockJournalBelow(b) ==
  /\ tip' = b
  /\ journals' = KeptJournals(journals \cup {Height(b) - 1}, Height(b))
  /\ refused' = KeptMarks(Height(b))
  /\ UNCHANGED <<headers, best, staged>>

\* The funnel's commit of a block it applied: block, journal and purges.
CommitBlock(b) ==
  /\ tip' = b
  /\ journals' = KeptJournals(journals \cup {Height(b)}, Height(b))
  /\ refused' = KeptMarks(Height(b))
  /\ UNCHANGED <<headers, best, staged>>

\* reorg's commit: revert above f, apply the blocks up to newTip, with one
\* journal each, and unstage them.  Each apply purges below its own height, so
\* the last bound is what stays; no apply, no purge.
CommitReorg(f, blocks, newTip) ==
  LET reverted == {j \in journals : j <= f}
  IN  /\ tip' = newTip
      /\ journals' = IF blocks = {} THEN reverted
                     ELSE KeptJournals(reverted \cup (f + 1) .. Height(newTip), Height(newTip))
      /\ refused' = IF blocks = {} THEN refused ELSE KeptMarks(Height(newTip))
      /\ staged' = staged \ blocks
      /\ UNCHANGED <<headers, best>>
=============================================================================
