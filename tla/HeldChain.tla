----------------------------- MODULE HeldChain -----------------------------
(***************************************************************************)
(* The chain a browser client holds: the last K headers of one chain and   *)
(* its block 1, and what it answers about a hash.  Settling, linking and   *)
(* extending all leave the window the last K headers of the path to its    *)
(* tip, so the tip stands for the whole; Root stands for no chain yet.     *)
(*                                                                         *)
(* BadHeaders carry no valid work, or, those of OffSchedule, valid work    *)
(* that is not what their schedule asks.                                   *)
(* Two proofs are compared by the work of their chains, of which the       *)
(* superblock score of compareProofs is an estimate.                       *)
(***************************************************************************)
EXTENDS HeaderTree, SequencesExt

CONSTANTS
  K,            \* DEFAULT_K, the headers a window holds
  MinProved,    \* m + k, the lowest height a node builds a proof at
  OffSchedule   \* headers with work at a target that is not the scheduled one

ASSUME WindowAssumption == K \in Nat \ {0} /\ MinProved \in Nat /\ MinProved > K
ASSUME ScheduleAssumption == OffSchedule \subseteq BadHeaders

Window(tip) == PathAbove(tip, IF Height(tip) > K THEN Height(tip) - K ELSE 0)

\* standing: the window, and block 1.
HeldBy(tip) == IF tip = Root THEN {} ELSE Window(tip) \cup {Chain[tip][1]}

Place(tip, b) ==
  CASE tip = Root                     -> "unplaced"
    [] Height(b) > Height(tip)        -> "above"
    [] Height(b) <= Height(tip) - K   -> "under"
    [] b \notin Window(tip)           -> "unplaced"
    [] b = tip                        -> "tip"
    [] Height(b) = Height(tip) - 1    -> "one-below"
    [] OTHER                          -> "below"

\* link: the headers of b above the tip the fill was read from.  Each carries
\* its work, and the lowest one's parent is the tip held now.
Links(tip, from, b) ==
  /\ tip = from
  /\ from \in Path(b)
  /\ PathAbove(b, Height(from)) \cap BadHeaders = {}

Extends(tip, b) == tip # Root /\ Parent(b) = tip

\* Where a proof's tip stands on the winner's suffix, -1 when it is not there.
BehindOnSuffix(winner, b) == IF b \in Window(winner) THEN Height(winner) - Height(b) ELSE -1

\* resolveTip over the tips proved, in order: a proof wins only by more work.
Winner(proved) ==
  CHOOSE i \in DOMAIN proved :
    /\ \A j \in DOMAIN proved : Work[proved[j]] <= Work[proved[i]]
    /\ \A j \in DOMAIN proved : Work[proved[j]] = Work[proved[i]] => i <= j

\* scheduledTargetBits answers where the header's parent is held.
ScheduleKnown(tip, b) == tip # Root /\ (Height(b) = 1 \/ Parent(b) \in HeldBy(tip))

\* BlockCheck.check: the header's work, its schedule, whether it is held, then
\* the body.  Off its schedule a header is refused, and no lie.
BlockVerdict(tip, b, forged) ==
  CASE b \in BadHeaders \ OffSchedule               -> "lie"
    [] b \in OffSchedule /\ ScheduleKnown(tip, b)   -> "refuse"
    [] b \notin BadHeaders /\ b \in HeldBy(tip)     -> "ignore"
    [] OTHER -> IF forged THEN "lie" ELSE "accept"
=============================================================================
