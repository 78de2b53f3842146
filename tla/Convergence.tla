---------------------------- MODULE Convergence -----------------------------
(***************************************************************************)
(* The intake with one honest peer that stays connected: it claims its     *)
(* applied tip, answers the node's locators from its applied chain, and    *)
(* answers the ids the node wants.  Every other peer delivers what it      *)
(* likes in any order, and the miner and net's gate run as before.         *)
(***************************************************************************)
EXTENDS Intake

CONSTANTS Honest, HonestTip
ASSUME HonestAssumption ==
  /\ Honest \in Peers
  /\ HonestTip \in Blocks
  /\ Path(HonestTip) \cap (BadHeaders \cup EarlyHeaders \cup ForgedBodies) = {}
  /\ Path(HonestTip) \cap (InvalidBodies \cup AbortingBodies) = {}
  /\ \A b \in Blocks \ {HonestTip} : Work[b] < Work[HonestTip]

\* What the honest peer answers the node's locator with.
HonestPage == ServeHeaders(LocatorFor(Honest), HonestTip)

HeadersDue == Idle /\ ~KnowsTip(Honest, HonestTip) /\ HonestPage # <<>>

BlocksDue == Idle /\ KnowsTip(Honest, HonestTip) /\ Wanted \cap Path(HonestTip) # {}

GateDue == Idle /\ S # Height(BestTip)

\* runHeaders: asked while the claim is not known, and again until it is.
HonestHeaders ==
  /\ HeadersDue
  /\ DeliverHeaders(Honest, HonestTip, HonestPage)

\* kickBlockPump and startBlockRun: a wanted id the settled claim covers.
HonestBlock ==
  /\ BlocksDue
  /\ \E b \in Wanted \cap Path(HonestTip) : DeliverBlocks(Honest, <<b>>)

ConvergenceNext ==
  \/ Step
  \/ \E p \in Peers \ {Honest} : Deliver(p)
  \/ \E b \in MinedInputs : DeliverMinedBlock(b)
  \/ GateHeld
  \/ HonestHeaders
  \/ HonestBlock

\* Strong fairness of the honest peer's answers and of the gate, with the
\* condition each is enabled in spelt out, and weak fairness of the event loop.
Fairness ==
  /\ WF_vars(Step)
  /\ []<>GateDue => []<><<GateHeld>>_vars
  /\ []<>HeadersDue => []<><<HonestHeaders>>_vars
  /\ []<>BlocksDue => []<><<HonestBlock>>_vars

FairSpec == Init /\ [][ConvergenceNext]_vars /\ Fairness

-----------------------------------------------------------------------------
(* Properties. *)

\* Whatever the other peers deliver, the node ends on the honest peer's tip
\* and stays there: it is the heaviest valid chain and always within reach.
Converges == <>[](tip = HonestTip)
=============================================================================
