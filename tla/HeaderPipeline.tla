--------------------------- MODULE HeaderPipeline ---------------------------
(***************************************************************************)
(* The header pipeline: admission of a page or of one header, the two      *)
(* passes over a side branch, and the choice of the best chain.            *)
(*                                                                         *)
(* An operation that commits several times leaves the commits still to do  *)
(* on the agenda, a sequence of [op, by, bs] records: the node is single   *)
(* threaded and runs an item to its end, so nothing but a crash comes      *)
(* between two entries.  An operation decides what it reads from tables    *)
(* its own pending commits do not touch, and writes its in-memory state,   *)
(* in its first step.                                                      *)
(*                                                                         *)
(*   running  runningBranches: per peer the branch being scored or stored. *)
(*            Work and heights of a branch are those of its hashes.        *)
(*   memo     scoredLighter: per peer the claim scored lighter             *)
(*   halted   the corrupt-state error the process stopped on, or "no"      *)
(***************************************************************************)
EXTENDS ChainStore, SequencesExt

CONSTANTS
  Peers,
  Self,        \* the '' peer id of a block this node mined
  NoClaim,     \* claimHash = ''
  None,        \* no entry in a map
  PageSize     \* MAX_CHAIN_RESPONSE_ITEMS

ASSUME PeerAssumption == Self \notin Peers
ASSUME NoneAssumption == NoClaim \notin Blocks /\ None \notin Blocks
ASSUME PageSizeAssumption == PageSize \in Nat \ {0}

VARIABLES running, memo, agenda, halted
pipelineVars == <<running, memo, agenda, halted>>

Branches ==
  [mode : {"scoring", "storing"}, base : Nodes, recorded : Seq(Blocks) \ {<<>>},
   stored : Nodes, switched : BOOLEAN]

Do(op, by, bs) == [op |-> op, by |-> by, bs |-> bs]

\* The agenda once its first entry is replaced by the entries of s.
Instead(s) == agenda' = s \o Tail(agenda)

Halt(error) == halted' = error /\ agenda' = <<>>

NoMemo == [p \in Peers |-> None]

-----------------------------------------------------------------------------
(* Walks along prev_hash.  A walk from t is a walk down Chain[t]. *)

\* The walk from t down to height f finds a row for every hash it reads.
RowsDownTo(t, f) == \A h \in 1 .. Height(t) : h >= f => Chain[t][h] \in headers

\* branchToBestChain's fork height: where the path to t meets the index.
MeetsBest(t) == Max({0} \cup {h \in 1 .. Height(t) : Chain[t][h] \in best})

MeetsApplied(t) == Max({0} \cup {h \in 1 .. Height(t) : IsApplied(Chain[t][h])})

\* forkPointHeight(base) >= floor: the walk stops at the applied chain or
\* the index, before it reads that row, and at the root.
BaseReachable(base) ==
  \/ ReachFloor <= 0 /\ Path(base) \subseteq headers
  \/ \E h \in 1 .. Height(base) :
       /\ h >= ReachFloor
       /\ IsApplied(Chain[base][h]) \/ Chain[base][h] \in best
       /\ RowsDownTo(base, h + 1)

\* rechooseBestChain's walk, down to a row of the index or to the root.
ReachableFromBest(t) ==
  /\ MeetsBest(t) >= ReachFloor \/ t \in best
  /\ RowsDownTo(t, MeetsBest(t))

\* rechooseAfterApply's clause 3 walk, down to the applied chain or the root.
ReachableFromApplied(t) ==
  /\ MeetsApplied(t) >= ReachFloor
  /\ RowsDownTo(t, MeetsApplied(t))

-----------------------------------------------------------------------------
(* Moves of the best chain.  Each clears the memo: every verdict in it was *)
(* reached against the best tip that is gone.                              *)

\* Mutated form of MoveBestTo: the index is rewritten at t's own height only.
MoveBestTopOnly(t) ==
  /\ RewriteBestChain(Height(t) - 1, {t})
  /\ memo' = NoMemo
  /\ Instead(<<>>)
  /\ UNCHANGED <<running, halted>>

\* branchToBestChain and rewriteBestChain: the path to t becomes the index.
MoveBestTo(t) ==
  \/ /\ RowsDownTo(t, MeetsBest(t))
     /\ RewriteBestChain(MeetsBest(t), PathAbove(t, MeetsBest(t)))
     /\ memo' = NoMemo
     /\ Instead(<<>>)
     /\ UNCHANGED <<running, halted>>
  \/ /\ ~RowsDownTo(t, MeetsBest(t))
     /\ Halt("InconsistentHeaderTree")
     /\ UNCHANGED <<storeVars, running, memo>>

\* rewriteBestChain(Height(bs[1]) - 1, bs), with no look at the index below.
PutOnBest(bs) ==
  /\ RewriteBestChain(Height(bs[1]) - 1, ToSet(bs))
  /\ memo' = NoMemo
  /\ Instead(<<>>)
  /\ UNCHANGED <<running, halted>>

\* Mutated form of BestInReach: the best chain stands whatever its fork point.
BestAlwaysInReach == TRUE

\* rechooseAfterApply's clause 2: the index meets the applied chain in reach.
BestInReach ==
  \/ ReachFloor <= 0
  \/ \E h \in 1 .. Height(tip) : h >= ReachFloor /\ Chain[tip][h] \in best

\* Mutated form of AfterApplyCandidates: the applied chain, no look at the tree.
AppliedChainOnly == {tip}

\* Clauses 3 and 4 in one: every candidate is heavier than the applied tip,
\* so the applied chain is chosen exactly when there is no candidate.
AfterApplyCandidates ==
  {t \in HeadersHeavierThan(Work[tip]) : ReachableFromApplied(t)} \cup {tip}

\* Mutated form of RechooseAfterApply: an apply off the index chooses nothing.
KeepBestAfterApply ==
  /\ Instead(<<>>)
  /\ UNCHANGED <<storeVars, running, memo, halted>>

\* An applied tip without a row halts as the walk of clause 1 would.
RechooseAfterApply ==
  LET settled == tip = Root \/ BestTip = Root \/ tip \in best
      outweighed == Work[tip] < Work[BestTip]
  IN  \/ /\ settled \/ (tip \in headers /\ outweighed /\ BestInReach)
         /\ Instead(<<>>)
         /\ UNCHANGED <<storeVars, running, memo, halted>>
      \/ /\ ~settled /\ (tip \notin headers \/ ~outweighed)
         /\ MoveBestTo(tip)
      \/ /\ ~settled /\ tip \in headers /\ outweighed /\ ~BestInReach
         /\ \E t \in Heaviest(AfterApplyCandidates) : MoveBestTo(t)

\* Mutated form of RechooseBestChain: the memo outlives the tip it was scored on.
RechooseKeepingMemo ==
  LET candidates == {t \in HeadersHeavierThan(Work[BestTip]) : ReachableFromBest(t)}
  IN  \/ \E t \in Heaviest(candidates) : MoveBestTo(t)
      \/ /\ candidates = {}
         /\ Instead(<<>>)
         /\ UNCHANGED <<storeVars, running, memo, halted>>

RechooseBestChain ==
  LET candidates == {t \in HeadersHeavierThan(Work[BestTip]) : ReachableFromBest(t)}
  IN  \/ \E t \in Heaviest(candidates) : MoveBestTo(t)
      \/ /\ candidates = {}
         /\ memo' = NoMemo
         /\ Instead(<<>>)
         /\ UNCHANGED <<storeVars, running, halted>>

\* pruneHeaderTree(reachFloor())
PruneHeaderTree ==
  /\ PruneHeadersBelow(ReachFloor)
  /\ running' = [p \in Peers |->
       IF running[p] # None /\ Height(running[p].base) < ReachFloor
       THEN None ELSE running[p]]
  /\ Instead(<<>>)
  /\ UNCHANGED <<memo, halted>>

-----------------------------------------------------------------------------
(* Admission of one header.  inHand is what the intake's predicate answers *)
(* for it: its parent is the applied tip and the block is delivered whole. *)

HasParent(b) == Parent(b) \in headers \cup {Root}

InsideHorizon(b) == Height(b) - 1 >= ReachFloor

OrphanHeader(b) == b \notin headers \cup refused /\ ~HasParent(b)

RefusableHeader(b) ==
  /\ b \notin headers
  /\ \/ b \in refused
     \/ HasParent(b) /\ (~InsideHorizon(b) \/ b \in BadHeaders \cup EarlyHeaders)

VerifiableHeader(b) ==
  /\ b \notin headers \cup refused \cup BadHeaders
  /\ HasParent(b) /\ InsideHorizon(b)

Inserts(bs) == [i \in 1 .. Len(bs) |-> Do("insert", Self, <<bs[i]>>)]

\* What a verified header is stored by: <<>> when it is only scored.
StoreHeader(b, inHand) ==
  IF Parent(b) = BestTip THEN Inserts(<<b>>) \o <<Do("put", Self, <<b>>)>>
  ELSE IF inHand THEN Inserts(<<b>>) ELSE <<>>

-----------------------------------------------------------------------------
(* Admission of a page: the two passes of a side branch. *)

\* The page without the leading headers the tree holds.
Fresh(page) ==
  LET skipped == {i \in 0 .. Len(page) : \A j \in 1 .. i : page[j] \in headers}
  IN  SubSeq(page, Max(skipped) + 1, Len(page))

\* The first header's parent is the branch's last scored, or last stored, one.
Continues(p, b) ==
  /\ running[p] # None
  /\ Parent(b) = IF running[p].mode = "storing" THEN running[p].stored
                 ELSE Last(running[p].recorded)

Drop(p) == running' = [running EXCEPT ![p] = None]

Grounded(p, b) == Continues(p, b) \/ (HasParent(b) /\ InsideHorizon(b))

\* Each header is the child of the one before it.
Linked(hs) == \A i \in 2 .. Len(hs) : Parent(hs[i]) = hs[i - 1]

\* A page without a base, with a header verification refuses, or with a mark.
RefusePage(p, fresh) ==
  /\ \/ ~Grounded(p, fresh[1])
     \/ ~Linked(fresh)
     \/ ToSet(fresh) \cap (BadHeaders \cup refused) # {}
  /\ Drop(p)
  /\ UNCHANGED memo

\* A 'clock' refusal leaves the branch the page continues.
PageAheadOfClock(p, fresh) ==
  /\ Grounded(p, fresh[1])
  /\ \E i \in 1 .. Len(fresh) : /\ fresh[i] \in EarlyHeaders
                                /\ Linked(SubSeq(fresh, 1, i))
                                /\ \A j \in 1 .. i : fresh[j] \notin BadHeaders
  /\ IF Continues(p, fresh[1]) THEN UNCHANGED running ELSE Drop(p)
  /\ UNCHANGED memo

PageVerifies(p, fresh) ==
  /\ Grounded(p, fresh[1])
  /\ Linked(fresh)
  /\ ToSet(fresh) \cap (BadHeaders \cup refused) = {}

InPass2(p, fresh) == Continues(p, fresh[1]) /\ running[p].mode = "storing"

\* The branch as the page leaves it scored.
Scored(p, fresh) ==
  IF Continues(p, fresh[1])
  THEN [running[p] EXCEPT !.recorded = Append(@, Last(fresh))]
  ELSE [mode |-> "scoring", base |-> Parent(fresh[1]),
        recorded |-> <<Last(fresh)>>, stored |-> Parent(fresh[1]),
        switched |-> FALSE]

\* Won on the first page: stored from the page in hand, if in reach.
WinFirstPage(p, fresh, rest) ==
  /\ Work[Last(fresh)] > Work[BestTip]
  /\ ~Continues(p, fresh[1])
  /\ Drop(p)
  /\ agenda' = IF BaseReachable(Parent(fresh[1]))
               THEN Inserts(fresh) \o <<Do("move", Self, <<Last(fresh)>>)>> \o rest
               ELSE rest
  /\ UNCHANGED memo

\* Won on a later page: the branch is fetched again from its base.
WinLaterPage(p, fresh, rest) ==
  /\ Work[Last(fresh)] > Work[BestTip]
  /\ Continues(p, fresh[1])
  /\ running' = [running EXCEPT ![p] = [Scored(p, fresh) EXCEPT !.mode = "storing"]]
  /\ agenda' = rest
  /\ UNCHANGED memo

\* Not heavier: the branch ends at the claim or at the peer's tip, else it runs on.
NotWon(p, claim, page, fresh, rest) ==
  /\ Work[Last(fresh)] <= Work[BestTip]
  /\ \/ /\ claim \in ToSet(fresh)
        /\ memo' = [memo EXCEPT ![p] = claim]
        /\ Drop(p)
     \/ /\ claim = NoClaim /\ Len(page) < PageSize
        /\ Drop(p) /\ UNCHANGED memo
     \/ /\ claim \notin ToSet(fresh)
        /\ ~(claim = NoClaim /\ Len(page) < PageSize)
        /\ running' = [running EXCEPT ![p] = Scored(p, fresh)]
        /\ UNCHANGED memo
  /\ agenda' = rest

\* handlePass2: every recorded height the page reaches holds what was recorded.
OffRecord(p, fresh) ==
  \E i \in 1 .. Len(running[p].recorded) :
    LET seen == running[p].recorded[i]
    IN  /\ Height(seen) \in Height(fresh[1]) .. Height(Last(fresh))
        /\ seen \notin ToSet(fresh)

StorePass2Page(p, fresh, rest) ==
  LET r == running[p]
      top == Last(fresh)
      crosses == ~r.switched /\ Work[top] > Work[BestTip]
      lost == crosses /\ ~BaseReachable(r.base)
      moves == IF lost THEN <<>>
               ELSE IF crosses THEN <<Do("move", Self, <<top>>)>>
               ELSE IF r.switched THEN <<Do("put", Self, fresh)>>
               ELSE <<>>
      done == lost \/ Height(top) >= Height(Last(r.recorded))
  IN  /\ running' = [running EXCEPT ![p] =
           IF done THEN None
           ELSE [r EXCEPT !.stored = top, !.switched = @ \/ crosses]]
      /\ agenda' = Inserts(fresh) \o moves \o rest
      /\ UNCHANGED memo

AdmitPage(p, claim, page, rest) ==
  LET fresh == Fresh(page)
  IN  /\ \/ /\ fresh = <<>>
            /\ agenda' = rest /\ UNCHANGED <<running, memo>>
         \/ /\ fresh # <<>>
            /\ \/ RefusePage(p, fresh) /\ agenda' = rest
               \/ PageAheadOfClock(p, fresh) /\ agenda' = rest
               \/ /\ PageVerifies(p, fresh) /\ InPass2(p, fresh)
                  /\ \/ OffRecord(p, fresh) /\ Drop(p) /\ agenda' = rest /\ UNCHANGED memo
                     \/ ~OffRecord(p, fresh) /\ StorePass2Page(p, fresh, rest)
               \/ /\ PageVerifies(p, fresh) /\ ~InPass2(p, fresh)
                  /\ \/ WinFirstPage(p, fresh, rest)
                     \/ WinLaterPage(p, fresh, rest)
                     \/ NotWon(p, claim, page, fresh, rest)
      /\ UNCHANGED <<storeVars, halted>>
-----------------------------------------------------------------------------
(* What net asks a peer: the chain view's reads. *)

KnowsTip(p, b) == b = Root \/ b \in headers \/ memo[p] = b

\* h, h - 1, h - 3, h - 7, ... while at least 1, then 1.
LocatorHeights(h) == {i \in 1 .. h : i = 1 \/ \E k \in 0 .. h : i = h + 1 - 2^k}

\* The running branch's last scored, or last stored, header; then the index
\* at the locator heights, from the tip down; Root when there is neither.
LocatorFor(p) ==
  LET branch == IF running[p] = None THEN <<>>
                ELSE IF running[p].mode = "storing" THEN <<running[p].stored>>
                ELSE <<Last(running[p].recorded)>>
      sampled == {b \in best : Height(b) \in LocatorHeights(Height(BestTip))}
      locator == branch \o SetToSortSeq(sampled, LAMBDA b, c : Height(b) > Height(c))
  IN  IF locator = <<>> THEN <<Root>> ELSE locator

\* The page a server whose applied tip is t answers a locator with: what is
\* above the first entry it holds, or from height 1.
ServeHeaders(locator, t) ==
  LET held == {i \in 1 .. Len(locator) : locator[i] \in Path(t)}
      above == IF held = {} THEN 0 ELSE Height(locator[Min(held)])
  IN  SubSeq(Chain[t], above + 1, Min({Height(t), above + PageSize}))
=============================================================================
