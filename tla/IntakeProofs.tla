---------------------------- MODULE IntakeProofs ----------------------------
(***************************************************************************)
(* Theorems about the intake, for every tree, every set of peers, every    *)
(* horizon and every page size.                                            *)
(***************************************************************************)
EXTENDS Intake, WellFoundedInduction, SequenceTheorems, TLAPS

-----------------------------------------------------------------------------
(* The block tree, and least and greatest members of sets of naturals. *)

(* A non-empty set of naturals has a least member, which Min names. *)
LEMMA MinOfNaturals ==
  ASSUME NEW T, T \subseteq Nat, T # {}
  PROVE  Min(T) \in T /\ \A y \in T : Min(T) <= y
<1>. DEFINE R == {ss \in Nat \X Nat : ss[1] < ss[2]}
<1>0. IsWellFoundedOn(R, Nat)
  BY NatLessThanWellFounded, Zenon DEF OpToRel
<1>1. PICK x \in T : \A y \in T : ~(<<y, x>> \in R)
  <2>. HIDE DEF R
  <2>. QED  BY <1>0, WFMin
<1>2. \A y \in T : x <= y
  <2>1. TAKE y \in T
  <2>2. x \in Nat /\ y \in Nat
    OBVIOUS
  <2>3. <<y, x>> \in R <=> y < x
    BY <2>2
  <2>. QED
    BY <1>1, <2>2, <2>3
<1>. QED
  BY <1>2 DEF Min

(* A non-empty set of naturals with a bound has a greatest member, Max's. *)
LEMMA MaxOfNaturals ==
  ASSUME NEW T, T \subseteq Nat, T # {}, NEW n \in Nat, \A y \in T : y <= n
  PROVE  Max(T) \in T /\ \A y \in T : y <= Max(T)
<1>. DEFINE bounds == {k \in Nat : \A y \in T : y <= k}
<1>1. Min(bounds) \in bounds /\ \A k \in bounds : Min(bounds) <= k
  <2>1. bounds \subseteq Nat /\ n \in bounds
    OBVIOUS
  <2>. QED
    BY <2>1, MinOfNaturals
<1>2. PICK m \in bounds : \A k \in bounds : m <= k
  BY <1>1
<1>3. m \in T
  <2>1. SUFFICES ASSUME m \notin T PROVE FALSE
    OBVIOUS
  <2>2. PICK y \in T : TRUE
    OBVIOUS
  <2>3. m - 1 \in bounds
    BY <2>1, <2>2
  <2>. QED
    BY <2>3, <1>2
<1>. QED
  BY <1>2, <1>3 DEF Max

(* A node's height is a natural, a block's is positive, and the path to a   *)
(* node consists of blocks.                                                *)
LEMMA TreeTypes ==
  /\ Root \in Nodes
  /\ \A x \in Nodes : Height(x) \in Nat
  /\ \A x \in Nodes : \A h \in 1 .. Height(x) : Chain[x][h] \in Blocks
  /\ \A b \in Blocks : Height(b) >= 1
  /\ \A b \in Blocks : Parent(b) \in Nodes
  /\ Height(Root) = 0
<1>1. \A x \in Nodes : Chain[x] \in Seq(Blocks)
  BY ChainAssumption
<1>2. \A x \in Nodes : Height(x) \in Nat
  BY <1>1 DEF Height
<1>3. \A x \in Nodes : \A h \in 1 .. Height(x) : Chain[x][h] \in Blocks
  BY <1>1 DEF Height
<1>4. \A b \in Blocks : Height(b) >= 1
  BY ChainAssumption DEF Height
<1>5. \A b \in Blocks : Parent(b) \in Nodes
  <2>1. TAKE b \in Blocks
  <2>2. b \in Nodes
    BY DEF Nodes
  <2>3. Height(b) # 1 => Height(b) - 1 \in 1 .. Height(b)
    BY <1>2, <1>4, <2>2
  <2>. QED
    BY <1>3, <2>2, <2>3 DEF Parent, Nodes
<1>6. Root \in Nodes
  BY DEF Nodes
<1>7. Height(Root) = 0
  BY ChainAssumption DEF Height
<1>. QED
  BY <1>2, <1>3, <1>4, <1>5, <1>6, <1>7

(* The height of a block at place h of a path is h. *)
LEMMA HeightOnPath ==
  ASSUME NEW x \in Nodes, NEW h \in 1 .. Height(x)
  PROVE  Height(Chain[x][h]) = h
<1>1. CASE x = Root
  BY <1>1, TreeTypes
<1>2. CASE x \in Blocks
  <2>1. Chain[Chain[x][h]] = SubSeq(Chain[x], 1, h)
    BY <1>2, ChainAssumption DEF Height
  <2>2. Chain[x] \in Seq(Blocks) /\ h \in 1 .. Len(Chain[x])
    BY ChainAssumption DEF Height
  <2>. QED
    BY <2>1, <2>2 DEF Height
<1>. QED
  BY <1>1, <1>2 DEF Nodes

(* A block stands one above its parent. *)
LEMMA HeightOfParent ==
  ASSUME NEW b \in Blocks
  PROVE  Height(b) = Height(Parent(b)) + 1
<1>. b \in Nodes
  BY DEF Nodes
<1>1. CASE Height(b) = 1
  BY <1>1, TreeTypes DEF Parent
<1>2. CASE Height(b) # 1
  <2>1. Height(b) - 1 \in 1 .. Height(b)
    BY <1>2, TreeTypes
  <2>. QED
    BY <1>2, <2>1, HeightOnPath, TreeTypes DEF Parent
<1>. QED
  BY <1>1, <1>2

-----------------------------------------------------------------------------
(* Agenda entries and sequences of them. *)

(* An entry of one block is an agenda entry. *)
LEMMA BlockEntry ==
  ASSUME NEW op \in BlockOps, NEW by \in Peers \cup {Self}, NEW b \in Blocks
  PROVE  Do(op, by, <<b>>) \in Entries
BY DEF Do, Entries

(* An entry that puts a run of headers on the index is an agenda entry. *)
LEMMA PutEntry ==
  ASSUME NEW bs \in Seq(Blocks), bs # <<>>
  PROVE  Do("put", Self, bs) \in Entries
BY DEF Do, Entries

(* An entry without a block is an agenda entry. *)
LEMMA StateEntry ==
  ASSUME NEW op \in StateOps
  PROVE  Plain(op) \in Entries
BY DEF Plain, Do, Entries

(* The empty sequence is a sequence over any set. *)
LEMMA EmptyType ==
  ASSUME NEW T
  PROVE  <<>> \in Seq(T)
OBVIOUS

(* A sequence of one member is a sequence over its set. *)
LEMMA OneType ==
  ASSUME NEW T, NEW x \in T
  PROVE  <<x>> \in Seq(T)
OBVIOUS

(* Two sequences over a set, one after the other, are one over it. *)
LEMMA ConcatType ==
  ASSUME NEW T, NEW s \in Seq(T), NEW t \in Seq(T)
  PROVE  s \o t \in Seq(T)
OBVIOUS

(* The first and the last of a non-empty sequence are members. *)
LEMMA LastType ==
  ASSUME NEW T, NEW s \in Seq(T), s # <<>>
  PROVE  Last(s) \in T /\ s[1] \in T
BY DEF Last

(* What closes an item consists of agenda entries. *)
LEMMA CloseType == Close \in Seq(Entries)
<1>1. Plain("pass") \in Entries /\ Plain("drain") \in Entries /\ Plain("switch") \in Entries
  BY StateEntry DEF StateOps
<1>. QED
  BY <1>1 DEF Close

(* So do the header inserts of a page. *)
LEMMA InsertsType ==
  ASSUME NEW bs \in Seq(Blocks)
  PROVE  Inserts(bs) \in Seq(Entries)
<1>1. \A i \in 1 .. Len(bs) : Do("insert", Self, <<bs[i]>>) \in Entries
  <2>1. TAKE i \in 1 .. Len(bs)
  <2>2. bs[i] \in Blocks
    OBVIOUS
  <2>. QED
    BY <2>2, BlockEntry DEF BlockOps
<1>. QED
  BY <1>1 DEF Inserts

(* So do the commits of markRefused. *)
LEMMA MarkRefusedType ==
  ASSUME NEW b \in Blocks
  PROVE  MarkRefused(b) \in Seq(Entries)
<1>1. Do("mark", Self, <<b>>) \in Entries /\ Do("remove", Self, <<b>>) \in Entries
  BY BlockEntry DEF BlockOps
<1>2. Plain("rechoose") \in Entries
  BY StateEntry DEF StateOps
<1>. QED
  BY <1>1, <1>2 DEF MarkRefused

(* So does the binding of a delivered body. *)
LEMMA BindType ==
  ASSUME NEW p \in Peers \cup {Self}, NEW b \in Blocks
  PROVE  Bind(p, b) \in Seq(Entries)
BY BlockEntry, OneType DEF Bind, BlockOps

(* So does the storing of a verified header. *)
LEMMA StoreHeaderType ==
  ASSUME NEW b \in Blocks, NEW inHand
  PROVE  StoreHeader(b, inHand) \in Seq(Entries)
<1>1. <<b>> \in Seq(Blocks) /\ <<b>> # <<>>
  OBVIOUS
<1>2. Inserts(<<b>>) \in Seq(Entries)
  BY <1>1, InsertsType
<1>3. <<Do("put", Self, <<b>>)>> \in Seq(Entries)
  BY <1>1, PutEntry, OneType
<1>4. Inserts(<<b>>) \o <<Do("put", Self, <<b>>)>> \in Seq(Entries)
  BY <1>2, <1>3, ConcatType
<1>. QED
  BY <1>2, <1>4, EmptyType DEF StoreHeader

(* Replacing the first entry by entries leaves an agenda. *)
LEMMA InsteadType ==
  ASSUME agenda \in Seq(Entries), agenda # <<>>, NEW s \in Seq(Entries), Instead(s)
  PROVE  agenda' \in Seq(Entries)
BY DEF Instead

(* The entry an item's step runs: its block, or its run of headers. *)
LEMMA NowType ==
  ASSUME agenda \in Seq(Entries), agenda # <<>>
  PROVE  /\ Now \in Entries
         /\ Now.by \in Peers \cup {Self}
         /\ Now.op \in BlockOps => Subject \in Blocks
         /\ Now.op = "put" => Now.bs \in Seq(Blocks) /\ Now.bs # <<>>
<1>1. Now \in Entries
  BY DEF Now
<1>. QED
  BY <1>1 DEF Entries, Subject, BlockOps, StateOps

(* The page without the headers already held is a page of blocks. *)
LEMMA FreshType ==
  ASSUME NEW page \in Seq(Blocks)
  PROVE  Fresh(page) \in Seq(Blocks)
<1>. DEFINE skipped == {i \in 0 .. Len(page) : \A j \in 1 .. i : page[j] \in headers}
<1>1. skipped \subseteq Nat /\ 0 \in skipped /\ \A i \in skipped : i <= Len(page)
  OBVIOUS
<1>2. Max(skipped) \in skipped
  <2>. Len(page) \in Nat
    OBVIOUS
  <2>. HIDE DEF skipped
  <2>. QED
    BY <1>1, MaxOfNaturals
<1>3. Max(skipped) \in Nat
  BY <1>1, <1>2
<1>. HIDE DEF skipped
<1>4. SubSeq(page, Max(skipped) + 1, Len(page)) \in Seq(Blocks)
  BY <1>3
<1>. QED
  BY <1>4 DEF Fresh, skipped

-----------------------------------------------------------------------------
(* Reads of the store. *)

(* The best tip is a node, its height a natural. *)
LEMMA BestTipType ==
  ASSUME StoreTypeOK
  PROVE  BestTip \in Nodes /\ Height(BestTip) \in Nat
<1>1. BestTip \in Nodes
  BY DEF StoreTypeOK, BestTip, Nodes
<1>. QED
  BY <1>1, TreeTypes

(* The reach floor is a natural, at or above the horizon, and at or above  *)
(* the height below the lowest journal.                                    *)
LEMMA ReachFloorType ==
  ASSUME StoreTypeOK
  PROVE  /\ ReachFloor \in Nat
         /\ ReachFloor >= Height(tip) - MaxReorgDepth
         /\ ReachFloor >= LowestJournal - 1
         /\ LowestJournal \in Nat \ {0}
<1>1. Height(tip) \in Nat
  BY TreeTypes DEF StoreTypeOK
<1>2. LowestJournal \in Nat \ {0}
  <2>1. CASE journals = {}
    BY <1>1, <2>1 DEF LowestJournal
  <2>2. CASE journals # {}
    <3>1. journals \subseteq Nat
      BY DEF StoreTypeOK
    <3>2. Min(journals) \in journals
      BY <2>2, <3>1, MinOfNaturals
    <3>. QED
      BY <2>2, <3>2 DEF LowestJournal, StoreTypeOK
  <2>. QED
    BY <2>1, <2>2
<1>. QED
  BY <1>1, <1>2, MaxReorgDepthAssumption DEF ReachFloor

(* The switch's fork height lies below the applied tip. *)
LEMMA SwitchForkType ==
  ASSUME StoreTypeOK, tip # Root
  PROVE  SwitchFork \in 0 .. Height(tip) - 1
<1>. DEFINE common == {h \in 1 .. Height(tip) - 1 : h > ReachFloor /\ Chain[tip][h] \in best}
<1>1. Height(tip) \in Nat \ {0}
  BY TreeTypes DEF StoreTypeOK, Nodes
<1>2. CASE common # {}
  <2>1. common \subseteq 1 .. Height(tip) - 1
    OBVIOUS
  <2>2. Max(common) \in common
    <3>. HIDE DEF common
    <3>1. common \subseteq Nat /\ \A y \in common : y <= Height(tip)
      BY <1>1, <2>1
    <3>. QED
      BY <1>1, <1>2, <3>1, MaxOfNaturals
  <2>. HIDE DEF common
  <2>3. Max(common) \in 1 .. Height(tip) - 1
    BY <2>1, <2>2, Zenon
  <2>4. Max(common) \in 0 .. Height(tip) - 1
    BY <1>1, <2>3
  <2>. QED
    BY <1>2, <2>4 DEF SwitchFork, common
<1>3. CASE common = {}
  <2>. DEFINE pair == {ReachFloor, Height(tip) - 1}
  <2>1. pair \subseteq Nat /\ pair # {} /\ Height(tip) - 1 \in pair
    BY <1>1, ReachFloorType
  <2>2. Min(pair) \in Nat /\ Min(pair) <= Height(tip) - 1
    <3>. HIDE DEF pair
    <3>. QED
      BY <2>1, MinOfNaturals
  <2>. HIDE DEF pair
  <2>3. Min(pair) \in 0 .. Height(tip) - 1
    BY <1>1, <2>2
  <2>. QED
    BY <1>3, <2>3 DEF SwitchFork, pair
<1>. QED
  BY <1>2, <1>3

-----------------------------------------------------------------------------
(* Every commit keeps the store's types. *)

(* Every commit but the two of the apply funnel keeps the store's types. *)
LEMMA CommitTypes ==
  ASSUME StoreTypeOK
  PROVE  /\ \A b \in Blocks : InsertHeader(b) => StoreTypeOK'
         /\ \A h \in Int : \A hashes \in SUBSET Blocks : RewriteBestChain(h, hashes) => StoreTypeOK'
         /\ \A b \in Blocks : RemoveHeaderSubtree(b) => StoreTypeOK'
         /\ \A h \in Int : PruneHeadersBelow(h) => StoreTypeOK'
         /\ \A b \in Blocks : StageBlock(b) => StoreTypeOK'
         /\ \A b \in Blocks : UnstageBlock(b) => StoreTypeOK'
         /\ \A b \in Blocks : InsertRefusedHeader(b) => StoreTypeOK'
         /\ UNCHANGED storeVars => StoreTypeOK'
<1>1. \A b \in Blocks : InsertHeader(b) => StoreTypeOK'
  BY DEF StoreTypeOK, InsertHeader
<1>2. \A h \in Int : \A hashes \in SUBSET Blocks : RewriteBestChain(h, hashes) => StoreTypeOK'
  BY DEF StoreTypeOK, RewriteBestChain
<1>3. \A b \in Blocks : RemoveHeaderSubtree(b) => StoreTypeOK'
  BY DEF StoreTypeOK, RemoveHeaderSubtree
<1>4. \A h \in Int : PruneHeadersBelow(h) => StoreTypeOK'
  BY DEF StoreTypeOK, PruneHeadersBelow
<1>5. \A b \in Blocks : StageBlock(b) => StoreTypeOK'
  BY DEF StoreTypeOK, StageBlock
<1>6. \A b \in Blocks : UnstageBlock(b) => StoreTypeOK'
  BY DEF StoreTypeOK, UnstageBlock
<1>7. \A b \in Blocks : InsertRefusedHeader(b) => StoreTypeOK'
  BY DEF StoreTypeOK, InsertRefusedHeader
<1>8. UNCHANGED storeVars => StoreTypeOK'
  BY DEF StoreTypeOK, storeVars
<1>. QED
  BY <1>1, <1>2, <1>3, <1>4, <1>5, <1>6, <1>7, <1>8

(* The commit of an applied block keeps the store's types. *)
LEMMA CommitBlockType ==
  ASSUME StoreTypeOK, NEW b \in Blocks, CommitBlock(b)
  PROVE  StoreTypeOK'
<1>1. Height(b) \in Nat \ {0}
  BY TreeTypes DEF Nodes
<1>2. journals' \subseteq Nat \ {0}
  BY <1>1 DEF StoreTypeOK, CommitBlock, KeptJournals
<1>. QED
  BY <1>2 DEF StoreTypeOK, CommitBlock, KeptMarks, Nodes

(* The commit of a reorg keeps the store's types. *)
LEMMA CommitReorgType ==
  ASSUME StoreTypeOK, NEW f \in Nat, NEW blocks, NEW newTip \in Nodes,
         CommitReorg(f, blocks, newTip)
  PROVE  StoreTypeOK'
<1>1. Height(newTip) \in Nat
  BY TreeTypes
<1>2. (f + 1) .. Height(newTip) \subseteq Nat \ {0}
  BY <1>1
<1>3. journals' \subseteq Nat \ {0}
  BY <1>2 DEF StoreTypeOK, CommitReorg, KeptJournals
<1>. QED
  BY <1>3 DEF StoreTypeOK, CommitReorg, KeptMarks

(* The tip a switch may leave is a node of the tree. *)
LEMMA ReorgTipsType ==
  ASSUME StoreTypeOK, SwitchReachable
  PROVE  ReorgTips \subseteq Nodes /\ Prefix \subseteq Blocks
<1>1. Prefix \subseteq Blocks
  BY DEF Prefix, StoreTypeOK
<1>2. ForkNode \in Nodes
  BY DEF SwitchReachable, ForkNode, StoreTypeOK, Nodes
<1>. QED
  BY <1>1, <1>2 DEF ReorgTips, Nodes

(* The part of the type invariant the pipeline's in-memory state makes up. *)
MemoryTypeOK ==
  /\ running \in [Peers -> Branches \cup {None}]
  /\ memo \in [Peers -> Blocks \cup {None}]
  /\ agenda \in Seq(Entries)
  /\ halted \in {"no", "InconsistentHeaderTree", "UnreachableForkPoint", "MissingJournal"}

IntakeTypeOK ==
  /\ S \in Nat
  /\ pending \in [Peers -> Blocks \cup {None}]
  /\ attempted \subseteq Peers
  /\ crashes \in 0 .. MaxCrashes

(* The type invariant in three parts: store, pipeline, intake. *)
LEMMA TypeParts == TypeOK <=> StoreTypeOK /\ MemoryTypeOK /\ IntakeTypeOK
BY DEF TypeOK, MemoryTypeOK, IntakeTypeOK

(* A fork height with the index is a natural, a path consists of blocks. *)
LEMMA PathTypes ==
  ASSUME NEW t \in Nodes
  PROVE  /\ MeetsBest(t) \in Nat
         /\ \A h \in Int : PathAbove(t, h) \subseteq Blocks \/ h < 0
<1>1. Height(t) \in Nat
  BY TreeTypes
<1>2. MeetsBest(t) \in Nat
  <2>. DEFINE met == {0} \cup {h \in 1 .. Height(t) : Chain[t][h] \in best}
  <2>1. met \subseteq Nat /\ 0 \in met /\ \A y \in met : y <= Height(t)
    BY <1>1
  <2>2. Max(met) \in met
    <3>. HIDE DEF met
    <3>. QED
      BY <1>1, <2>1, MaxOfNaturals
  <2>3. Max(met) \in Nat
    BY <2>1, <2>2
  <2>. QED
    BY <2>3 DEF MeetsBest
<1>3. \A h \in Int : PathAbove(t, h) \subseteq Blocks \/ h < 0
  BY <1>1, TreeTypes DEF PathAbove
<1>. QED
  BY <1>2, <1>3

(* A move of the best chain keeps the types. *)
LEMMA MoveBestToType ==
  ASSUME StoreTypeOK, MemoryTypeOK, agenda # <<>>, NEW t \in Nodes, MoveBestTo(t)
  PROVE  StoreTypeOK' /\ MemoryTypeOK'
<1>1. CASE RowsDownTo(t, MeetsBest(t))
  <2>1. /\ RewriteBestChain(MeetsBest(t), PathAbove(t, MeetsBest(t)))
        /\ memo' = NoMemo /\ Instead(<<>>) /\ UNCHANGED <<running, halted>>
    BY <1>1 DEF MoveBestTo
  <2>2. MeetsBest(t) \in Int /\ PathAbove(t, MeetsBest(t)) \in SUBSET Blocks
    BY PathTypes
  <2>3. StoreTypeOK'
    BY <2>1, <2>2, CommitTypes
  <2>4. agenda' \in Seq(Entries)
    BY <2>1, InsteadType, EmptyType DEF MemoryTypeOK
  <2>. QED
    BY <2>1, <2>3, <2>4 DEF MemoryTypeOK, NoMemo
<1>2. CASE ~RowsDownTo(t, MeetsBest(t))
  <2>1. Halt("InconsistentHeaderTree") /\ UNCHANGED <<storeVars, running, memo>>
    BY <1>2 DEF MoveBestTo
  <2>2. StoreTypeOK'
    BY <2>1, CommitTypes
  <2>. QED
    BY <2>1, <2>2, EmptyType DEF MemoryTypeOK, Halt
<1>. QED
  BY <1>1, <1>2

(* The choice after an apply keeps the types. *)
LEMMA RechooseAfterApplyType ==
  ASSUME StoreTypeOK, MemoryTypeOK, agenda # <<>>, RechooseAfterApply
  PROVE  StoreTypeOK' /\ MemoryTypeOK'
<1>1. CASE Instead(<<>>) /\ UNCHANGED <<storeVars, running, memo, halted>>
  <2>1. agenda' \in Seq(Entries)
    BY <1>1, InsteadType, EmptyType DEF MemoryTypeOK
  <2>2. StoreTypeOK'
    BY <1>1, CommitTypes
  <2>. QED
    BY <1>1, <2>1, <2>2 DEF MemoryTypeOK
<1>2. CASE MoveBestTo(tip)
  BY <1>2, MoveBestToType DEF StoreTypeOK
<1>3. ASSUME NEW t \in Heaviest(AfterApplyCandidates), MoveBestTo(t)
      PROVE  StoreTypeOK' /\ MemoryTypeOK'
  <2>1. t \in Nodes
    BY DEF Heaviest, AfterApplyCandidates, HeadersHeavierThan, StoreTypeOK, Nodes
  <2>. QED
    BY <1>3, <2>1, MoveBestToType
<1>. QED
  BY <1>1, <1>2, <1>3 DEF RechooseAfterApply

(* The choice after a mark keeps the types. *)
LEMMA RechooseBestChainType ==
  ASSUME StoreTypeOK, MemoryTypeOK, agenda # <<>>, RechooseBestChain
  PROVE  StoreTypeOK' /\ MemoryTypeOK'
<1>. DEFINE candidates == {t \in HeadersHeavierThan(Work[BestTip]) : ReachableFromBest(t)}
<1>1. CASE memo' = NoMemo /\ Instead(<<>>) /\ UNCHANGED <<storeVars, running, halted>>
  <2>1. agenda' \in Seq(Entries)
    BY <1>1, InsteadType, EmptyType DEF MemoryTypeOK
  <2>2. StoreTypeOK'
    BY <1>1, CommitTypes
  <2>. QED
    BY <1>1, <2>1, <2>2 DEF MemoryTypeOK, NoMemo
<1>2. ASSUME NEW t \in Heaviest(candidates), MoveBestTo(t)
      PROVE  StoreTypeOK' /\ MemoryTypeOK'
  <2>1. t \in Nodes
    BY DEF Heaviest, HeadersHeavierThan, StoreTypeOK, Nodes
  <2>. QED
    BY <1>2, <2>1, MoveBestToType
<1>. QED
  BY <1>1, <1>2 DEF RechooseBestChain

-----------------------------------------------------------------------------
(* Admission of a page. *)

(* A scored branch is a branch. *)
LEMMA ScoredType ==
  ASSUME MemoryTypeOK, NEW p \in Peers, NEW fresh \in Seq(Blocks), fresh # <<>>
  PROVE  Scored(p, fresh) \in Branches
<1>1. Last(fresh) \in Blocks /\ Parent(fresh[1]) \in Nodes
  BY LastType, TreeTypes
<1>2. CASE Continues(p, fresh[1])
  <2>1. running[p] \in Branches
    BY <1>2 DEF Continues, MemoryTypeOK
  <2>2. Append(running[p].recorded, Last(fresh)) \in Seq(Blocks) \ {<<>>}
    BY <1>1, <2>1 DEF Branches
  <2>. QED
    BY <1>2, <2>1, <2>2 DEF Scored, Branches
<1>3. CASE ~Continues(p, fresh[1])
  BY <1>1, <1>3 DEF Scored, Branches
<1>. QED
  BY <1>2, <1>3

(* Dropping a peer's branch keeps the map's type. *)
LEMMA DropType ==
  ASSUME MemoryTypeOK, NEW p \in Peers, Drop(p)
  PROVE  running' \in [Peers -> Branches \cup {None}]
BY DEF MemoryTypeOK, Drop

(* A page of pass 2 keeps the types. *)
LEMMA StorePass2Type ==
  ASSUME MemoryTypeOK, NEW p \in Peers, NEW fresh \in Seq(Blocks), fresh # <<>>,
         NEW rest \in Seq(Entries), InPass2(p, fresh), StorePass2Page(p, fresh, rest)
  PROVE  running' \in [Peers -> Branches \cup {None}] /\ agenda' \in Seq(Entries)
<1>. DEFINE r == running[p]
            top == Last(fresh)
            crosses == ~r.switched /\ Work[top] > Work[BestTip]
            lost == crosses /\ ~BaseReachable(r.base)
            moves == IF lost THEN <<>>
                     ELSE IF crosses THEN <<Do("move", Self, <<top>>)>>
                     ELSE IF r.switched THEN <<Do("put", Self, fresh)>>
                     ELSE <<>>
            done == lost \/ Height(top) >= Height(Last(r.recorded))
<1>1. r \in Branches /\ top \in Blocks
  BY LastType DEF InPass2, Continues, MemoryTypeOK
<1>2. [r EXCEPT !.stored = top, !.switched = @ \/ crosses] \in Branches
  BY <1>1 DEF Branches, Nodes
<1>3. moves \in Seq(Entries)
  <2>1. <<Do("move", Self, <<top>>)>> \in Seq(Entries)
    BY <1>1, BlockEntry, OneType DEF BlockOps
  <2>2. <<Do("put", Self, fresh)>> \in Seq(Entries)
    BY PutEntry, OneType
  <2>. QED
    BY <2>1, <2>2, EmptyType
<1>4. Inserts(fresh) \o moves \o rest \in Seq(Entries)
  BY <1>3, InsertsType, ConcatType
<1>5. /\ running' = [running EXCEPT ![p] =
           IF done THEN None ELSE [r EXCEPT !.stored = top, !.switched = @ \/ crosses]]
      /\ agenda' = Inserts(fresh) \o moves \o rest
  BY DEF StorePass2Page
<1>. QED
  BY <1>2, <1>4, <1>5 DEF MemoryTypeOK

(* A delivered page keeps the types. *)
LEMMA AdmitPageType ==
  ASSUME StoreTypeOK, MemoryTypeOK, NEW p \in Peers, NEW claim \in Blocks \cup {NoClaim},
         NEW page \in Seq(Blocks), NEW rest \in Seq(Entries),
         AdmitPage(p, claim, page, rest)
  PROVE  StoreTypeOK' /\ MemoryTypeOK'
<1>. DEFINE fresh == Fresh(page)
<1>1. fresh \in Seq(Blocks)
  BY FreshType
<1>2. UNCHANGED <<storeVars, halted>>
  BY DEF AdmitPage
<1>3. StoreTypeOK'
  BY <1>2, CommitTypes
<1>4. SUFFICES /\ running' \in [Peers -> Branches \cup {None}]
               /\ memo' \in [Peers -> Blocks \cup {None}]
               /\ agenda' \in Seq(Entries)
  BY <1>2, <1>3 DEF MemoryTypeOK
<1>5. CASE agenda' = rest /\ UNCHANGED <<running, memo>>
  BY <1>5 DEF MemoryTypeOK
<1>. HIDE DEF fresh
<1>6. CASE agenda' = rest /\ Drop(p) /\ UNCHANGED memo
  BY <1>6, DropType DEF MemoryTypeOK
<1>7. CASE RefusePage(p, fresh) /\ agenda' = rest
  BY <1>6, <1>7 DEF RefusePage
<1>8. CASE PageAheadOfClock(p, fresh) /\ agenda' = rest
  BY <1>5, <1>6, <1>8 DEF PageAheadOfClock
<1>9. CASE fresh # <<>> /\ InPass2(p, fresh) /\ StorePass2Page(p, fresh, rest)
  <2>1. UNCHANGED memo
    BY <1>9 DEF StorePass2Page
  <2>. QED
    BY <1>1, <1>9, <2>1, StorePass2Type DEF MemoryTypeOK
<1>10. CASE fresh # <<>> /\ WinFirstPage(p, fresh, rest)
  <2>1. Last(fresh) \in Blocks
    BY <1>1, <1>10, LastType
  <2>2. <<Do("move", Self, <<Last(fresh)>>)>> \in Seq(Entries)
    BY <2>1, BlockEntry, OneType DEF BlockOps
  <2>3. Inserts(fresh) \o <<Do("move", Self, <<Last(fresh)>>)>> \o rest \in Seq(Entries)
    BY <1>1, <2>2, InsertsType, ConcatType
  <2>4. Drop(p) /\ UNCHANGED memo
    BY <1>10 DEF WinFirstPage
  <2>5. agenda' \in Seq(Entries)
    BY <1>10, <2>3 DEF WinFirstPage
  <2>. QED
    BY <2>4, <2>5, DropType DEF MemoryTypeOK
<1>11. CASE fresh # <<>> /\ WinLaterPage(p, fresh, rest)
  <2>1. Scored(p, fresh) \in Branches
    BY <1>1, <1>11, ScoredType
  <2>2. [Scored(p, fresh) EXCEPT !.mode = "storing"] \in Branches
    BY <2>1 DEF Branches
  <2>3. running' \in [Peers -> Branches \cup {None}]
    BY <1>11, <2>2 DEF WinLaterPage, MemoryTypeOK
  <2>. QED
    BY <1>11, <2>3 DEF WinLaterPage, MemoryTypeOK
<1>12. CASE fresh # <<>> /\ NotWon(p, claim, page, fresh, rest)
  <2>1. Scored(p, fresh) \in Branches
    BY <1>1, <1>12, ScoredType
  <2>2. agenda' \in Seq(Entries)
    BY <1>12 DEF NotWon
  <2>3. CASE claim \in ToSet(fresh) /\ memo' = [memo EXCEPT ![p] = claim] /\ Drop(p)
    <3>1. claim \in Blocks
      BY <1>1, <2>3 DEF ToSet
    <3>. QED
      BY <2>2, <2>3, <3>1, DropType DEF MemoryTypeOK
  <2>4. CASE Drop(p) /\ UNCHANGED memo
    BY <2>2, <2>4, DropType DEF MemoryTypeOK
  <2>5. CASE running' = [running EXCEPT ![p] = Scored(p, fresh)] /\ UNCHANGED memo
    BY <2>1, <2>2, <2>5 DEF MemoryTypeOK
  <2>. QED
    BY <1>12, <2>3, <2>4, <2>5 DEF NotWon
<1>. QED
  BY <1>5, <1>6, <1>7, <1>8, <1>9, <1>10, <1>11, <1>12 DEF AdmitPage, fresh

-----------------------------------------------------------------------------
(* Gossiped blocks, applies and the switch. *)

(* A gossiped block keeps the types of the agenda and the pending map. *)
LEMMA GossipedBodyType ==
  ASSUME NEW p \in Peers, NEW b \in Blocks, NEW pend \in [Peers -> Blocks \cup {None}],
         NEW rest \in Seq(Entries), GossipedBody(p, b, pend, rest)
  PROVE  agenda' \in Seq(Entries) /\ pending' \in [Peers -> Blocks \cup {None}]
<1>. DEFINE stores == StoreHeader(b, CanExtendAppliedTip(b))
<1>1. Bind(p, b) \o rest \in Seq(Entries)
  BY BindType, ConcatType
<1>2. stores \o Bind(p, b) \o rest \in Seq(Entries)
  <2>1. stores \in Seq(Entries) /\ Bind(p, b) \in Seq(Entries)
    BY StoreHeaderType, BindType
  <2>. QED
    BY <2>1, ConcatType
<1>3. pending' = pend \/ pending' = [pend EXCEPT ![p] = b]
  BY DEF GossipedBody
<1>4. agenda' \in {rest, Bind(p, b) \o rest, stores \o Bind(p, b) \o rest}
  BY DEF GossipedBody
<1>. QED
  BY <1>1, <1>2, <1>3, <1>4

(* Applying a staged block keeps the types. *)
LEMMA ApplyType ==
  ASSUME StoreTypeOK, MemoryTypeOK, agenda # <<>>, NEW b \in Blocks,
         NEW next \in Seq(Entries), ApplyStagedBlock(b, next)
  PROVE  StoreTypeOK' /\ MemoryTypeOK'
<1>1. Do("unstage", Self, <<b>>) \in Entries /\ Plain("prune") \in Entries
  BY BlockEntry, StateEntry DEF BlockOps, StateOps
<1>2. <<Do("unstage", Self, <<b>>), Plain("prune")>> \o next \in Seq(Entries)
  BY <1>1
<1>3. UNCHANGED <<running, memo, halted>>
  BY DEF ApplyStagedBlock
<1>4. CASE CommitBlock(b) /\ Instead(<<Do("unstage", Self, <<b>>), Plain("prune")>> \o next)
  <2>1. agenda' \in Seq(Entries)
    BY <1>2, <1>4, InsteadType DEF MemoryTypeOK
  <2>. QED
    BY <1>3, <1>4, <2>1, CommitBlockType DEF MemoryTypeOK
<1>5. CASE UNCHANGED storeVars /\ Instead(MarkRefused(b))
  <2>1. agenda' \in Seq(Entries)
    BY <1>5, InsteadType, MarkRefusedType DEF MemoryTypeOK
  <2>. QED
    BY <1>3, <1>5, <2>1, CommitTypes DEF MemoryTypeOK
<1>6. CASE UNCHANGED storeVars /\ Instead(<<Do("unstage", Self, <<b>>)>>)
  <2>1. agenda' \in Seq(Entries)
    BY <1>1, <1>6, InsteadType, OneType DEF MemoryTypeOK
  <2>. QED
    BY <1>3, <1>6, <2>1, CommitTypes DEF MemoryTypeOK
<1>. QED
  BY <1>4, <1>5, <1>6 DEF ApplyStagedBlock

(* A reorg keeps the types. *)
LEMMA ReorgType ==
  ASSUME StoreTypeOK, agenda \in Seq(Entries), agenda # <<>>, tip # Root,
         SwitchReachable, Reorg
  PROVE  StoreTypeOK' /\ agenda' \in Seq(Entries)
<1>1. Prefix \subseteq Blocks /\ ReorgTips \subseteq Nodes
  BY ReorgTipsType
<1>2. SwitchFork \in Nat
  BY SwitchForkType
<1>3. ASSUME NEW b \in ReorgTips, CommitReorg(SwitchFork, Prefix, b), Instead(<<Plain("drain")>>)
      PROVE  StoreTypeOK' /\ agenda' \in Seq(Entries)
  <2>1. <<Plain("drain")>> \in Seq(Entries)
    BY StateEntry, OneType DEF StateOps
  <2>2. StoreTypeOK'
    BY <1>1, <1>2, <1>3, CommitReorgType
  <2>. QED
    BY <1>3, <2>1, <2>2, InsteadType
<1>4. ASSUME NEW b \in ReorgReaches, UNCHANGED storeVars, Instead(MarkRefused(b))
      PROVE  StoreTypeOK' /\ agenda' \in Seq(Entries)
  <2>1. b \in Blocks
    BY <1>1 DEF ReorgReaches
  <2>. QED
    BY <1>4, <2>1, CommitTypes, InsteadType, MarkRefusedType
<1>5. ASSUME NEW b \in ReorgReaches, UNCHANGED storeVars, Instead(<<Do("unstage", Self, <<b>>)>>)
      PROVE  StoreTypeOK' /\ agenda' \in Seq(Entries)
  <2>1. b \in Blocks
    BY <1>1 DEF ReorgReaches
  <2>2. <<Do("unstage", Self, <<b>>)>> \in Seq(Entries)
    BY <2>1, BlockEntry, OneType DEF BlockOps
  <2>. QED
    BY <1>5, <2>2, CommitTypes, InsteadType
<1>. QED
  BY <1>3, <1>4, <1>5 DEF Reorg

(* The switch keeps the types. *)
LEMMA SwitchType ==
  ASSUME StoreTypeOK, MemoryTypeOK, agenda # <<>>, TrySwitch, UNCHANGED <<running, memo>>
  PROVE  StoreTypeOK' /\ MemoryTypeOK'
<1>1. CASE Instead(<<>>) /\ UNCHANGED <<storeVars, halted>>
  <2>1. agenda' \in Seq(Entries)
    BY <1>1, InsteadType, EmptyType DEF MemoryTypeOK
  <2>2. StoreTypeOK'
    BY <1>1, CommitTypes
  <2>. QED
    BY <1>1, <2>1, <2>2 DEF MemoryTypeOK
<1>2. ASSUME NEW error \in SwitchErrors, Halt(error), UNCHANGED storeVars
      PROVE  StoreTypeOK' /\ MemoryTypeOK'
  <2>1. error \in {"InconsistentHeaderTree", "UnreachableForkPoint", "MissingJournal"}
    BY DEF SwitchErrors
  <2>2. StoreTypeOK'
    BY <1>2, CommitTypes
  <2>. QED
    BY <1>2, <2>1, <2>2, EmptyType DEF MemoryTypeOK, Halt
<1>3. CASE ~NoSwitchDue /\ SwitchErrors = {} /\ Reorg /\ UNCHANGED halted
  <2>1. tip # Root /\ SwitchReachable
    BY <1>3 DEF NoSwitchDue, SwitchErrors
  <2>. QED
    BY <1>3, <2>1, ReorgType DEF MemoryTypeOK
<1>. QED
  BY <1>1, <1>2, <1>3 DEF TrySwitch

-----------------------------------------------------------------------------
(* Type correctness. *)

(* Each step of an item keeps every variable in its type. *)
LEMMA StepType ==
  ASSUME TypeOK, Step
  PROVE  TypeOK'
<1>1. StoreTypeOK /\ MemoryTypeOK /\ IntakeTypeOK
  BY TypeParts
<1>2. agenda # <<>> /\ agenda \in Seq(Entries)
  BY <1>1 DEF Step, At, DoInsert, DoPut, DoMove, DoUnstage, DoPrune, DoRechooseAfterApply,
       DoMark, DoRemove, DoRechoose, DoBind, DoExtend, DoInHand, DoDrain, DoSwitch, DoPass,
       MemoryTypeOK
<1>3. SUFFICES StoreTypeOK' /\ MemoryTypeOK' /\ IntakeTypeOK'
  BY DEF TypeOK, MemoryTypeOK, IntakeTypeOK
<1>4. UNCHANGED intakeVars => IntakeTypeOK'
  BY <1>1 DEF IntakeTypeOK, intakeVars
<1>5. Instead(<<>>) => agenda' \in Seq(Entries)
  BY <1>2, InsteadType, EmptyType
<1>6. UNCHANGED <<running, memo, halted>> /\ Instead(<<>>) => MemoryTypeOK'
  BY <1>1, <1>5 DEF MemoryTypeOK
<1>7. Now.op \in BlockOps => Subject \in Blocks
  BY <1>2, NowType
<1>8. CASE DoInsert
  <2>1. Subject \in Blocks
    BY <1>7, <1>8 DEF DoInsert, At, BlockOps
  <2>. QED
    BY <1>1, <1>4, <1>6, <1>8, <2>1, CommitTypes DEF DoInsert
<1>9. CASE DoPut
  <2>1. Now.bs \in Seq(Blocks) /\ Now.bs # <<>>
    BY <1>2, <1>9, NowType DEF DoPut, At
  <2>2. ToSet(Now.bs) \in SUBSET Blocks
    BY <2>1 DEF ToSet
  <2>3. Height(Now.bs[1]) - 1 \in Int
    <3>1. Now.bs[1] \in Nodes
      BY <2>1, LastType DEF Nodes
    <3>. QED
      BY <3>1, TreeTypes
  <2>4. /\ RewriteBestChain(Height(Now.bs[1]) - 1, ToSet(Now.bs))
        /\ memo' = NoMemo /\ Instead(<<>>) /\ UNCHANGED <<running, halted>>
    BY <1>9 DEF DoPut, PutOnBest
  <2>5. StoreTypeOK'
    BY <1>1, <2>2, <2>3, <2>4, CommitTypes
  <2>6. MemoryTypeOK'
    BY <1>1, <1>5, <2>4 DEF MemoryTypeOK, NoMemo
  <2>. QED
    BY <1>4, <1>9, <2>5, <2>6 DEF DoPut
<1>10. CASE DoMove
  <2>1. Subject \in Nodes
    BY <1>7, <1>10 DEF DoMove, At, BlockOps, Nodes
  <2>. QED
    BY <1>1, <1>2, <1>4, <1>10, <2>1, MoveBestToType DEF DoMove
<1>11. CASE DoUnstage
  <2>1. Subject \in Blocks
    BY <1>7, <1>11 DEF DoUnstage, At, BlockOps
  <2>. QED
    BY <1>1, <1>4, <1>6, <1>11, <2>1, CommitTypes DEF DoUnstage
<1>12. CASE DoPrune
  <2>1. StoreTypeOK'
    BY <1>1, <1>12, CommitTypes, ReachFloorType DEF DoPrune, PruneHeaderTree
  <2>2. running' \in [Peers -> Branches \cup {None}]
    BY <1>1, <1>12 DEF DoPrune, PruneHeaderTree, MemoryTypeOK
  <2>3. MemoryTypeOK'
    BY <1>1, <1>5, <1>12, <2>2 DEF DoPrune, PruneHeaderTree, MemoryTypeOK
  <2>. QED
    BY <1>4, <1>12, <2>1, <2>3 DEF DoPrune
<1>13. CASE DoRechooseAfterApply
  BY <1>1, <1>2, <1>4, <1>13, RechooseAfterApplyType DEF DoRechooseAfterApply
<1>14. CASE DoMark
  <2>1. Subject \in Blocks
    BY <1>7, <1>14 DEF DoMark, At, BlockOps
  <2>. QED
    BY <1>1, <1>4, <1>6, <1>14, <2>1, CommitTypes DEF DoMark
<1>15. CASE DoRemove
  <2>1. Subject \in Blocks
    BY <1>7, <1>15 DEF DoRemove, At, BlockOps
  <2>. QED
    BY <1>1, <1>4, <1>6, <1>15, <2>1, CommitTypes DEF DoRemove
<1>16. CASE DoRechoose
  BY <1>1, <1>2, <1>4, <1>16, RechooseBestChainType DEF DoRechoose
<1>17. CASE DoBind
  <2>1. Subject \in Blocks
    BY <1>7, <1>17 DEF DoBind, At, BlockOps
  <2>2. UNCHANGED <<running, memo, halted, intakeVars>>
    BY <1>17 DEF DoBind
  <2>3. CASE UNCHANGED storeVars /\ Instead(<<>>)
    <3>1. StoreTypeOK'
      BY <1>1, <2>3, CommitTypes
    <3>. QED
      BY <1>4, <1>6, <2>2, <2>3, <3>1
  <2>. DEFINE inhand == IF Subject \in best THEN <<>> ELSE <<Do("inhand", Self, <<Subject>>)>>
              own == IF Now.by = Self THEN <<Plain("drain"), Plain("pass"), Plain("drain")>>
                     ELSE <<>>
  <2>4. CASE StageBlock(Subject) /\ Instead(inhand \o own)
    <3>1. inhand \in Seq(Entries)
      BY <2>1, BlockEntry, OneType, EmptyType DEF BlockOps
    <3>2. Plain("drain") \in Entries /\ Plain("pass") \in Entries
      BY StateEntry DEF StateOps
    <3>3. own \in Seq(Entries)
      BY <3>2
    <3>4. agenda' \in Seq(Entries)
      <4>. HIDE DEF inhand, own
      <4>. QED
        BY <1>2, <2>4, <3>1, <3>3, ConcatType, InsteadType
    <3>5. StoreTypeOK'
      BY <1>1, <2>1, <2>4, CommitTypes
    <3>. QED
      BY <1>1, <1>4, <2>2, <3>4, <3>5 DEF MemoryTypeOK
  <2>. QED
    BY <1>17, <2>3, <2>4 DEF DoBind
<1>18. CASE DoExtend
  <2>1. Subject \in Blocks
    BY <1>7, <1>18 DEF DoExtend, At, BlockOps
  <2>2. <<Plain("drain")>> \in Seq(Entries)
    BY StateEntry, OneType DEF StateOps
  <2>3. UNCHANGED intakeVars
    BY <1>18 DEF DoExtend, ApplyStagedBlock
  <2>. QED
    BY <1>1, <1>2, <1>4, <1>18, <2>1, <2>2, <2>3, ApplyType DEF DoExtend
<1>19. CASE DoInHand
  <2>1. Subject \in Blocks
    BY <1>7, <1>19 DEF DoInHand, At, BlockOps
  <2>2. <<Plain("rechooseafter")>> \in Seq(Entries)
    BY StateEntry, OneType DEF StateOps
  <2>3. UNCHANGED intakeVars
    BY <1>19 DEF DoInHand, ApplyStagedBlock
  <2>. QED
    BY <1>1, <1>2, <1>4, <1>19, <2>1, <2>2, <2>3, ApplyType DEF DoInHand
<1>20. CASE DoDrain
  <2>1. UNCHANGED <<storeVars, running, memo, halted, intakeVars>>
    BY <1>20 DEF DoDrain
  <2>2. StoreTypeOK'
    BY <1>1, <2>1, CommitTypes
  <2>3. ASSUME NEW b \in NextToExtend, Instead(<<Do("extend", Self, <<b>>)>>)
        PROVE  agenda' \in Seq(Entries)
    <3>1. b \in Blocks
      BY <1>1 DEF NextToExtend, StoreTypeOK
    <3>2. <<Do("extend", Self, <<b>>)>> \in Seq(Entries)
      BY <3>1, BlockEntry, OneType DEF BlockOps
    <3>. QED
      BY <1>2, <2>3, <3>2, InsteadType
  <2>4. agenda' \in Seq(Entries)
    BY <1>5, <1>20, <2>3 DEF DoDrain
  <2>. QED
    BY <1>1, <1>4, <2>1, <2>2, <2>4 DEF MemoryTypeOK
<1>21. CASE DoSwitch
  BY <1>1, <1>2, <1>4, <1>21, SwitchType DEF DoSwitch
<1>22. CASE DoPass
  <2>1. UNCHANGED <<storeVars, running, memo, halted, S, crashes>>
    BY <1>22 DEF DoPass
  <2>2. StoreTypeOK'
    BY <1>1, <2>1, CommitTypes
  <2>3. ASSUME NEW p \in PassCandidates, attempted' = attempted \cup {p},
               GossipedBody(p, pending[p], [pending EXCEPT ![p] = None], agenda)
        PROVE  MemoryTypeOK' /\ IntakeTypeOK'
    <3>1. p \in Peers /\ pending[p] \in Blocks
      BY <1>1 DEF PassCandidates, IntakeTypeOK
    <3>2. [pending EXCEPT ![p] = None] \in [Peers -> Blocks \cup {None}]
      BY <1>1 DEF IntakeTypeOK
    <3>3. agenda' \in Seq(Entries) /\ pending' \in [Peers -> Blocks \cup {None}]
      BY <1>2, <2>3, <3>1, <3>2, GossipedBodyType
    <3>. QED
      BY <1>1, <2>1, <2>3, <3>1, <3>3 DEF MemoryTypeOK, IntakeTypeOK
  <2>4. CASE attempted' = {} /\ Instead(<<>>) /\ UNCHANGED pending
    <3>1. UNCHANGED <<running, memo, halted>>
      BY <2>1
    <3>2. MemoryTypeOK'
      BY <1>6, <2>4, <3>1
    <3>3. S' = S /\ crashes' = crashes /\ pending' = pending /\ attempted' = {}
      BY <2>1, <2>4
    <3>. QED
      BY <1>1, <2>2, <3>2, <3>3 DEF IntakeTypeOK
  <2>. QED
    BY <1>22, <2>2, <2>3, <2>4 DEF DoPass
<1>. QED
  BY <1>8, <1>9, <1>10, <1>11, <1>12, <1>13, <1>14, <1>15, <1>16, <1>17, <1>18, <1>19,
     <1>20, <1>21, <1>22 DEF Step

(* Each item, and a crash or a restart, keeps every variable in its type. *)
LEMMA ItemType ==
  ASSUME TypeOK
  PROVE  /\ \A p \in Peers : Deliver(p) => TypeOK'
         /\ \A b \in Blocks : DeliverMinedBlock(b) => TypeOK'
         /\ GateHeld \/ Crash \/ Restart => TypeOK'
<1>1. StoreTypeOK /\ MemoryTypeOK /\ IntakeTypeOK
  BY TypeParts
<1>2. StoreTypeOK' /\ MemoryTypeOK' /\ IntakeTypeOK' => TypeOK'
  BY DEF TypeOK, MemoryTypeOK, IntakeTypeOK
<1>3. UNCHANGED intakeVars => IntakeTypeOK'
  BY <1>1 DEF IntakeTypeOK, intakeVars
<1>4. UNCHANGED storeVars => StoreTypeOK'
  BY <1>1, CommitTypes
<1>5. ASSUME NEW p \in Peers, NEW input \in PageInputs, DeliverHeaders(p, input[1], input[2])
      PROVE  TypeOK'
  <2>1. input[1] \in Blocks \cup {NoClaim} /\ input[2] \in Seq(Blocks)
    BY InputAssumption
  <2>2. AdmitPage(p, input[1], input[2], Close) /\ UNCHANGED intakeVars
    BY <1>5 DEF DeliverHeaders
  <2>3. StoreTypeOK' /\ MemoryTypeOK'
    BY <1>1, <2>1, <2>2, CloseType, AdmitPageType
  <2>. QED
    BY <1>2, <1>3, <2>2, <2>3
<1>6. ASSUME NEW p \in Peers, NEW blocks \in AnswerInputs, DeliverBlocks(p, blocks)
      PROVE  TypeOK'
  <2>1. blocks \in Seq(Blocks)
    BY InputAssumption
  <2>2. \A i \in 1 .. Len(blocks) : Do("bind", p, <<blocks[i]>>) \in Entries
    <3>1. TAKE i \in 1 .. Len(blocks)
    <3>2. blocks[i] \in Blocks
      BY <2>1
    <3>. QED
      BY <3>2, BlockEntry DEF BlockOps
  <2>3. [i \in 1 .. Len(blocks) |-> Do("bind", p, <<blocks[i]>>)] \in Seq(Entries)
    BY <2>1, <2>2
  <2>4. agenda' \in Seq(Entries)
    BY <1>6, <2>3, CloseType, ConcatType DEF DeliverBlocks
  <2>. QED
    BY <1>1, <1>2, <1>3, <1>4, <1>6, <2>4 DEF DeliverBlocks, MemoryTypeOK
<1>7. ASSUME NEW p \in Peers, NEW b \in GossipInputs, DeliverGossipedBlock(p, b)
      PROVE  TypeOK'
  <2>1. b \in Blocks
    BY InputAssumption
  <2>2. agenda' \in Seq(Entries) /\ pending' \in [Peers -> Blocks \cup {None}]
    BY <1>1, <1>7, <2>1, CloseType, GossipedBodyType DEF DeliverGossipedBlock, IntakeTypeOK
  <2>. QED
    BY <1>1, <1>2, <1>4, <1>7, <2>2 DEF DeliverGossipedBlock, MemoryTypeOK, IntakeTypeOK
<1>8. ASSUME NEW p \in Peers, PeerDisconnected(p)
      PROVE  TypeOK'
  <2>1. running' \in [Peers -> Branches \cup {None}] /\ memo' \in [Peers -> Blocks \cup {None}]
    BY <1>1, <1>8 DEF PeerDisconnected, MemoryTypeOK
  <2>2. pending' \in [Peers -> Blocks \cup {None}]
    BY <1>1, <1>8 DEF PeerDisconnected, IntakeTypeOK
  <2>. QED
    BY <1>1, <1>2, <1>4, <1>8, <2>1, <2>2 DEF PeerDisconnected, MemoryTypeOK, IntakeTypeOK
<1>9. ASSUME NEW b \in Blocks, DeliverMinedBlock(b)
      PROVE  TypeOK'
  <2>1. Bind(Self, b) \in Seq(Entries)
    BY BindType
  <2>2. StoreHeader(b, CanExtendAppliedTip(b)) \o Bind(Self, b) \in Seq(Entries)
    BY <2>1, StoreHeaderType, ConcatType
  <2>3. agenda' \in Seq(Entries)
    BY <1>9, <2>1, <2>2 DEF DeliverMinedBlock
  <2>. QED
    BY <1>1, <1>2, <1>3, <1>4, <1>9, <2>3 DEF DeliverMinedBlock, MemoryTypeOK
<1>10. ASSUME GateHeld PROVE TypeOK'
  <2>1. S' \in Nat
    BY <1>1, <1>10, BestTipType DEF GateHeld
  <2>2. agenda' \in Seq(Entries)
    BY <1>10, CloseType, EmptyType DEF GateHeld
  <2>. QED
    BY <1>1, <1>2, <1>4, <1>10, <2>1, <2>2 DEF GateHeld, MemoryTypeOK, IntakeTypeOK
<1>11. ASSUME LoseMemory, crashes' \in 0 .. MaxCrashes PROVE TypeOK'
  <2>1. MemoryTypeOK'
    BY <1>11, EmptyType DEF LoseMemory, MemoryTypeOK, NoMemo
  <2>2. IntakeTypeOK'
    BY <1>11 DEF LoseMemory, IntakeTypeOK
  <2>. QED
    BY <1>2, <1>4, <1>11, <2>1, <2>2 DEF LoseMemory
<1>12. ASSUME Crash \/ Restart PROVE TypeOK'
  <2>1. LoseMemory
    BY <1>12 DEF Crash, Restart
  <2>2. crashes' \in 0 .. MaxCrashes
    BY <1>1, <1>12, BoundAssumption DEF Crash, Restart, IntakeTypeOK
  <2>. QED
    BY <1>11, <2>1, <2>2
<1>. QED
  BY <1>5, <1>6, <1>7, <1>8, <1>9, <1>10, <1>12 DEF Deliver

(* Every variable keeps its type: in particular an agenda entry that reads  *)
(* a block has one, whichever commits the item made before it.              *)
THEOREM TypeCorrect == Spec => []TypeOK
<1>1. Init => TypeOK
  BY EmptyType, TreeTypes, BoundAssumption
     DEF Init, TypeOK, StoreInit, StoreTypeOK, NoMemo
<1>2. TypeOK /\ [Next]_vars => TypeOK'
  <2>. SUFFICES ASSUME TypeOK, [Next]_vars PROVE TypeOK'
    OBVIOUS
  <2>1. CASE Step
    BY <2>1, StepType
  <2>2. CASE UNCHANGED vars
    BY <2>2 DEF vars, storeVars, pipelineVars, intakeVars, TypeOK, StoreTypeOK
  <2>3. ASSUME NEW b \in MinedInputs, DeliverMinedBlock(b) PROVE TypeOK'
    BY <2>3, ItemType, InputAssumption
  <2>. QED
    BY <2>1, <2>2, <2>3, ItemType DEF Next
<1>. QED
  BY <1>1, <1>2, PTL DEF Spec

-----------------------------------------------------------------------------
(* What holds of the store at every commit, so after a crash between any    *)
(* two of them as well: a staged body has its header, and every block a     *)
(* switch may revert has its journal.  Both follow from the list of the     *)
(* commits a step can make, with what the step checked before each.         *)

\* Every way a step of the node changes the store.
StoreCommit ==
  \/ UNCHANGED storeVars
  \/ \E b \in Blocks : InsertHeader(b)
  \/ \E f, hashes : RewriteBestChain(f, hashes)
  \/ \E b \in Blocks : RemoveHeaderSubtree(b)
  \/ \E f : PruneHeadersBelow(f)
  \/ \E b \in Blocks : Binds(b) /\ StageBlock(b)
  \/ \E b \in Blocks : UnstageBlock(b)
  \/ \E b \in Blocks : InsertRefusedHeader(b)
  \/ \E b \in Blocks : ~ConsensusRefused(b) /\ CommitBlock(b)
  \/ /\ tip # Root /\ SwitchReachable
     /\ \E b \in ReorgTips : CommitReorg(SwitchFork, Prefix, b)

(* A move of the best chain rewrites the index, or halts the node. *)
LEMMA MoveCommits ==
  ASSUME NEW t, MoveBestTo(t)
  PROVE  StoreCommit
BY DEF MoveBestTo, StoreCommit

(* Applying a staged block commits it only where the funnel accepts it. *)
LEMMA ApplyCommits ==
  ASSUME NEW b \in Blocks, NEW next, ApplyStagedBlock(b, next)
  PROVE  StoreCommit
BY DEF ApplyStagedBlock, StoreCommit

(* The switch commits nothing, or the whole reorg. *)
LEMMA SwitchCommits ==
  ASSUME TrySwitch
  PROVE  StoreCommit
<1>1. CASE UNCHANGED storeVars
  BY <1>1 DEF StoreCommit
<1>2. CASE ~NoSwitchDue /\ SwitchErrors = {} /\ Reorg
  <2>1. tip # Root /\ SwitchReachable
    BY <1>2 DEF NoSwitchDue, SwitchErrors
  <2>. QED
    BY <1>2, <2>1 DEF Reorg, StoreCommit
<1>. QED
  BY <1>1, <1>2 DEF TrySwitch

(* A step of an item makes one commit at most, and one of the listed ones. *)
LEMMA StepCommits ==
  ASSUME TypeOK, Step
  PROVE  StoreCommit
<1>1. agenda # <<>> /\ agenda \in Seq(Entries)
  BY DEF Step, At, DoInsert, DoPut, DoMove, DoUnstage, DoPrune, DoRechooseAfterApply,
       DoMark, DoRemove, DoRechoose, DoBind, DoExtend, DoInHand, DoDrain, DoSwitch, DoPass,
       TypeOK
<1>2. Now.op \in BlockOps => Subject \in Blocks
  BY <1>1, NowType
<1>3. CASE DoInsert
  BY <1>2, <1>3 DEF DoInsert, At, BlockOps, StoreCommit
<1>4. CASE DoPut
  BY <1>4 DEF DoPut, PutOnBest, StoreCommit
<1>5. CASE DoMove
  BY <1>5, MoveCommits DEF DoMove
<1>6. CASE DoUnstage
  BY <1>2, <1>6 DEF DoUnstage, At, BlockOps, StoreCommit
<1>7. CASE DoPrune
  BY <1>7 DEF DoPrune, PruneHeaderTree, StoreCommit
<1>8. CASE DoRechooseAfterApply
  <2>1. CASE UNCHANGED storeVars
    BY <2>1 DEF StoreCommit
  <2>2. CASE \E t : MoveBestTo(t)
    BY <2>2, MoveCommits
  <2>. QED
    BY <1>8, <2>1, <2>2 DEF DoRechooseAfterApply, RechooseAfterApply
<1>9. CASE DoMark
  BY <1>2, <1>9 DEF DoMark, At, BlockOps, StoreCommit
<1>10. CASE DoRemove
  BY <1>2, <1>10 DEF DoRemove, At, BlockOps, StoreCommit
<1>11. CASE DoRechoose
  <2>1. CASE UNCHANGED storeVars
    BY <2>1 DEF StoreCommit
  <2>2. CASE \E t : MoveBestTo(t)
    BY <2>2, MoveCommits
  <2>. QED
    BY <1>11, <2>1, <2>2 DEF DoRechoose, RechooseBestChain
<1>12. CASE DoBind
  BY <1>2, <1>12 DEF DoBind, At, BlockOps, StoreCommit
<1>13. CASE DoExtend
  <2>1. Subject \in Blocks
    BY <1>2, <1>13 DEF DoExtend, At, BlockOps
  <2>. QED
    BY <1>13, <2>1, ApplyCommits DEF DoExtend
<1>14. CASE DoInHand
  <2>1. Subject \in Blocks
    BY <1>2, <1>14 DEF DoInHand, At, BlockOps
  <2>. QED
    BY <1>14, <2>1, ApplyCommits DEF DoInHand
<1>15. CASE DoDrain
  BY <1>15 DEF DoDrain, StoreCommit
<1>16. CASE DoSwitch
  BY <1>16, SwitchCommits DEF DoSwitch
<1>17. CASE DoPass
  BY <1>17 DEF DoPass, StoreCommit
<1>. QED
  BY <1>3, <1>4, <1>5, <1>6, <1>7, <1>8, <1>9, <1>10, <1>11, <1>12, <1>13, <1>14, <1>15,
     <1>16, <1>17 DEF Step

(* The start of an item, a crash and a restart leave the store alone. *)
LEMMA NextCommits ==
  ASSUME TypeOK, [Next]_vars
  PROVE  StoreCommit
<1>1. CASE Step
  BY <1>1, StepCommits
<1>2. ASSUME NEW p \in Peers, Deliver(p) PROVE UNCHANGED storeVars
  BY <1>2 DEF Deliver, DeliverHeaders, AdmitPage, DeliverBlocks, DeliverGossipedBlock,
              PeerDisconnected
<1>3. ASSUME NEW b \in MinedInputs, DeliverMinedBlock(b) PROVE UNCHANGED storeVars
  BY <1>3 DEF DeliverMinedBlock
<1>4. CASE GateHeld \/ Crash \/ Restart
  BY <1>4 DEF GateHeld, Crash, Restart, LoseMemory, StoreCommit
<1>5. CASE UNCHANGED vars
  BY <1>5 DEF vars, StoreCommit
<1>6. UNCHANGED storeVars => StoreCommit
  BY DEF StoreCommit
<1>. QED
  BY <1>1, <1>2, <1>3, <1>4, <1>5, <1>6 DEF Next

-----------------------------------------------------------------------------
(* Staged bodies. *)

(* No commit leaves a body staged without its header: only the three that  *)
(* take headers away could, and each takes the bodies with them.           *)
LEMMA CommitKeepsStaged ==
  ASSUME StagedHasHeader, StoreCommit
  PROVE  StagedHasHeader'
<1>1. CASE UNCHANGED storeVars
  BY <1>1 DEF storeVars, StagedHasHeader
<1>2. CASE \E b \in Blocks : InsertHeader(b)
  BY <1>2 DEF InsertHeader, StagedHasHeader
<1>3. CASE \E f, hashes : RewriteBestChain(f, hashes)
  BY <1>3 DEF RewriteBestChain, StagedHasHeader
<1>4. CASE \E b \in Blocks : RemoveHeaderSubtree(b)
  BY <1>4 DEF RemoveHeaderSubtree, StagedHasHeader
<1>5. CASE \E f : PruneHeadersBelow(f)
  BY <1>5 DEF PruneHeadersBelow, StagedHasHeader
<1>6. CASE \E b \in Blocks : Binds(b) /\ StageBlock(b)
  BY <1>6 DEF Binds, StageBlock, StagedHasHeader
<1>7. CASE \E b \in Blocks : UnstageBlock(b)
  BY <1>7 DEF UnstageBlock, StagedHasHeader
<1>8. CASE \E b \in Blocks : InsertRefusedHeader(b)
  BY <1>8 DEF InsertRefusedHeader, StagedHasHeader
<1>9. CASE \E b \in Blocks : CommitBlock(b)
  BY <1>9 DEF CommitBlock, StagedHasHeader
<1>10. CASE \E b : CommitReorg(SwitchFork, Prefix, b)
  BY <1>10 DEF CommitReorg, StagedHasHeader
<1>. QED
  BY <1>1, <1>2, <1>3, <1>4, <1>5, <1>6, <1>7, <1>8, <1>9, <1>10 DEF StoreCommit

(* In every state, so after a crash at any commit, each staged body has its *)
(* header in the tree.                                                      *)
THEOREM StagedBodiesHaveHeaders == Spec => []StagedHasHeader
<1>1. Init => StagedHasHeader
  BY DEF Init, StoreInit, StagedHasHeader
<1>2. TypeOK /\ StagedHasHeader /\ [Next]_vars => StagedHasHeader'
  BY NextCommits, CommitKeepsStaged
<1>. QED
  BY <1>1, <1>2, TypeCorrect, PTL DEF Spec

-----------------------------------------------------------------------------
(* Journals. *)

\* The journals are those of the topmost applied heights, without a gap:
\* above a journaled height every applied height is journaled too.
JournalsUnbroken ==
  /\ \A j \in journals : j <= Height(tip)
  /\ \A j \in journals : \A k \in j .. Height(tip) : k \in journals

(* What a switch may revert lies above the lowest journal, so an unbroken   *)
(* run of journals covers it.                                               *)
LEMMA UnbrokenCovers ==
  ASSUME StoreTypeOK, JournalsUnbroken
  PROVE  RevertsCovered
<1>1. Height(tip) \in Nat
  BY TreeTypes DEF StoreTypeOK
<1>2. ReachFloor \in Nat /\ ReachFloor >= LowestJournal - 1 /\ LowestJournal \in Nat
  BY ReachFloorType
<1>3. CASE journals = {}
  BY <1>1, <1>2, <1>3 DEF LowestJournal, RevertsCovered
<1>4. CASE journals # {}
  <2>1. journals \subseteq Nat
    BY DEF StoreTypeOK
  <2>2. LowestJournal \in journals
    BY <1>4, <2>1, MinOfNaturals DEF LowestJournal
  <2>3. (ReachFloor + 1) .. Height(tip) \subseteq LowestJournal .. Height(tip)
    BY <1>1, <1>2
  <2>. QED
    BY <2>2, <2>3 DEF JournalsUnbroken, RevertsCovered
<1>. QED
  BY <1>3, <1>4

(* A block applied at the tip adds the next height; the purge takes the     *)
(* lowest heights only.                                                     *)
LEMMA CommitBlockUnbroken ==
  ASSUME StoreTypeOK, JournalsUnbroken, NEW b \in Blocks, ~ConsensusRefused(b),
         CommitBlock(b)
  PROVE  JournalsUnbroken'
<1>. DEFINE H == Height(b)
<1>1. H = Height(tip) + 1 /\ Height(tip) \in Nat
  BY HeightOfParent, TreeTypes DEF ConsensusRefused, StoreTypeOK
<1>2. tip' = b /\ journals' = {j \in journals \cup {H} : j >= H - MaxReorgDepth}
  BY DEF CommitBlock, KeptJournals
<1>3. Height(tip') = H
  BY <1>2
<1>4. journals \subseteq Nat /\ MaxReorgDepth \in Nat
  BY MaxReorgDepthAssumption DEF StoreTypeOK
<1>5. \A j \in journals' : j <= H
  BY <1>1, <1>2, <1>4 DEF JournalsUnbroken
<1>6. ASSUME NEW j \in journals', NEW k \in j .. H
      PROVE  k \in journals'
  <2>1. j \in Nat /\ H \in Nat /\ k \in Nat /\ k >= H - MaxReorgDepth
    BY <1>1, <1>2, <1>4
  <2>2. k # H => k \in journals
    BY <1>1, <1>2, <1>6, <2>1 DEF JournalsUnbroken
  <2>. QED
    BY <1>2, <2>1, <2>2
<1>. QED
  BY <1>3, <1>5, <1>6 DEF JournalsUnbroken

(* A reorg keeps the journals up to the fork and adds every height above   *)
(* it up to the new tip.                                                    *)
LEMMA CommitReorgUnbroken ==
  ASSUME StoreTypeOK, JournalsUnbroken, tip # Root, SwitchReachable,
         NEW b \in ReorgTips, CommitReorg(SwitchFork, Prefix, b)
  PROVE  JournalsUnbroken'
<1>. DEFINE f == SwitchFork
            H == Height(b)
            reverted == {j \in journals : j <= f}
<1>1. b \in Nodes /\ Prefix \subseteq Blocks
  BY ReorgTipsType
<1>2. f \in Nat /\ f < Height(tip) /\ H \in Nat /\ Height(tip) \in Nat
  BY <1>1, SwitchForkType, TreeTypes DEF StoreTypeOK
<1>3. tip' = b /\ Height(tip') = H
  BY DEF CommitReorg
<1>4. journals \subseteq Nat /\ MaxReorgDepth \in Nat
  BY MaxReorgDepthAssumption DEF StoreTypeOK
<1>5. \A j \in reverted : \A k \in j .. f : k \in reverted
  BY <1>2, <1>4 DEF JournalsUnbroken
<1>6. CASE Prefix = {}
  <2>1. b = ForkNode
    BY <1>6 DEF ReorgTips
  <2>2. H = f
    <3>1. CASE f = 0
      BY <2>1, <3>1, TreeTypes DEF ForkNode
    <3>2. CASE f # 0
      BY <1>2, <2>1, <3>2, HeightOnPath DEF ForkNode, StoreTypeOK
    <3>. QED
      BY <3>1, <3>2
  <2>3. journals' = reverted
    BY <1>6 DEF CommitReorg
  <2>. QED
    BY <1>2, <1>3, <1>4, <1>5, <2>2, <2>3 DEF JournalsUnbroken
<1>7. CASE Prefix # {}
  <2>1. b \in Prefix /\ H > f
    BY <1>7 DEF ReorgTips, Prefix, PrefixHeights
  <2>2. journals' = {j \in reverted \cup (f + 1) .. H : j >= H - MaxReorgDepth}
    BY <1>7 DEF CommitReorg, KeptJournals
  <2>3. \A j \in journals' : j <= H
    BY <1>2, <1>4, <2>1, <2>2
  <2>4. ASSUME NEW j \in journals', NEW k \in j .. H
        PROVE  k \in journals'
    <3>1. j \in Nat /\ k \in Nat /\ k >= H - MaxReorgDepth
      BY <1>2, <1>4, <2>2
    <3>2. CASE k <= f
      <4>1. j \in reverted
        BY <1>2, <2>2, <3>1, <3>2
      <4>. QED
        BY <1>2, <1>5, <2>2, <3>1, <3>2, <4>1
    <3>3. CASE k > f
      BY <1>2, <2>2, <3>1, <3>3
    <3>. QED
      BY <1>2, <3>1, <3>2, <3>3
  <2>. QED
    BY <1>3, <2>3, <2>4 DEF JournalsUnbroken
<1>. QED
  BY <1>6, <1>7

(* The journals have no gap, at every commit. *)
LEMMA JournalsStayUnbroken == Spec => []JournalsUnbroken
<1>1. Init => JournalsUnbroken
  BY DEF Init, StoreInit, JournalsUnbroken
<1>2. TypeOK /\ JournalsUnbroken /\ [Next]_vars => JournalsUnbroken'
  <2>. SUFFICES ASSUME TypeOK, JournalsUnbroken, [Next]_vars PROVE JournalsUnbroken'
    OBVIOUS
  <2>1. StoreTypeOK /\ StoreCommit
    BY NextCommits DEF TypeOK
  <2>2. UNCHANGED <<tip, journals>> => JournalsUnbroken'
    BY DEF JournalsUnbroken
  <2>3. CASE \E b \in Blocks : ~ConsensusRefused(b) /\ CommitBlock(b)
    BY <2>1, <2>3, CommitBlockUnbroken
  <2>4. CASE /\ tip # Root /\ SwitchReachable
             /\ \E b \in ReorgTips : CommitReorg(SwitchFork, Prefix, b)
    BY <2>1, <2>4, CommitReorgUnbroken
  <2>. QED
    BY <2>1, <2>2, <2>3, <2>4
       DEF StoreCommit, storeVars, InsertHeader, RewriteBestChain, RemoveHeaderSubtree,
           PruneHeadersBelow, StageBlock, UnstageBlock, InsertRefusedHeader
<1>. QED
  BY <1>1, <1>2, TypeCorrect, PTL DEF Spec

(* Every block a switch may revert, down to the reach floor, has its        *)
(* journal, whatever sequence of applies, switches and crashes came before: *)
(* the journals are purged from the bottom and the floor follows them.      *)
THEOREM RevertsAlwaysCovered == Spec => []RevertsCovered
<1>1. TypeOK /\ JournalsUnbroken => RevertsCovered
  BY UnbrokenCovers DEF TypeOK
<1>. QED
  BY <1>1, JournalsStayUnbroken, TypeCorrect, PTL

-----------------------------------------------------------------------------
(* The memo: net does not ask a peer for a claim that scored lighter, so a  *)
(* verdict must not outlive the best tip it was reached against.  Between   *)
(* a removal and the choice behind it the best tip may be lower; put on the *)
(* index, headers must have their rows, or the tip they name reads as none. *)

\* A run of headers is put on the index only behind the inserts of those not stored yet.
PutsStored(s, stored) ==
  \A i \in 1 .. Len(s) : s[i].op = "put" =>
    /\ \A j \in 1 .. i - 1 : s[j].op = "insert"
    /\ \A k \in 1 .. Len(s[i].bs) :
         s[i].bs[k] \in stored \/ \E j \in 1 .. i - 1 : s[j].bs[1] = s[i].bs[k]

\* No entry of s puts headers on the index.
NoPuts(s) == \A i \in 1 .. Len(s) : s[i].op # "put"

\* What is taken off the index is followed by a new choice.
ChoosesAfter(s) ==
  \A i \in 1 .. Len(s) : s[i].op = "remove" => i + 1 \in 1 .. Len(s) /\ s[i + 1].op = "rechoose"

\* No claim a peer was refused for is heavier than the best tip.
MemoHolds == \A p \in Peers : memo[p] # None => Work[memo[p]] <= Work[BestTip]

\* The invariant MemoSound needs.
MemoKept ==
  /\ best \subseteq headers
  /\ PutsStored(agenda, headers) /\ ChoosesAfter(agenda)
  /\ MemoHolds \/ halted # "no" \/ (agenda # <<>> /\ Now.op = "rechoose")

(* What puts nothing needs no rows. *)
LEMMA NoPutsStored ==
  ASSUME NEW s, NoPuts(s), NEW stored
  PROVE  PutsStored(s, stored)
BY DEF NoPuts, PutsStored

(* The places of a concatenation. *)
LEMMA ConcatParts ==
  ASSUME NEW s \in Seq(Entries), NEW t \in Seq(Entries)
  PROVE  /\ s \o t \in Seq(Entries) /\ Len(s \o t) = Len(s) + Len(t)
         /\ \A i \in 1 .. Len(s) : (s \o t)[i] = s[i]
         /\ \A i \in 1 .. Len(t) : (s \o t)[Len(s) + i] = t[i]
         /\ \A i \in 1 .. Len(s) + Len(t) :
              i \in 1 .. Len(s) \/ (i - Len(s) \in 1 .. Len(t) /\ (s \o t)[i] = t[i - Len(s)])
         /\ Len(s) \in Nat /\ Len(t) \in Nat
BY ConcatProperties

(* Two agendas that are quiet by themselves are so one after the other. *)
LEMMA Together ==
  ASSUME NEW s \in Seq(Entries), NEW t \in Seq(Entries)
  PROVE  /\ NoPuts(s) /\ NoPuts(t) => NoPuts(s \o t)
         /\ ChoosesAfter(s) /\ ChoosesAfter(t) => ChoosesAfter(s \o t)
<1>. DEFINE u == s \o t
<1>1. /\ Len(u) = Len(s) + Len(t) /\ Len(s) \in Nat /\ Len(t) \in Nat
      /\ \A i \in 1 .. Len(s) : u[i] = s[i]
      /\ \A i \in 1 .. Len(s) + Len(t) :
           i \in 1 .. Len(s) \/ (i - Len(s) \in 1 .. Len(t) /\ u[i] = t[i - Len(s)])
      /\ \A i \in 1 .. Len(t) : u[Len(s) + i] = t[i]
  BY ConcatParts
<1>. HIDE DEF u
<1>2. ASSUME NoPuts(s), NoPuts(t) PROVE NoPuts(u)
  <2>. SUFFICES ASSUME NEW i \in 1 .. Len(u) PROVE u[i].op # "put"
    BY DEF NoPuts
  <2>. QED
    BY <1>1, <1>2 DEF NoPuts
<1>3. ASSUME ChoosesAfter(s), ChoosesAfter(t) PROVE ChoosesAfter(u)
  <2>. SUFFICES ASSUME NEW i \in 1 .. Len(u), u[i].op = "remove"
                PROVE  i + 1 \in 1 .. Len(u) /\ u[i + 1].op = "rechoose"
    BY DEF ChoosesAfter
  <2>1. CASE i \in 1 .. Len(s)
    <3>1. i + 1 \in 1 .. Len(s) /\ s[i + 1].op = "rechoose"
      BY <1>1, <1>3, <2>1 DEF ChoosesAfter
    <3>. QED
      BY <1>1, <3>1
  <2>2. CASE i \notin 1 .. Len(s)
    <3>. DEFINE j == i - Len(s)
    <3>1. j \in 1 .. Len(t) /\ t[j].op = "remove"
      BY <1>1, <2>2
    <3>2. j + 1 \in 1 .. Len(t) /\ t[j + 1].op = "rechoose"
      BY <1>3, <3>1 DEF ChoosesAfter
    <3>3. i + 1 = Len(s) + (j + 1)
      BY <1>1
    <3>. QED
      BY <1>1, <3>2, <3>3
  <2>. QED
    BY <2>1, <2>2
<1>. QED
  BY <1>2, <1>3 DEF u

(* Behind the head of an agenda nothing is put, unless the head inserts. *)
LEMMA TailParts ==
  ASSUME NEW s \in Seq(Entries), s # <<>>, ChoosesAfter(s)
  PROVE  /\ Tail(s) \in Seq(Entries) /\ ChoosesAfter(Tail(s))
         /\ \A hs : PutsStored(s, hs) /\ s[1].op # "insert" => NoPuts(Tail(s))
         /\ \A hs : PutsStored(s, hs) => PutsStored(Tail(s), hs \cup {s[1].bs[1]})
<1>. DEFINE t == Tail(s)
<1>1. /\ t \in Seq(Entries) /\ Len(t) = Len(s) - 1 /\ Len(s) \in Nat \ {0}
      /\ \A i \in 1 .. Len(t) : t[i] = s[i + 1]
  BY HeadTailProperties
<1>. HIDE DEF t
<1>2. ChoosesAfter(t)
  BY <1>1 DEF ChoosesAfter
<1>3. ASSUME NEW hs, PutsStored(s, hs), s[1].op # "insert" PROVE NoPuts(t)
  <2>. SUFFICES ASSUME NEW i \in 1 .. Len(t), t[i].op = "put" PROVE FALSE
    BY DEF NoPuts
  <2>1. i + 1 \in 1 .. Len(s) /\ s[i + 1].op = "put" /\ 1 \in 1 .. (i + 1) - 1
    BY <1>1
  <2>. QED
    BY <1>3, <2>1 DEF PutsStored
<1>4. ASSUME NEW hs, PutsStored(s, hs) PROVE PutsStored(t, hs \cup {s[1].bs[1]})
  <2>. SUFFICES ASSUME NEW i \in 1 .. Len(t), t[i].op = "put"
                PROVE  /\ \A j \in 1 .. i - 1 : t[j].op = "insert"
                       /\ \A k \in 1 .. Len(t[i].bs) :
                            t[i].bs[k] \in hs \cup {s[1].bs[1]}
                              \/ \E j \in 1 .. i - 1 : t[j].bs[1] = t[i].bs[k]
    BY DEF PutsStored
  <2>1. i + 1 \in 1 .. Len(s) /\ s[i + 1] = t[i]
    BY <1>1
  <2>2. /\ \A j \in 1 .. i : s[j].op = "insert"
        /\ \A k \in 1 .. Len(t[i].bs) :
             t[i].bs[k] \in hs \/ \E j \in 1 .. i : s[j].bs[1] = t[i].bs[k]
    <3>1. (i + 1) - 1 = i
      OBVIOUS
    <3>. QED
      BY <1>4, <2>1, <3>1 DEF PutsStored
  <2>3. \A j \in 1 .. i - 1 : t[j] = s[j + 1] /\ j + 1 \in 1 .. i
    BY <1>1
  <2>4. \A j \in 1 .. i : j = 1 \/ (j - 1 \in 1 .. i - 1 /\ t[j - 1] = s[j])
    BY <1>1
  <2>5. ASSUME NEW k \in 1 .. Len(t[i].bs)
        PROVE  t[i].bs[k] \in hs \cup {s[1].bs[1]} \/ \E j \in 1 .. i - 1 : t[j].bs[1] = t[i].bs[k]
    <3>1. CASE t[i].bs[k] \in hs
      BY <3>1
    <3>2. CASE t[i].bs[k] \notin hs
      <4>1. PICK j \in 1 .. i : s[j].bs[1] = t[i].bs[k]
        BY <2>2, <2>5, <3>2
      <4>. QED
        BY <2>4, <4>1
    <3>. QED
      BY <3>1, <3>2
  <2>. QED
    BY <2>2, <2>3, <2>5
<1>. QED
  BY <1>1, <1>2, <1>3, <1>4 DEF t

(* What an item's step may put in front: entries that put nothing and choose after removing. *)
LEMMA InsteadKeeps ==
  ASSUME agenda \in Seq(Entries), agenda # <<>>, PutsStored(agenda, headers), ChoosesAfter(agenda),
         Now.op # "insert", NEW s \in Seq(Entries), NoPuts(s), ChoosesAfter(s), Instead(s)
  PROVE  PutsStored(agenda', headers') /\ ChoosesAfter(agenda')
<1>1. agenda[1].op # "insert"
  BY DEF Now
<1>2. Tail(agenda) \in Seq(Entries) /\ ChoosesAfter(Tail(agenda)) /\ NoPuts(Tail(agenda))
  BY <1>1, TailParts
<1>3. NoPuts(s \o Tail(agenda)) /\ ChoosesAfter(s \o Tail(agenda))
  BY <1>2, Together
<1>. QED
  BY <1>3, NoPutsStored DEF Instead

(* Entries that put nothing and remove nothing. *)
LEMMA Harmless ==
  ASSUME NEW s, \A i \in 1 .. Len(s) : s[i].op \notin {"put", "remove"}
  PROVE  NoPuts(s) /\ ChoosesAfter(s)
BY DEF NoPuts, ChoosesAfter

(* The agendas the code builds from entries that put nothing. *)
LEMMA ClosesKeep ==
  /\ NoPuts(Close) /\ ChoosesAfter(Close)
  /\ \A b : NoPuts(MarkRefused(b)) /\ ChoosesAfter(MarkRefused(b))
  /\ \A p, b : NoPuts(Bind(p, b)) /\ ChoosesAfter(Bind(p, b))
  /\ \A bs \in Seq(Blocks) : NoPuts(Inserts(bs)) /\ ChoosesAfter(Inserts(bs))
  /\ NoPuts(<<>>) /\ ChoosesAfter(<<>>)
<1>1. NoPuts(Close) /\ ChoosesAfter(Close)
  BY Harmless DEF Close, Plain, Do
<1>2. ASSUME NEW b PROVE NoPuts(MarkRefused(b)) /\ ChoosesAfter(MarkRefused(b))
  <2>. DEFINE s == MarkRefused(b)
  <2>1. Len(s) = 3 /\ s[1].op = "mark" /\ s[2].op = "remove" /\ s[3].op = "rechoose"
    BY DEF MarkRefused, Plain, Do
  <2>. HIDE DEF s
  <2>2. \A i \in 1 .. Len(s) : i = 1 \/ i = 2 \/ i = 3
    BY <2>1
  <2>3. NoPuts(s)
    BY <2>1, <2>2 DEF NoPuts
  <2>4. ChoosesAfter(s)
    <3>. SUFFICES ASSUME NEW i \in 1 .. Len(s), s[i].op = "remove"
                  PROVE  i + 1 \in 1 .. Len(s) /\ s[i + 1].op = "rechoose"
      BY DEF ChoosesAfter
    <3>1. i = 2
      BY <2>1, <2>2
    <3>. QED
      BY <2>1, <3>1
  <2>. QED
    BY <2>3, <2>4 DEF s
<1>3. ASSUME NEW p, NEW b PROVE NoPuts(Bind(p, b)) /\ ChoosesAfter(Bind(p, b))
  BY Harmless DEF Bind, Do
<1>4. ASSUME NEW bs \in Seq(Blocks) PROVE NoPuts(Inserts(bs)) /\ ChoosesAfter(Inserts(bs))
  BY Harmless DEF Inserts, Do
<1>5. NoPuts(<<>>) /\ ChoosesAfter(<<>>)
  BY Harmless
<1>. QED
  BY <1>1, <1>2, <1>3, <1>4, <1>5

(* Headers are put on the index right behind their inserts. *)
LEMMA PutBehindInserts ==
  ASSUME NEW bs \in Seq(Blocks), bs # <<>>, NEW stored
  PROVE  LET s == Inserts(bs) \o <<Do("put", Self, bs)>>
         IN  \A t \in Seq(Entries) : NoPuts(t) /\ ChoosesAfter(t)
               => PutsStored(s \o t, stored) /\ ChoosesAfter(s \o t)
<1>. DEFINE ins == Inserts(bs)
            put == <<Do("put", Self, bs)>>
            s == ins \o put
<1>1. ins \in Seq(Entries) /\ put \in Seq(Entries) /\ s \in Seq(Entries)
  <2>1. put \in Seq(Entries)
    BY PutEntry, OneType
  <2>. QED
    BY <2>1, InsertsType, ConcatType
<1>2. Len(ins) = Len(bs) /\ \A i \in 1 .. Len(bs) : ins[i].op = "insert" /\ ins[i].bs[1] = bs[i]
  BY DEF Inserts, Do
<1>3. Len(put) = 1 /\ put[1].op = "put" /\ put[1].bs = bs
  BY DEF Do
<1>. SUFFICES ASSUME NEW t \in Seq(Entries), NoPuts(t), ChoosesAfter(t)
              PROVE  PutsStored(s \o t, stored) /\ ChoosesAfter(s \o t)
  OBVIOUS
<1>. HIDE DEF ins, put
<1>4. /\ Len(s) = Len(bs) + 1 /\ Len(bs) \in Nat
      /\ \A i \in 1 .. Len(bs) : s[i] = ins[i]
      /\ s[Len(bs) + 1] = put[1]
  <2>1. /\ Len(s) = Len(ins) + Len(put)
        /\ \A i \in 1 .. Len(ins) : s[i] = ins[i]
        /\ \A i \in 1 .. Len(put) : s[Len(ins) + i] = put[i]
    BY <1>1, ConcatParts
  <2>. HIDE DEF s
  <2>2. 1 \in 1 .. Len(put) /\ Len(bs) \in Nat
    BY <1>3
  <2>. QED
    BY <1>2, <1>3, <2>1, <2>2
<1>. HIDE DEF s
<1>. DEFINE u == s \o t
<1>5. /\ Len(u) = Len(s) + Len(t) /\ Len(t) \in Nat
      /\ \A i \in 1 .. Len(s) : u[i] = s[i]
      /\ \A i \in 1 .. Len(s) + Len(t) :
           i \in 1 .. Len(s) \/ (i - Len(s) \in 1 .. Len(t) /\ u[i] = t[i - Len(s)])
  BY <1>1, ConcatParts
<1>. HIDE DEF u
<1>6. ChoosesAfter(s)
  <2>1. \A i \in 1 .. Len(s) : s[i].op \notin {"put", "remove"} \/ i = Len(bs) + 1
    BY <1>2, <1>4
  <2>. QED
    BY <1>3, <1>4, <2>1 DEF ChoosesAfter
<1>7. ChoosesAfter(u)
  BY <1>1, <1>6, Together DEF u
<1>8. PutsStored(u, stored)
  <2>. SUFFICES ASSUME NEW i \in 1 .. Len(u), u[i].op = "put"
                PROVE  /\ \A j \in 1 .. i - 1 : u[j].op = "insert"
                       /\ \A k \in 1 .. Len(u[i].bs) :
                            u[i].bs[k] \in stored \/ \E j \in 1 .. i - 1 : u[j].bs[1] = u[i].bs[k]
    BY DEF PutsStored
  <2>1. i \in 1 .. Len(s)
    BY <1>5 DEF NoPuts
  <2>2. i = Len(bs) + 1
    BY <1>2, <1>4, <1>5, <2>1
  <2>3. u[i].bs = bs /\ \A j \in 1 .. i - 1 : u[j].op = "insert" /\ u[j].bs[1] = bs[j]
    <3>1. u[i] = put[1]
      BY <1>4, <1>5, <2>1, <2>2
    <3>2. \A j \in 1 .. i - 1 : j \in 1 .. Len(bs) /\ j \in 1 .. Len(s)
      BY <1>4, <2>2
    <3>3. \A j \in 1 .. i - 1 : u[j] = ins[j]
      BY <1>4, <1>5, <3>2
    <3>. QED
      BY <1>2, <1>3, <3>1, <3>2, <3>3
  <2>4. i - 1 = Len(bs)
    BY <1>4, <2>2
  <2>. QED
    BY <2>3, <2>4
<1>. QED
  BY <1>7, <1>8 DEF u

(* The best tip depends on the index alone as long as its rows are stored. *)
LEMMA BestTipKept ==
  ASSUME best \subseteq headers, best' = best, best \subseteq headers'
  PROVE  BestTip' = BestTip
<1>. DEFINE top == {b \in best : \A c \in best : Height(c) <= Height(b)}
            rows == top \cap headers
            next == top \cap headers'
<1>1. BestTip = IF rows = {} THEN Root ELSE CHOOSE b \in rows : TRUE
  BY DEF BestTip
<1>2. BestTip' = IF next = {} THEN Root ELSE CHOOSE b \in next : TRUE
  BY DEF BestTip
<1>3. rows = next
  OBVIOUS
<1>. HIDE DEF rows, next
<1>. QED
  BY <1>1, <1>2, <1>3

(* A verdict that was right stays so while neither it nor the index changes. *)
LEMMA MemoStays ==
  ASSUME MemoHolds, best \subseteq headers, best' = best, best \subseteq headers', memo' = memo
  PROVE  MemoHolds'
BY BestTipKept DEF MemoHolds

(* An empty memo says nothing wrong. *)
LEMMA MemoCleared ==
  ASSUME memo' = NoMemo
  PROVE  MemoHolds'
BY DEF MemoHolds, NoMemo

(* A moved index consists of stored rows, and the memo goes with the old one. *)
LEMMA MoveKeeps ==
  ASSUME TypeOK, best \subseteq headers, NEW t \in Nodes, MoveBestTo(t)
  PROVE  best' \subseteq headers' /\ (MemoHolds' \/ halted' # "no")
<1>1. CASE ~ RowsDownTo(t, MeetsBest(t))
  BY <1>1 DEF MoveBestTo, Halt, storeVars
<1>2. CASE RowsDownTo(t, MeetsBest(t))
  <2>1. /\ RewriteBestChain(MeetsBest(t), PathAbove(t, MeetsBest(t)))
        /\ memo' = NoMemo
    BY <1>2 DEF MoveBestTo
  <2>2. PathAbove(t, MeetsBest(t)) \subseteq headers
    <3>1. MeetsBest(t) \in Nat /\ Height(t) \in Nat
      BY PathTypes, TreeTypes DEF TypeOK
    <3>2. \A h \in MeetsBest(t) + 1 .. Height(t) : h \in 1 .. Height(t) /\ h >= MeetsBest(t)
      BY <3>1
    <3>. QED
      BY <1>2, <3>2 DEF RowsDownTo, PathAbove
  <2>3. best' \subseteq headers'
    BY <2>1, <2>2 DEF RewriteBestChain
  <2>. QED
    BY <2>1, <2>3, MemoCleared
<1>. QED
  BY <1>1, <1>2

(* A header is heavier than its parent. *)
LEMMA HeavierThanParent ==
  ASSUME NEW b \in Blocks, NEW c \in Blocks, Parent(b) = c
  PROVE  Work[c] < Work[b]
<1>1. Height(b) \in Nat /\ Height(b) >= 1 /\ Height(b) # 1
  <2>1. Height(b) \in Nat /\ Height(b) >= 1
    BY TreeTypes, ChainAssumption DEF Nodes, Height
  <2>2. Height(b) # 1
    BY RootAssumption DEF Parent
  <2>. QED
    BY <2>1, <2>2
<1>2. c = Chain[b][Height(b) - 1]
  BY <1>1 DEF Parent
<1>3. Height(b) - 1 \in 1 .. Height(b) - 1
  BY <1>1
<1>4. \A h \in 1 .. Height(b) - 1 : Work[Chain[b][h]] < Work[b]
  BY WorkAssumption DEF Height
<1>. QED
  BY <1>2, <1>3, <1>4

(* The last of linked headers is the heaviest. *)
LEMMA LinkedWork ==
  ASSUME NEW s \in Seq(Blocks), Linked(s), NEW i \in 1 .. Len(s)
  PROVE  Work[s[i]] <= Work[Last(s)]
<1>. DEFINE lighter == {j \in i .. Len(s) : Work[s[j]] < Work[s[i]]}
<1>1. Len(s) \in Nat /\ \A j \in 1 .. Len(s) : s[j] \in Blocks /\ Work[s[j]] \in Nat
  BY WorkAssumption DEF Nodes
<1>2. lighter = {}
  <2>. SUFFICES ASSUME lighter # {} PROVE FALSE
    OBVIOUS
  <2>1. lighter \subseteq Nat
    BY <1>1
  <2>2. PICK j \in lighter : \A k \in lighter : j <= k
    <3>. HIDE DEF lighter
    <3>1. Min(lighter) \in lighter /\ \A k \in lighter : Min(lighter) <= k
      BY <2>1, MinOfNaturals
    <3>. QED
      BY <3>1
  <2>3. j # i
    BY <1>1, <2>2
  <2>4. j \in 2 .. Len(s) /\ j - 1 \in i .. Len(s) /\ j - 1 \notin lighter
    BY <1>1, <2>2, <2>3
  <2>5. Work[s[j - 1]] >= Work[s[i]]
    BY <1>1, <2>4
  <2>6. Work[s[j - 1]] < Work[s[j]]
    <3>1. Parent(s[j]) = s[j - 1] /\ s[j] \in Blocks /\ s[j - 1] \in Blocks
      BY <1>1, <2>4 DEF Linked
    <3>. DEFINE b == s[j]
                c == s[j - 1]
    <3>. HIDE DEF b, c
    <3>2. Work[c] < Work[b]
      BY <3>1, HeavierThanParent DEF b, c
    <3>. QED
      BY <3>2 DEF b, c
  <2>. QED
    BY <1>1, <2>2, <2>4, <2>5, <2>6
<1>. QED
  BY <1>1, <1>2 DEF Last

\* An item's first agenda.
Starts(ag) == PutsStored(ag, headers) /\ ChoosesAfter(ag)

(* An item may start on any two quiet agendas, one after the other. *)
LEMMA StartsBy ==
  ASSUME NEW s \in Seq(Entries), NEW t \in Seq(Entries), NoPuts(s), NoPuts(t),
         ChoosesAfter(s), ChoosesAfter(t)
  PROVE  Starts(s \o t) /\ NoPuts(s \o t) /\ ChoosesAfter(s \o t) /\ s \o t \in Seq(Entries)
<1>. DEFINE u == s \o t
<1>1. NoPuts(u) /\ ChoosesAfter(u) /\ u \in Seq(Entries)
  BY Together, ConcatType
<1>. HIDE DEF u
<1>2. Starts(u)
  BY <1>1, NoPutsStored DEF Starts
<1>. QED
  BY <1>1, <1>2 DEF u

(* The agendas a page starts. *)
LEMMA PageStarts ==
  ASSUME NEW fresh \in Seq(Blocks), fresh # <<>>, NEW b \in Blocks
  PROVE  /\ Starts(Close)
         /\ Starts(Inserts(fresh) \o <<Do("move", Self, <<b>>)>> \o Close)
         /\ Starts(Inserts(fresh) \o <<Do("put", Self, fresh)>> \o Close)
         /\ Starts(Inserts(fresh) \o <<>> \o Close)
<1>. DEFINE mv == <<Do("move", Self, <<b>>)>>
<1>1. mv \in Seq(Entries) /\ NoPuts(mv) /\ ChoosesAfter(mv)
  <2>1. Do("move", Self, <<b>>) \in Entries
    BY BlockEntry DEF BlockOps
  <2>2. NoPuts(mv) /\ ChoosesAfter(mv)
    BY Harmless DEF Do
  <2>. QED
    BY <2>1, <2>2, OneType
<1>2. Close \in Seq(Entries) /\ NoPuts(Close) /\ ChoosesAfter(Close)
  BY CloseType, ClosesKeep
<1>3. Inserts(fresh) \in Seq(Entries) /\ NoPuts(Inserts(fresh)) /\ ChoosesAfter(Inserts(fresh))
  BY InsertsType, ClosesKeep
<1>4. <<>> \in Seq(Entries) /\ NoPuts(<<>>) /\ ChoosesAfter(<<>>)
  BY EmptyType, ClosesKeep
<1>5. Starts(Close)
  BY <1>2, NoPutsStored DEF Starts
<1>. HIDE DEF mv
<1>6. Starts(Inserts(fresh) \o mv \o Close)
  <2>. DEFINE t == Inserts(fresh) \o mv
  <2>1. t \in Seq(Entries) /\ NoPuts(t) /\ ChoosesAfter(t)
    BY <1>1, <1>3, StartsBy
  <2>. HIDE DEF t
  <2>2. Starts(t \o Close)
    BY <1>2, <2>1, StartsBy
  <2>. QED
    BY <2>2 DEF t
<1>7. Starts(Inserts(fresh) \o <<>> \o Close)
  <2>. DEFINE t == Inserts(fresh) \o <<>>
  <2>1. t \in Seq(Entries) /\ NoPuts(t) /\ ChoosesAfter(t)
    BY <1>3, <1>4, StartsBy
  <2>. HIDE DEF t
  <2>2. Starts(t \o Close)
    BY <1>2, <2>1, StartsBy
  <2>. QED
    BY <2>2 DEF t
<1>8. Starts(Inserts(fresh) \o <<Do("put", Self, fresh)>> \o Close)
  BY <1>2, PutBehindInserts DEF Starts
<1>. QED
  BY <1>5, <1>6, <1>7, <1>8 DEF mv

(* A page scored lighter leaves a claim that is lighter; any other leaves the memo. *)
LEMMA AdmitKeeps ==
  ASSUME TypeOK, MemoKept, Idle, NEW p \in Peers, NEW claim \in Blocks \cup {NoClaim},
         NEW page \in Seq(Blocks), AdmitPage(p, claim, page, Close)
  PROVE  MemoKept'
<1>. DEFINE fresh == Fresh(page)
<1>1. UNCHANGED <<storeVars, halted>>
  BY DEF AdmitPage
<1>2. MemoHolds /\ best \subseteq headers
  BY DEF MemoKept, Idle
<1>3. fresh \in Seq(Blocks)
  BY FreshType
<1>4. \/ UNCHANGED memo
      \/ /\ fresh # <<>> /\ Linked(fresh) /\ claim \in ToSet(fresh)
         /\ Work[Last(fresh)] <= Work[BestTip]
         /\ memo' = [memo EXCEPT ![p] = claim]
  <2>1. CASE fresh = <<>>
    BY <2>1 DEF AdmitPage
  <2>2. CASE fresh # <<>>
    BY <2>2 DEF AdmitPage, RefusePage, PageAheadOfClock, StorePass2Page, WinFirstPage,
                WinLaterPage, NotWon, PageVerifies
  <2>. QED
    BY <2>1, <2>2
<1>5. \/ agenda' = Close
      \/ /\ fresh # <<>>
         /\ \/ agenda' = Inserts(fresh) \o <<Do("move", Self, <<Last(fresh)>>)>> \o Close
            \/ agenda' = Inserts(fresh) \o <<Do("put", Self, fresh)>> \o Close
            \/ agenda' = Inserts(fresh) \o <<>> \o Close
  <2>1. CASE fresh = <<>>
    BY <2>1 DEF AdmitPage
  <2>2. CASE fresh # <<>>
    <3>1. StorePass2Page(p, fresh, Close) =>
            \/ agenda' = Inserts(fresh) \o <<Do("move", Self, <<Last(fresh)>>)>> \o Close
            \/ agenda' = Inserts(fresh) \o <<Do("put", Self, fresh)>> \o Close
            \/ agenda' = Inserts(fresh) \o <<>> \o Close
      BY DEF StorePass2Page
    <3>2. WinFirstPage(p, fresh, Close) =>
            \/ agenda' = Close
            \/ agenda' = Inserts(fresh) \o <<Do("move", Self, <<Last(fresh)>>)>> \o Close
      BY DEF WinFirstPage
    <3>. QED
      BY <2>2, <3>1, <3>2 DEF AdmitPage, WinLaterPage, NotWon
  <2>. QED
    BY <2>1, <2>2
<1>. HIDE DEF fresh
<1>6. Starts(agenda')
  <2>1. CASE fresh = <<>>
    <3>1. agenda' = Close
      BY <1>5, <2>1
    <3>. QED
      BY <3>1, CloseType, ClosesKeep, NoPutsStored DEF Starts
  <2>2. CASE fresh # <<>>
    <3>1. Last(fresh) \in Blocks
      BY <1>3, <2>2, LastType
    <3>. QED
      BY <1>3, <1>5, <2>2, <3>1, PageStarts
  <2>. QED
    BY <2>1, <2>2
<1>7. BestTip' = BestTip
  BY <1>1, <1>2, BestTipKept DEF storeVars
<1>8. MemoHolds'
  <2>1. CASE UNCHANGED memo
    BY <1>2, <1>7, <2>1 DEF MemoHolds
  <2>2. CASE /\ fresh # <<>> /\ Linked(fresh) /\ claim \in ToSet(fresh)
             /\ Work[Last(fresh)] <= Work[BestTip]
             /\ memo' = [memo EXCEPT ![p] = claim]
    <3>1. PICK i \in 1 .. Len(fresh) : claim = fresh[i]
      BY <1>3, <2>2 DEF ToSet
    <3>2. Work[claim] <= Work[Last(fresh)]
      BY <1>3, <2>2, <3>1, LinkedWork
    <3>3. claim \in Blocks /\ Last(fresh) \in Blocks /\ BestTip \in Nodes
      BY <1>3, <2>2, <3>1, LastType, BestTipType DEF TypeOK
    <3>4. Work[claim] <= Work[BestTip]
      BY <2>2, <3>2, <3>3, WorkAssumption DEF Nodes
    <3>. QED
      BY <1>2, <1>7, <2>2, <3>4 DEF MemoHolds, TypeOK
  <2>. QED
    BY <1>4, <2>1, <2>2
<1>. QED
  BY <1>1, <1>2, <1>6, <1>8 DEF MemoKept, Starts, storeVars

-----------------------------------------------------------------------------

(* An agenda may be prolonged by entries that put nothing. *)
LEMMA PutsThenQuiet ==
  ASSUME NEW s \in Seq(Entries), NEW t \in Seq(Entries), NEW stored, PutsStored(s, stored),
         ChoosesAfter(s), NoPuts(t), ChoosesAfter(t)
  PROVE  PutsStored(s \o t, stored) /\ ChoosesAfter(s \o t)
<1>. DEFINE u == s \o t
<1>1. /\ Len(u) = Len(s) + Len(t) /\ Len(s) \in Nat /\ Len(t) \in Nat
      /\ \A i \in 1 .. Len(s) : u[i] = s[i]
      /\ \A i \in 1 .. Len(s) + Len(t) :
           i \in 1 .. Len(s) \/ (i - Len(s) \in 1 .. Len(t) /\ u[i] = t[i - Len(s)])
  BY ConcatParts
<1>2. ChoosesAfter(u)
  BY Together
<1>. HIDE DEF u
<1>3. PutsStored(u, stored)
  <2>. SUFFICES ASSUME NEW i \in 1 .. Len(u), u[i].op = "put"
                PROVE  /\ \A j \in 1 .. i - 1 : u[j].op = "insert"
                       /\ \A k \in 1 .. Len(u[i].bs) :
                            u[i].bs[k] \in stored \/ \E j \in 1 .. i - 1 : u[j].bs[1] = u[i].bs[k]
    BY DEF PutsStored
  <2>1. i \in 1 .. Len(s) /\ u[i] = s[i]
    BY <1>1 DEF NoPuts
  <2>2. \A j \in 1 .. i - 1 : u[j] = s[j]
    BY <1>1, <2>1
  <2>3. /\ \A j \in 1 .. i - 1 : s[j].op = "insert"
        /\ \A k \in 1 .. Len(s[i].bs) :
             s[i].bs[k] \in stored \/ \E j \in 1 .. i - 1 : s[j].bs[1] = s[i].bs[k]
    BY <2>1 DEF PutsStored
  <2>4. \A j \in 1 .. i - 1 : u[j].op = "insert"
    BY <2>2, <2>3
  <2>5. ASSUME NEW k \in 1 .. Len(u[i].bs)
        PROVE  u[i].bs[k] \in stored \/ \E j \in 1 .. i - 1 : u[j].bs[1] = u[i].bs[k]
    <3>1. u[i].bs[k] \in stored \/ \E j \in 1 .. i - 1 : s[j].bs[1] = u[i].bs[k]
      BY <2>1, <2>3, <2>5
    <3>. QED
      BY <2>2, <3>1
  <2>. QED
    BY <2>4, <2>5
<1>. QED
  BY <1>2, <1>3 DEF u

(* What a gossiped body puts on the agenda before the rest of its item. *)
LEMMA GossipStarts ==
  ASSUME NEW p \in Peers \cup {Self}, NEW b \in Blocks, NEW inHand,
         NEW rest \in Seq(Entries), NoPuts(rest), ChoosesAfter(rest)
  PROVE  /\ Starts(rest)
         /\ Starts(Bind(p, b) \o rest)
         /\ Starts(StoreHeader(b, inHand) \o Bind(p, b) \o rest)
         /\ Starts(Bind(p, b))
         /\ Starts(StoreHeader(b, inHand) \o Bind(p, b))
<1>. DEFINE own == Bind(p, b)
            stores == StoreHeader(b, inHand)
            ins == Inserts(<<b>>)
            put == ins \o <<Do("put", Self, <<b>>)>>
            both == stores \o own
<1>1. own \in Seq(Entries) /\ NoPuts(own) /\ ChoosesAfter(own)
  BY BindType, ClosesKeep
<1>2. <<b>> \in Seq(Blocks) /\ <<b>> # <<>>
  OBVIOUS
<1>3. ins \in Seq(Entries) /\ NoPuts(ins) /\ ChoosesAfter(ins)
  BY <1>2, InsertsType, ClosesKeep
<1>4. stores \in Seq(Entries) /\ stores \in {put, ins, <<>>}
  BY StoreHeaderType DEF StoreHeader
<1>5. <<>> \in Seq(Entries) /\ NoPuts(<<>>) /\ ChoosesAfter(<<>>)
  BY EmptyType, ClosesKeep
<1>6. PutsStored(put \o own, headers) /\ ChoosesAfter(put \o own)
  BY <1>1, <1>2, PutBehindInserts
<1>. HIDE DEF own, stores, ins, put
<1>7. PutsStored(both, headers) /\ ChoosesAfter(both) /\ both \in Seq(Entries)
  <2>1. both \in Seq(Entries)
    BY <1>1, <1>4, ConcatType
  <2>2. CASE stores = put
    BY <1>6, <2>1, <2>2
  <2>3. CASE stores = ins
    <3>1. Starts(ins \o own)
      BY <1>1, <1>3, StartsBy
    <3>. QED
      BY <2>1, <2>3, <3>1 DEF Starts
  <2>4. CASE stores = <<>>
    <3>1. Starts(<<>> \o own)
      BY <1>1, <1>5, StartsBy
    <3>. QED
      BY <2>1, <2>4, <3>1 DEF Starts
  <2>. QED
    BY <1>4, <2>2, <2>3, <2>4
<1>. HIDE DEF both
<1>8. Starts(both \o rest)
  BY <1>7, PutsThenQuiet DEF Starts
<1>9. Starts(own \o rest)
  BY <1>1, StartsBy
<1>10. Starts(rest) /\ Starts(own) /\ Starts(both)
  BY <1>1, <1>7, NoPutsStored DEF Starts
<1>. QED
  BY <1>8, <1>9, <1>10 DEF own, stores, both

(* An item that neither moves the index nor scores. *)
LEMMA StartKeeps ==
  ASSUME MemoKept, Idle, Starts(agenda'), UNCHANGED <<storeVars, halted>>,
         \A p \in Peers : memo'[p] \in {memo[p], None}
  PROVE  MemoKept'
<1>1. MemoHolds /\ best \subseteq headers
  BY DEF MemoKept, Idle
<1>2. BestTip' = BestTip
  BY <1>1, BestTipKept DEF storeVars
<1>3. MemoHolds'
  BY <1>1, <1>2 DEF MemoHolds
<1>. QED
  BY <1>1, <1>3 DEF MemoKept, Starts, storeVars

(* A step that neither moves the index nor clears a row of it. *)
LEMMA QuietStep ==
  ASSUME TypeOK, MemoKept, halted = "no", agenda # <<>>, Now.op \notin {"insert", "rechoose"},
         NEW s \in Seq(Entries), NoPuts(s), ChoosesAfter(s), Instead(s),
         best' = best, best \subseteq headers', memo' = memo
  PROVE  MemoKept'
<1>1. MemoHolds /\ best \subseteq headers
  BY DEF MemoKept
<1>2. MemoHolds'
  BY <1>1, MemoStays
<1>3. PutsStored(agenda', headers') /\ ChoosesAfter(agenda')
  BY InsteadKeeps DEF TypeOK, MemoKept
<1>. QED
  BY <1>1, <1>2, <1>3 DEF MemoKept

(* A step that moves the best chain. *)
LEMMA MoveStep ==
  ASSUME TypeOK, MemoKept, agenda # <<>>, Now.op # "insert", NEW t \in Nodes, MoveBestTo(t)
  PROVE  MemoKept'
<1>1. best' \subseteq headers' /\ (MemoHolds' \/ halted' # "no")
  BY MoveKeeps DEF MemoKept
<1>2. PutsStored(agenda', headers') /\ ChoosesAfter(agenda')
  <2>1. CASE Instead(<<>>)
    BY <2>1, InsteadKeeps, EmptyType, ClosesKeep DEF TypeOK, MemoKept
  <2>2. CASE agenda' = <<>>
    BY <2>2, ClosesKeep, NoPutsStored
  <2>. QED
    BY <2>1, <2>2 DEF MoveBestTo, Halt
<1>. QED
  BY <1>1, <1>2 DEF MemoKept

(* The commits of an item that leave the index or move it. *)
LEMMA CommitSteps ==
  ASSUME TypeOK, MemoKept,
         DoInsert \/ DoPut \/ DoMove \/ DoUnstage \/ DoPrune \/ DoMark \/ DoRemove
  PROVE  MemoKept'
<1>. USE DEF At
<1>1. /\ agenda \in Seq(Entries) /\ agenda # <<>> /\ halted = "no"
      /\ Now = agenda[1] /\ 1 \in 1 .. Len(agenda)
  BY DEF TypeOK, Now, DoInsert, DoPut, DoMove, DoUnstage, DoPrune, DoMark, DoRemove
<1>2. <<>> \in Seq(Entries) /\ NoPuts(<<>>) /\ ChoosesAfter(<<>>)
  BY EmptyType, ClosesKeep
<1>3. Now.op \in BlockOps => Subject \in Blocks
  BY <1>1, NowType
<1>4. PutsStored(agenda, headers) /\ ChoosesAfter(agenda) /\ best \subseteq headers
  BY DEF MemoKept
<1>5. CASE DoInsert
  <2>1. /\ Now.op = "insert" /\ headers' = headers \cup {Subject} /\ best' = best /\ memo' = memo
        /\ Instead(<<>>)
    BY <1>5 DEF DoInsert, InsertHeader
  <2>2. PutsStored(Tail(agenda), headers \cup {Subject}) /\ ChoosesAfter(Tail(agenda))
    BY <1>1, <1>4, TailParts DEF Subject
  <2>3. agenda' = Tail(agenda)
    BY <1>1, <2>1 DEF Instead
  <2>4. MemoHolds'
    BY <1>1, <1>4, <2>1, MemoStays DEF MemoKept
  <2>. QED
    BY <1>4, <2>1, <2>2, <2>3, <2>4 DEF MemoKept
<1>6. CASE DoPut
  <2>1. /\ Now.op = "put" /\ Instead(<<>>) /\ memo' = NoMemo
        /\ RewriteBestChain(Height(Now.bs[1]) - 1, ToSet(Now.bs))
    BY <1>6 DEF DoPut, PutOnBest
  <2>2. ToSet(Now.bs) \subseteq headers
    <3>1. \A k \in 1 .. Len(Now.bs) : Now.bs[k] \in headers
      BY <1>1, <1>4, <2>1 DEF PutsStored
    <3>. QED
      BY <3>1 DEF ToSet
  <2>3. best' \subseteq headers' /\ MemoHolds'
    BY <1>4, <2>1, <2>2, MemoCleared DEF RewriteBestChain
  <2>4. PutsStored(agenda', headers') /\ ChoosesAfter(agenda')
    BY <1>1, <1>2, <1>4, <2>1, InsteadKeeps
  <2>. QED
    BY <2>3, <2>4 DEF MemoKept
<1>7. CASE DoMove
  <2>1. Now.op = "move" /\ MoveBestTo(Subject) /\ Subject \in Nodes
    BY <1>3, <1>7 DEF DoMove, BlockOps, Nodes
  <2>2. Now.op # "insert"
    BY <2>1
  <2>. DEFINE t == Subject
  <2>3. t \in Nodes /\ MoveBestTo(t)
    BY <2>1
  <2>. HIDE DEF t
  <2>. QED
    BY <1>1, <2>2, <2>3, MoveStep
<1>8. CASE DoUnstage
  <2>1. /\ Now.op = "unstage" /\ Instead(<<>>)
        /\ headers' = headers /\ best' = best /\ memo' = memo
    BY <1>8 DEF DoUnstage, UnstageBlock
  <2>. QED
    BY <1>1, <1>2, <1>4, <2>1, QuietStep
<1>9. CASE DoPrune
  <2>1. Now.op = "prune" /\ Instead(<<>>) /\ best' = best /\ best \subseteq headers' /\ memo' = memo
    BY <1>4, <1>9 DEF DoPrune, PruneHeaderTree, PruneHeadersBelow
  <2>. QED
    BY <1>1, <1>2, <1>4, <2>1, QuietStep
<1>10. CASE DoMark
  <2>1. /\ Now.op = "mark" /\ Instead(<<>>)
        /\ headers' = headers /\ best' = best /\ memo' = memo
    BY <1>10 DEF DoMark, InsertRefusedHeader
  <2>. QED
    BY <1>1, <1>2, <1>4, <2>1, QuietStep
<1>11. CASE DoRemove
  <2>1. /\ Now.op = "remove" /\ Instead(<<>>)
        /\ headers' = headers \ Subtree(Subject) /\ best' = best \ Subtree(Subject)
    BY <1>11 DEF DoRemove, RemoveHeaderSubtree
  <2>2. 1 + 1 \in 1 .. Len(agenda) /\ agenda[1 + 1].op = "rechoose"
    BY <1>1, <1>4, <2>1 DEF ChoosesAfter
  <2>3. agenda' = Tail(agenda)
    BY <1>1, <2>1 DEF Instead
  <2>4. agenda' # <<>> /\ agenda'[1] = agenda[2]
    <3>1. /\ Tail(agenda) \in Seq(Entries) /\ Len(Tail(agenda)) = Len(agenda) - 1
          /\ \A i \in 1 .. Len(Tail(agenda)) : Tail(agenda)[i] = agenda[i + 1]
      BY <1>1, HeadTailProperties
    <3>2. Len(agenda) \in Nat /\ 1 \in 1 .. Len(agenda) - 1
      BY <1>1, <2>2
    <3>3. 1 \in 1 .. Len(Tail(agenda))
      BY <3>1, <3>2
    <3>4. Tail(agenda)[1] = agenda[1 + 1]
      BY <3>1, <3>3
    <3>5. Tail(agenda) # <<>>
      <4>. DEFINE t == Tail(agenda)
      <4>1. t \in Seq(Entries) /\ Len(t) = Len(agenda) - 1 /\ Len(agenda) - 1 >= 1
        BY <3>1, <3>2
      <4>. HIDE DEF t
      <4>2. t # <<>>
        BY <3>2, <4>1
      <4>. QED
        BY <4>2 DEF t
    <3>. QED
      BY <2>3, <3>4, <3>5
  <2>5. Now'.op = "rechoose"
    BY <2>2, <2>4 DEF Now
  <2>6. PutsStored(agenda', headers') /\ ChoosesAfter(agenda')
    BY <1>1, <1>2, <1>4, <2>1, InsteadKeeps
  <2>. QED
    BY <1>4, <2>1, <2>4, <2>5, <2>6 DEF MemoKept
<1>. QED
  BY <1>5, <1>6, <1>7, <1>8, <1>9, <1>10, <1>11

(* The choices of a best chain. *)
LEMMA ChoiceSteps ==
  ASSUME TypeOK, MemoKept, DoRechooseAfterApply \/ DoRechoose
  PROVE  MemoKept'
<1>. USE DEF At
<1>1. agenda \in Seq(Entries) /\ agenda # <<>> /\ halted = "no" /\ Now.op # "insert"
  BY DEF TypeOK, DoRechooseAfterApply, DoRechoose
<1>2. <<>> \in Seq(Entries) /\ NoPuts(<<>>) /\ ChoosesAfter(<<>>)
  BY EmptyType, ClosesKeep
<1>3. PutsStored(agenda, headers) /\ ChoosesAfter(agenda) /\ best \subseteq headers
  BY DEF MemoKept
<1>4. headers \subseteq Nodes /\ tip \in Nodes
  BY DEF TypeOK, StoreTypeOK, Nodes
<1>5. ASSUME NEW t \in Nodes, MoveBestTo(t) PROVE MemoKept'
  BY <1>1, <1>5, MoveStep
<1>6. CASE DoRechooseAfterApply
  <2>1. RechooseAfterApply /\ Now.op = "rechooseafter"
    BY <1>6 DEF DoRechooseAfterApply
  <2>2. CASE Instead(<<>>) /\ UNCHANGED <<storeVars, running, memo, halted>>
    <3>1. best' = best /\ best \subseteq headers' /\ memo' = memo
      BY <1>3, <2>2 DEF storeVars
    <3>. QED
      BY <1>1, <1>2, <2>1, <2>2, <3>1, QuietStep
  <2>3. CASE MoveBestTo(tip)
    BY <1>4, <1>5, <2>3
  <2>4. ASSUME NEW t \in Heaviest(AfterApplyCandidates), MoveBestTo(t) PROVE MemoKept'
    <3>1. t \in Nodes
      BY <1>4 DEF Heaviest, AfterApplyCandidates, HeadersHeavierThan
    <3>. QED
      BY <1>5, <2>4, <3>1
  <2>. QED
    BY <2>1, <2>2, <2>3, <2>4 DEF RechooseAfterApply
<1>7. CASE DoRechoose
  <2>1. RechooseBestChain
    BY <1>7 DEF DoRechoose
  <2>2. CASE memo' = NoMemo /\ Instead(<<>>) /\ UNCHANGED <<storeVars, running, halted>>
    <3>1. PutsStored(agenda', headers') /\ ChoosesAfter(agenda')
      BY <1>1, <1>2, <1>3, <2>2, InsteadKeeps
    <3>2. best' \subseteq headers' /\ MemoHolds'
      BY <1>3, <2>2, MemoCleared DEF storeVars
    <3>. QED
      BY <3>1, <3>2 DEF MemoKept
  <2>3. ASSUME NEW t \in headers, MoveBestTo(t) PROVE MemoKept'
    BY <1>4, <1>5, <2>3
  <2>. QED
    BY <2>1, <2>2, <2>3 DEF RechooseBestChain, Heaviest, HeadersHeavierThan
<1>. QED
  BY <1>6, <1>7

(* Staging and applying a block. *)
LEMMA ApplyKeeps ==
  ASSUME TypeOK, MemoKept, halted = "no", agenda # <<>>, Now.op \in {"extend", "inhand"},
         NEW b \in Blocks, NEW op \in {"drain", "rechooseafter"},
         ApplyStagedBlock(b, <<Plain(op)>>)
  PROVE  MemoKept'
<1>. DEFINE front == <<Do("unstage", Self, <<b>>), Plain("prune")>>
            next == <<Plain(op)>>
            s == front \o next
            gone == <<Do("unstage", Self, <<b>>)>>
<1>1. best' = best /\ best \subseteq headers' /\ memo' = memo
  BY DEF ApplyStagedBlock, CommitBlock, storeVars, MemoKept
<1>2. Do("unstage", Self, <<b>>) \in Entries /\ Plain("prune") \in Entries /\ Plain(op) \in Entries
  BY BlockEntry, StateEntry DEF BlockOps, StateOps
<1>3. front \in Seq(Entries) /\ next \in Seq(Entries) /\ gone \in Seq(Entries)
  BY <1>2
<1>4. NoPuts(front) /\ ChoosesAfter(front) /\ NoPuts(gone) /\ ChoosesAfter(gone)
  <2>1. \A i \in 1 .. Len(front) : front[i].op \notin {"put", "remove"}
    BY DEF Plain, Do
  <2>2. \A i \in 1 .. Len(gone) : gone[i].op \notin {"put", "remove"}
    BY DEF Do
  <2>. HIDE DEF front, gone
  <2>. QED
    BY <2>1, <2>2, Harmless
<1>5. NoPuts(next) /\ ChoosesAfter(next)
  BY Harmless DEF Plain, Do
<1>6. MarkRefused(b) \in Seq(Entries) /\ NoPuts(MarkRefused(b)) /\ ChoosesAfter(MarkRefused(b))
  BY MarkRefusedType, ClosesKeep
<1>7. Instead(s) \/ Instead(gone) \/ Instead(MarkRefused(b))
  BY DEF ApplyStagedBlock
<1>. HIDE DEF front, next, gone
<1>8. s \in Seq(Entries) /\ NoPuts(s) /\ ChoosesAfter(s)
  BY <1>3, <1>4, <1>5, StartsBy
<1>. HIDE DEF s
<1>9. Now.op \notin {"insert", "rechoose"}
  OBVIOUS
<1>10. ASSUME NEW u \in Seq(Entries), NoPuts(u), ChoosesAfter(u), Instead(u) PROVE MemoKept'
  BY <1>1, <1>9, <1>10, QuietStep
<1>. QED
  BY <1>3, <1>4, <1>6, <1>7, <1>8, <1>10

(* A delivered block that binds, and those it is followed by. *)
LEMMA BindStep ==
  ASSUME TypeOK, MemoKept, DoBind
  PROVE  MemoKept'
<1>. USE DEF At
<1>. DEFINE b == Subject
            inhand == IF b \in best THEN <<>> ELSE <<Do("inhand", Self, <<b>>)>>
            own == IF Now.by = Self THEN <<Plain("drain"), Plain("pass"), Plain("drain")>> ELSE <<>>
            s == inhand \o own
<1>1. /\ agenda \in Seq(Entries) /\ agenda # <<>> /\ halted = "no"
      /\ Now.op = "bind" /\ Now.op \notin {"insert", "rechoose"}
  BY DEF TypeOK, DoBind
<1>2. b \in Blocks
  BY <1>1, NowType DEF BlockOps
<1>3. best' = best /\ best \subseteq headers' /\ memo' = memo
  BY DEF DoBind, StageBlock, storeVars, MemoKept
<1>4. Instead(s) \/ Instead(<<>>)
  BY DEF DoBind
<1>. HIDE DEF b
<1>5. inhand \in Seq(Entries) /\ NoPuts(inhand) /\ ChoosesAfter(inhand)
  <2>1. Do("inhand", Self, <<b>>) \in Entries
    BY <1>2, BlockEntry DEF BlockOps
  <2>2. \A i \in 1 .. Len(inhand) : inhand[i].op \notin {"put", "remove"}
    BY DEF Do
  <2>3. inhand \in Seq(Entries)
    BY <2>1
  <2>. HIDE DEF inhand
  <2>. QED
    BY <2>2, <2>3, Harmless
<1>6. own \in Seq(Entries) /\ NoPuts(own) /\ ChoosesAfter(own)
  <2>1. Plain("drain") \in Entries /\ Plain("pass") \in Entries
    BY StateEntry DEF StateOps
  <2>2. \A i \in 1 .. Len(own) : own[i].op \notin {"put", "remove"}
    BY DEF Plain, Do
  <2>3. own \in Seq(Entries)
    BY <2>1
  <2>. HIDE DEF own
  <2>. QED
    BY <2>2, <2>3, Harmless
<1>. HIDE DEF inhand, own
<1>7. s \in Seq(Entries) /\ NoPuts(s) /\ ChoosesAfter(s)
  BY <1>5, <1>6, StartsBy
<1>. HIDE DEF s
<1>8. <<>> \in Seq(Entries) /\ NoPuts(<<>>) /\ ChoosesAfter(<<>>)
  BY EmptyType, ClosesKeep
<1>9. ASSUME NEW u \in Seq(Entries), NoPuts(u), ChoosesAfter(u), Instead(u) PROVE MemoKept'
  BY <1>1, <1>3, <1>9, QuietStep
<1>. QED
  BY <1>4, <1>7, <1>8, <1>9

(* Applying, draining and switching leave the index alone. *)
LEMMA ApplySteps ==
  ASSUME TypeOK, MemoKept, DoExtend \/ DoInHand \/ DoDrain \/ DoSwitch
  PROVE  MemoKept'
<1>. USE DEF At
<1>1. agenda \in Seq(Entries) /\ agenda # <<>> /\ halted = "no"
  BY DEF TypeOK, DoExtend, DoInHand, DoDrain, DoSwitch
<1>2. <<>> \in Seq(Entries) /\ NoPuts(<<>>) /\ ChoosesAfter(<<>>)
  BY EmptyType, ClosesKeep
<1>3. best \subseteq headers /\ best \subseteq Blocks
  BY DEF MemoKept, TypeOK, StoreTypeOK
<1>4. ASSUME NEW op \in BlockOps \ {"remove"}, NEW b \in Blocks
      PROVE  LET s == <<Do(op, Self, <<b>>)>> IN s \in Seq(Entries) /\ NoPuts(s) /\ ChoosesAfter(s)
  <2>1. Do(op, Self, <<b>>) \in Entries
    BY BlockEntry
  <2>. DEFINE s == <<Do(op, Self, <<b>>)>>
  <2>2. \A i \in 1 .. Len(s) : s[i].op \notin {"put", "remove"}
    BY DEF Do, BlockOps
  <2>3. s \in Seq(Entries)
    BY <2>1
  <2>. HIDE DEF s
  <2>4. NoPuts(s) /\ ChoosesAfter(s)
    BY <2>2, Harmless
  <2>. QED
    BY <2>3, <2>4 DEF s
<1>5. CASE DoExtend \/ DoInHand
  <2>1. Subject \in Blocks
    BY <1>1, <1>5, NowType DEF DoExtend, DoInHand, BlockOps
  <2>. DEFINE b == Subject
  <2>2. /\ Now.op \in {"extend", "inhand"}
        /\ \E op \in {"drain", "rechooseafter"} : ApplyStagedBlock(b, <<Plain(op)>>)
    BY <1>5 DEF DoExtend, DoInHand
  <2>3. b \in Blocks
    BY <2>1
  <2>. HIDE DEF b
  <2>. QED
    BY <1>1, <2>2, <2>3, ApplyKeeps
<1>6. CASE DoDrain
  <2>1. best' = best /\ best \subseteq headers' /\ memo' = memo /\ Now.op = "drain"
    BY <1>3, <1>6 DEF DoDrain, storeVars
  <2>2. CASE Instead(<<>>)
    BY <1>1, <1>2, <2>1, <2>2, QuietStep
  <2>3. ASSUME NEW b \in NextToExtend, Instead(<<Do("extend", Self, <<b>>)>>) PROVE MemoKept'
    <3>. DEFINE s == <<Do("extend", Self, <<b>>)>>
    <3>1. b \in Blocks
      BY <1>3 DEF NextToExtend
    <3>2. s \in Seq(Entries) /\ NoPuts(s) /\ ChoosesAfter(s) /\ Instead(s)
      BY <1>4, <2>3, <3>1 DEF BlockOps
    <3>. HIDE DEF s
    <3>. QED
      BY <1>1, <2>1, <3>2, QuietStep
  <2>. QED
    BY <1>6, <2>2, <2>3 DEF DoDrain
<1>7. CASE DoSwitch
  <2>1. TrySwitch /\ Now.op = "switch" /\ memo' = memo
    BY <1>7 DEF DoSwitch
  <2>2. best' = best /\ headers' = headers
    BY <2>1 DEF TrySwitch, Reorg, CommitReorg, storeVars
  <2>3. ASSUME NEW u \in Seq(Entries), NoPuts(u), ChoosesAfter(u), Instead(u) PROVE MemoKept'
    BY <1>1, <1>3, <2>1, <2>2, <2>3, QuietStep
  <2>4. CASE Instead(<<>>)
    BY <1>2, <2>3, <2>4
  <2>5. ASSUME NEW error, Halt(error), error # "no" PROVE MemoKept'
    <3>1. agenda' = <<>> /\ halted' # "no"
      BY <2>5 DEF Halt
    <3>. QED
      BY <1>2, <1>3, <2>2, <3>1, NoPutsStored DEF MemoKept
  <2>6. CASE Reorg
    <3>1. Prefix \subseteq Blocks
      BY <1>3 DEF Prefix
    <3>2. CASE Instead(<<Plain("drain")>>)
      <4>. DEFINE s == <<Plain("drain")>>
      <4>1. s \in Seq(Entries)
        BY StateEntry, OneType DEF StateOps
      <4>2. NoPuts(s) /\ ChoosesAfter(s)
        BY Harmless DEF Plain, Do
      <4>3. Instead(s)
        BY <3>2
      <4>. HIDE DEF s
      <4>. QED
        BY <2>3, <4>1, <4>2, <4>3
    <3>3. ASSUME NEW b \in Blocks, Instead(MarkRefused(b)) PROVE MemoKept'
      BY <2>3, <3>3, MarkRefusedType, ClosesKeep
    <3>4. ASSUME NEW b \in Blocks, Instead(<<Do("unstage", Self, <<b>>)>>) PROVE MemoKept'
      <4>. DEFINE s == <<Do("unstage", Self, <<b>>)>>
      <4>1. s \in Seq(Entries) /\ NoPuts(s) /\ ChoosesAfter(s) /\ Instead(s)
        BY <1>4, <3>4 DEF BlockOps
      <4>. HIDE DEF s
      <4>. QED
        BY <2>3, <4>1
    <3>. QED
      BY <2>6, <3>1, <3>2, <3>3, <3>4 DEF Reorg, ReorgReaches
  <2>7. "no" \notin SwitchErrors
    BY DEF SwitchErrors
  <2>. QED
    BY <2>1, <2>4, <2>5, <2>6, <2>7 DEF TrySwitch
<1>. QED
  BY <1>5, <1>6, <1>7

(* The pending pass. *)
LEMMA PassStep ==
  ASSUME TypeOK, MemoKept, DoPass
  PROVE  MemoKept'
<1>. USE DEF At
<1>1. /\ agenda \in Seq(Entries) /\ agenda # <<>> /\ halted = "no" /\ Now.op = "pass"
      /\ UNCHANGED <<storeVars, memo, halted>>
  BY DEF TypeOK, DoPass
<1>2. best' = best /\ best \subseteq headers' /\ headers' = headers /\ memo' = memo
  BY <1>1 DEF MemoKept, storeVars
<1>3. CASE Instead(<<>>)
  BY <1>1, <1>2, <1>3, EmptyType, ClosesKeep, QuietStep
<1>4. ASSUME NEW p \in PassCandidates,
             GossipedBody(p, pending[p], [pending EXCEPT ![p] = None], agenda)
      PROVE  MemoKept'
  <2>. DEFINE b == pending[p]
              inHand == CanExtendAppliedTip(b)
  <2>1. p \in Peers /\ b \in Blocks
    BY DEF PassCandidates, TypeOK
  <2>2. \/ agenda' = agenda
        \/ agenda' = Bind(p, b) \o agenda
        \/ agenda' = StoreHeader(b, inHand) \o Bind(p, b) \o agenda
    BY <1>4 DEF GossipedBody
  <2>3. NoPuts(agenda) /\ ChoosesAfter(agenda)
    <3>1. \A i \in 1 .. Len(agenda) : i = 1 \/ 1 \in 1 .. i - 1
      BY <1>1
    <3>2. agenda[1].op = "pass"
      BY <1>1 DEF Now
    <3>. QED
      BY <3>1, <3>2 DEF MemoKept, PutsStored, NoPuts
  <2>. HIDE DEF b, inHand
  <2>4. Starts(agenda')
    BY <1>1, <2>1, <2>2, <2>3, GossipStarts
  <2>5. MemoHolds'
    BY <1>1, <1>2, MemoStays DEF MemoKept
  <2>. QED
    BY <1>2, <2>4, <2>5 DEF MemoKept, Starts
<1>. QED
  BY <1>3, <1>4 DEF DoPass

(* Every step of an item. *)
LEMMA StepKeeps ==
  ASSUME TypeOK, MemoKept, Step
  PROVE  MemoKept'
BY CommitSteps, ChoiceSteps, BindStep, ApplySteps, PassStep DEF Step

(* Every item, a crash and a restart. *)
LEMMA ItemKeeps ==
  ASSUME TypeOK, MemoKept
  PROVE  /\ \A p \in Peers : Deliver(p) => MemoKept'
         /\ \A b \in Blocks : DeliverMinedBlock(b) => MemoKept'
         /\ GateHeld \/ Crash \/ Restart => MemoKept'
<1>1. Close \in Seq(Entries) /\ NoPuts(Close) /\ ChoosesAfter(Close)
  BY CloseType, ClosesKeep
<1>2. <<>> \in Seq(Entries) /\ NoPuts(<<>>) /\ ChoosesAfter(<<>>)
  BY EmptyType, ClosesKeep
<1>3. ASSUME NEW p \in Peers, NEW input \in PageInputs, DeliverHeaders(p, input[1], input[2])
      PROVE  MemoKept'
  <2>. DEFINE claim == input[1]
              page == input[2]
  <2>1. /\ claim \in Blocks \cup {NoClaim} /\ page \in Seq(Blocks)
        /\ Idle /\ AdmitPage(p, claim, page, Close)
    BY <1>3, InputAssumption DEF DeliverHeaders
  <2>. HIDE DEF claim, page
  <2>. QED
    BY <2>1, AdmitKeeps
<1>4. ASSUME NEW p \in Peers, NEW blocks \in AnswerInputs, DeliverBlocks(p, blocks)
      PROVE  MemoKept'
  <2>. DEFINE binds == [i \in 1 .. Len(blocks) |-> Do("bind", p, <<blocks[i]>>)]
  <2>1. blocks \in Seq(Blocks)
    BY InputAssumption
  <2>2. \A i \in 1 .. Len(blocks) : Do("bind", p, <<blocks[i]>>) \in Entries
    <3>1. TAKE i \in 1 .. Len(blocks)
    <3>2. blocks[i] \in Blocks
      BY <2>1
    <3>. QED
      BY <3>2, BlockEntry DEF BlockOps
  <2>3. binds \in Seq(Entries)
    BY <2>1, <2>2
  <2>4. NoPuts(binds) /\ ChoosesAfter(binds)
    <3>1. \A i \in 1 .. Len(binds) : binds[i].op \notin {"put", "remove"}
      BY <2>1 DEF Do
    <3>. HIDE DEF binds
    <3>. QED
      BY <3>1, Harmless
  <2>5. Idle /\ agenda' = binds \o Close /\ UNCHANGED <<storeVars, memo, halted>>
    BY <1>4 DEF DeliverBlocks
  <2>. HIDE DEF binds
  <2>6. Starts(agenda')
    BY <1>1, <2>3, <2>4, <2>5, StartsBy
  <2>. QED
    BY <2>5, <2>6, StartKeeps
<1>5. ASSUME NEW p \in Peers, NEW b \in GossipInputs, DeliverGossipedBlock(p, b)
      PROVE  MemoKept'
  <2>. DEFINE inHand == CanExtendAppliedTip(b)
  <2>1. b \in Blocks /\ Idle /\ UNCHANGED <<storeVars, memo, halted>>
    BY <1>5, InputAssumption DEF DeliverGossipedBlock
  <2>2. \/ agenda' = Close
        \/ agenda' = Bind(p, b) \o Close
        \/ agenda' = StoreHeader(b, inHand) \o Bind(p, b) \o Close
    BY <1>5 DEF DeliverGossipedBlock, GossipedBody
  <2>. HIDE DEF inHand
  <2>3. Starts(agenda')
    BY <1>1, <2>1, <2>2, GossipStarts
  <2>. QED
    BY <2>1, <2>3, StartKeeps
<1>6. ASSUME NEW p \in Peers, PeerDisconnected(p) PROVE MemoKept'
  <2>1. Idle /\ agenda' = agenda /\ UNCHANGED <<storeVars, halted>>
    BY <1>6 DEF PeerDisconnected
  <2>2. Starts(agenda')
    BY <2>1 DEF MemoKept, Starts
  <2>3. \A q \in Peers : memo'[q] \in {memo[q], None}
    BY <1>6 DEF PeerDisconnected, TypeOK
  <2>. QED
    BY <2>1, <2>2, <2>3, StartKeeps
<1>7. ASSUME NEW b \in Blocks, DeliverMinedBlock(b) PROVE MemoKept'
  <2>. DEFINE inHand == CanExtendAppliedTip(b)
  <2>1. Idle /\ UNCHANGED <<storeVars, memo, halted>>
    BY <1>7 DEF DeliverMinedBlock
  <2>2. agenda' = Bind(Self, b) \/ agenda' = StoreHeader(b, inHand) \o Bind(Self, b)
    BY <1>7 DEF DeliverMinedBlock
  <2>. HIDE DEF inHand
  <2>3. Starts(agenda')
    BY <1>1, <2>2, GossipStarts
  <2>. QED
    BY <2>1, <2>3, StartKeeps
<1>8. ASSUME GateHeld PROVE MemoKept'
  <2>1. Idle /\ UNCHANGED <<storeVars, memo, halted>> /\ (agenda' = Close \/ agenda' = <<>>)
    BY <1>8 DEF GateHeld
  <2>2. Starts(agenda')
    BY <1>1, <1>2, <2>1, NoPutsStored DEF Starts
  <2>. QED
    BY <2>1, <2>2, StartKeeps
<1>9. ASSUME Crash \/ Restart PROVE MemoKept'
  <2>1. memo' = NoMemo /\ agenda' = <<>> /\ headers' = headers /\ best' = best
    BY <1>9 DEF Crash, Restart, LoseMemory, storeVars
  <2>2. MemoHolds'
    BY <2>1, MemoCleared
  <2>. QED
    BY <1>2, <2>1, <2>2, NoPutsStored DEF MemoKept
<1>. QED
  BY <1>3, <1>4, <1>5, <1>6, <1>7, <1>8, <1>9 DEF Deliver

(* The invariant behind MemoSound, at every commit. *)
LEMMA MemoIsKept == Spec => []MemoKept
<1>1. Init => MemoKept
  <2>. SUFFICES ASSUME Init PROVE MemoKept
    OBVIOUS
  <2>1. best = {} /\ agenda = <<>> /\ memo = NoMemo
    BY DEF Init, StoreInit
  <2>. QED
    BY <2>1, ClosesKeep, NoPutsStored DEF MemoKept, MemoHolds, NoMemo
<1>2. TypeOK /\ MemoKept /\ [Next]_vars => MemoKept'
  <2>. SUFFICES ASSUME TypeOK, MemoKept, [Next]_vars PROVE MemoKept'
    OBVIOUS
  <2>1. CASE Step
    BY <2>1, StepKeeps
  <2>2. CASE UNCHANGED vars
    <3>1. UNCHANGED <<headers, best, memo, agenda, halted>>
      BY <2>2 DEF vars, storeVars, pipelineVars
    <3>2. BestTip' = BestTip
      BY <3>1 DEF BestTip
    <3>. QED
      BY <3>1, <3>2 DEF MemoKept, MemoHolds, Now
  <2>3. ASSUME NEW b \in MinedInputs, DeliverMinedBlock(b) PROVE MemoKept'
    BY <2>3, ItemKeeps, InputAssumption
  <2>. QED
    BY <2>1, <2>2, <2>3, ItemKeeps DEF Next
<1>. QED
  BY <1>1, <1>2, TypeCorrect, PTL DEF Spec

(* No peer's claim in the memo is heavier than the best tip, between items: *)
(* every move of the best chain clears the memo, a mark that lowers the tip *)
(* is followed by a choice that clears it, and a claim scored lighter is at *)
(* most as heavy as the page's last header because a page is linked.        *)
THEOREM MemoHold == Spec => []MemoSound
<1>1. MemoKept => MemoSound
  BY DEF MemoKept, MemoSound, MemoHolds, Idle
<1>. QED
  BY <1>1, MemoIsKept, PTL

-----------------------------------------------------------------------------
(* Paths of the block tree. *)

(* The place of a node on a path is its height, and what is below it is its *)
(* own path.                                                                *)
LEMMA PathOf ==
  ASSUME NEW x \in Nodes, NEW c \in Path(x)
  PROVE  /\ c \in Blocks /\ c \in Nodes
         /\ Height(c) \in 1 .. Height(x) /\ c = Chain[x][Height(c)]
         /\ \A h \in 1 .. Height(c) : Chain[c][h] = Chain[x][h]
         /\ Path(c) \subseteq Path(x)
         /\ Height(x) \in Nat
<1>1. PICK k \in 1 .. Height(x) : c = Chain[x][k]
  BY DEF Path
<1>2. c \in Blocks /\ Height(c) = k /\ x # Root /\ Height(x) \in Nat /\ c \in Nodes
  BY <1>1, TreeTypes, HeightOnPath DEF Nodes
<1>3. Chain[c] = SubSeq(Chain[x], 1, k)
  BY <1>1, <1>2, ChainAssumption DEF Height, Nodes
<1>4. \A h \in 1 .. k : Chain[c][h] = Chain[x][h]
  <2>1. Chain[x] \in Seq(Blocks) /\ k \in 1 .. Len(Chain[x])
    BY <1>1, ChainAssumption DEF Height
  <2>. QED
    BY <1>3, <2>1
<1>5. Path(c) \subseteq Path(x)
  BY <1>1, <1>2, <1>4 DEF Path
<1>. QED
  BY <1>1, <1>2, <1>4, <1>5

(* A block ends its own path, which is its parent's and the block. *)
LEMMA PathEnd ==
  ASSUME NEW b \in Blocks
  PROVE  /\ b \in Path(b) /\ b \in Nodes /\ Height(b) \in Nat \ {0}
         /\ Path(b) = Path(Parent(b)) \cup {b}
         /\ Height(b) = Height(Parent(b)) + 1 /\ Parent(b) \in Nodes
         /\ Parent(b) # Root => Parent(b) \in Path(b)
<1>1. b \in Nodes /\ Height(b) \in Nat \ {0} /\ Parent(b) \in Nodes
  BY TreeTypes DEF Nodes
<1>2. b = Chain[b][Height(b)]
  BY ChainAssumption DEF Height
<1>3. b \in Path(b)
  BY <1>1, <1>2 DEF Path
<1>4. Height(b) = Height(Parent(b)) + 1
  BY HeightOfParent
<1>5. CASE Height(b) = 1
  <2>1. Parent(b) = Root /\ Path(Root) = {}
    BY <1>5, TreeTypes DEF Parent, Path
  <2>2. Path(b) = {b}
    BY <1>2, <1>5 DEF Path
  <2>. QED
    BY <1>1, <1>3, <1>4, <2>1, <2>2
<1>6. CASE Height(b) # 1
  <2>1. Height(b) - 1 \in 1 .. Height(b) /\ Parent(b) = Chain[b][Height(b) - 1]
    BY <1>1, <1>6 DEF Parent
  <2>2. Parent(b) \in Path(b)
    BY <2>1 DEF Path
  <2>3. /\ Height(Parent(b)) = Height(b) - 1
        /\ \A h \in 1 .. Height(b) - 1 : Chain[Parent(b)][h] = Chain[b][h]
    BY <1>1, <1>4, <2>2, PathOf
  <2>4. 1 .. Height(b) = (1 .. Height(b) - 1) \cup {Height(b)}
    BY <1>1
  <2>5. Path(b) = {Chain[b][h] : h \in 1 .. Height(b) - 1} \cup {b}
    BY <1>2, <2>4 DEF Path
  <2>6. Path(Parent(b)) = {Chain[b][h] : h \in 1 .. Height(b) - 1}
    BY <2>3 DEF Path
  <2>. QED
    BY <1>1, <1>3, <1>4, <2>2, <2>5, <2>6
<1>. QED
  BY <1>5, <1>6

(* The root has no path; another node has one block at each of its heights. *)
LEMMA PathAt ==
  ASSUME NEW x \in Nodes
  PROVE  /\ \A h \in 1 .. Height(x) :
              Chain[x][h] \in Path(x) /\ Height(Chain[x][h]) = h /\ Chain[x][h] \in Blocks
         /\ Path(Root) = {} /\ Height(Root) = 0 /\ Root \in Nodes
         /\ x # Root => x \in Path(x) /\ x \in Blocks /\ Height(x) \in Nat \ {0}
         /\ Height(x) \in Nat
<1>1. \A h \in 1 .. Height(x) : Chain[x][h] \in Path(x)
  BY DEF Path
<1>2. Path(Root) = {}
  BY TreeTypes DEF Path
<1>. QED
  BY <1>1, <1>2, HeightOnPath, TreeTypes, PathEnd DEF Nodes

(* Of two nodes of a path the lower is on the path of the higher. *)
LEMMA PathOne ==
  ASSUME NEW x \in Nodes, NEW c \in Path(x), NEW d \in Path(x), Height(c) <= Height(d)
  PROVE  c \in Path(d) /\ (Height(c) = Height(d) => c = d)
<1>1. /\ Height(c) \in 1 .. Height(d) /\ c = Chain[x][Height(c)] /\ d = Chain[x][Height(d)]
      /\ Chain[d][Height(c)] = Chain[x][Height(c)]
  BY PathOf
<1>2. c \in Path(d)
  BY <1>1 DEF Path
<1>. QED
  BY <1>1, <1>2

(* A node is heavier than those below it. *)
LEMMA PathHeavier ==
  ASSUME NEW x \in Nodes, NEW c \in Path(x)
  PROVE  /\ Work[c] \in Nat /\ Work[x] \in Nat /\ Work[c] <= Work[x]
         /\ c # x => Work[c] < Work[x] /\ Height(c) < Height(x)
<1>1. c \in Nodes /\ Height(c) \in 1 .. Height(x) /\ c = Chain[x][Height(c)] /\ Height(x) \in Nat
  BY PathOf
<1>2. Work[c] \in Nat /\ Work[x] \in Nat
  BY <1>1, WorkAssumption
<1>3. x \in Blocks
  BY <1>1, TreeTypes DEF Nodes
<1>4. x = Chain[x][Height(x)]
  BY <1>3, ChainAssumption DEF Height
<1>5. c # x => Height(c) \in 1 .. Height(x) - 1
  BY <1>1, <1>4
<1>6. \A h \in 1 .. Height(x) - 1 : Work[Chain[x][h]] < Work[x]
  BY <1>3, WorkAssumption DEF Height
<1>7. c # x => Work[c] < Work[x]
  BY <1>1, <1>5, <1>6
<1>. QED
  BY <1>1, <1>2, <1>5, <1>7

\* The best tip is the end of the chain the index holds.
TipEndsIndex ==
  best \subseteq headers => \A x \in Nodes : best = Path(x) => BestTip = x

(* An index that is one chain of rows names its end as the best tip. *)
LEMMA TipEnds == TipEndsIndex
<1>. SUFFICES ASSUME best \subseteq headers, NEW x \in Nodes, best = Path(x)
              PROVE  BestTip = x
  BY DEF TipEndsIndex
<1>. DEFINE top == {b \in best : \A c \in best : Height(c) <= Height(b)}
<1>1. BestTip = IF top \cap headers = {} THEN Root ELSE CHOOSE b \in top \cap headers : TRUE
  BY DEF BestTip
<1>2. CASE x = Root
  <2>1. top = {}
    BY <1>2, PathAt
  <2>. QED
    BY <1>1, <1>2, <2>1
<1>3. CASE x # Root
  <2>1. x \in best /\ \A c \in best : Height(c) <= Height(x) /\ Height(c) \in Nat /\ Height(x) \in Nat
    BY <1>3, PathAt, PathOf
  <2>2. ASSUME NEW b \in top PROVE b = x
    <3>1. Height(b) = Height(x)
      BY <2>1
    <3>. QED
      BY <2>1, <3>1, PathOne
  <2>3. top \cap headers = {x}
    BY <2>1, <2>2
  <2>. HIDE DEF top
  <2>. QED
    BY <1>1, <2>3
<1>. QED
  BY <1>2, <1>3

(* So it does after a step. *)
LEMMA TipEndsNext == TipEndsIndex'
BY TipEnds, PTL

(* Where the path to a node meets the index, and where the applied chain. *)
LEMMA MeetsAt ==
  ASSUME NEW x \in Nodes
  PROVE  /\ MeetsBest(x) \in 0 .. Height(x) /\ MeetsApplied(x) \in 0 .. Height(x)
         /\ MeetsBest(x) # 0 => Chain[x][MeetsBest(x)] \in best
         /\ MeetsApplied(x) # 0 => Chain[x][MeetsApplied(x)] \in Path(tip)
         /\ \A h \in 1 .. Height(x) : Chain[x][h] \in best => h <= MeetsBest(x)
<1>. DEFINE onBest == {0} \cup {h \in 1 .. Height(x) : Chain[x][h] \in best}
            onApplied == {0} \cup {h \in 1 .. Height(x) : IsApplied(Chain[x][h])}
<1>1. Height(x) \in Nat
  BY TreeTypes
<1>2. /\ onBest \subseteq 0 .. Height(x) /\ 0 \in onBest
      /\ onApplied \subseteq 0 .. Height(x) /\ 0 \in onApplied
  BY <1>1
<1>3. MeetsBest(x) \in onBest /\ \A h \in onBest : h <= MeetsBest(x)
  <2>. HIDE DEF onBest, onApplied
  <2>1. onBest \subseteq Nat /\ onBest # {} /\ \A y \in onBest : y <= Height(x)
    BY <1>1, <1>2
  <2>. QED
    BY <1>1, <2>1, MaxOfNaturals DEF MeetsBest, onBest
<1>4. MeetsApplied(x) \in onApplied
  <2>. HIDE DEF onBest, onApplied
  <2>1. onApplied \subseteq Nat /\ onApplied # {} /\ \A y \in onApplied : y <= Height(x)
    BY <1>1, <1>2
  <2>. QED
    BY <1>1, <2>1, MaxOfNaturals DEF MeetsApplied, onApplied
<1>. QED
  BY <1>2, <1>3, <1>4 DEF IsApplied

-----------------------------------------------------------------------------
(* The index as one chain.  A page stored behind its branch's switch is put *)
(* on the index whatever the best chain has become since; every other put   *)
(* is of one header, the child of the best tip it was decided on.           *)

\* No page of a branch arrives after the branch was switched to.
NoLatePages ==
  \A p \in Peers : running[p] # None /\ running[p].mode = "storing" => ~running[p].switched

\* Every put of the agenda a is of one child of x.
PutsOn(a, x) ==
  \A i \in 1 .. Len(a) : a[i].op = "put" => Len(a[i].bs) = 1 /\ Parent(a[i].bs[1]) = x

\* The index is the path to the best tip, and what will be put continues it.
OneChain == best = Path(BestTip) /\ PutsOn(agenda, BestTip)

(* Puts on x, one agenda after the other. *)
LEMMA PutsTogether ==
  ASSUME NEW s \in Seq(Entries), NEW t \in Seq(Entries), NEW x, PutsOn(s, x), PutsOn(t, x)
  PROVE  PutsOn(s \o t, x)
<1>. DEFINE u == s \o t
<1>1. /\ Len(u) = Len(s) + Len(t)
      /\ \A i \in 1 .. Len(s) : u[i] = s[i]
      /\ \A i \in 1 .. Len(s) + Len(t) :
           i \in 1 .. Len(s) \/ (i - Len(s) \in 1 .. Len(t) /\ u[i] = t[i - Len(s)])
  BY ConcatParts
<1>. HIDE DEF u
<1>2. PutsOn(u, x)
  <2>. SUFFICES ASSUME NEW i \in 1 .. Len(u), u[i].op = "put"
                PROVE  Len(u[i].bs) = 1 /\ Parent(u[i].bs[1]) = x
    BY DEF PutsOn
  <2>1. CASE i \in 1 .. Len(s)
    BY <1>1, <2>1 DEF PutsOn
  <2>2. CASE i \notin 1 .. Len(s)
    <3>1. i - Len(s) \in 1 .. Len(t) /\ u[i] = t[i - Len(s)]
      BY <1>1, <2>2
    <3>. QED
      BY <3>1 DEF PutsOn
  <2>. QED
    BY <2>1, <2>2
<1>. QED
  BY <1>2 DEF u

(* An agenda without puts puts on any node, and so does the rest of one. *)
LEMMA PutsOfTail ==
  ASSUME NEW x
  PROVE  /\ \A s : NoPuts(s) => PutsOn(s, x)
         /\ \A s \in Seq(Entries) : s # <<>> /\ PutsOn(s, x) => PutsOn(Tail(s), x)
<1>1. \A s : NoPuts(s) => PutsOn(s, x)
  BY DEF NoPuts, PutsOn
<1>2. ASSUME NEW s \in Seq(Entries), s # <<>>, PutsOn(s, x) PROVE PutsOn(Tail(s), x)
  <2>. DEFINE t == Tail(s)
  <2>1. Len(t) = Len(s) - 1 /\ Len(s) \in Nat \ {0} /\ \A i \in 1 .. Len(t) : t[i] = s[i + 1]
    BY <1>2, HeadTailProperties
  <2>. HIDE DEF t
  <2>2. PutsOn(t, x)
    BY <1>2, <2>1 DEF PutsOn
  <2>. QED
    BY <2>2 DEF t
<1>. QED
  BY <1>1, <1>2

(* An agenda of given entries puts nothing. *)
LEMMA FrontsPutNothing ==
  ASSUME NEW b \in Blocks, NEW op \in BlockOps, NEW nxt \in StateOps
  PROVE  /\ <<Do(op, Self, <<b>>)>> \in Seq(Entries) /\ NoPuts(<<Do(op, Self, <<b>>)>>)
         /\ <<Plain(nxt)>> \in Seq(Entries) /\ NoPuts(<<Plain(nxt)>>)
         /\ LET s == <<Do(op, Self, <<b>>), Plain("prune")>> \o <<Plain(nxt)>>
            IN  s \in Seq(Entries) /\ NoPuts(s)
<1>1. Do(op, Self, <<b>>) \in Entries /\ Plain("prune") \in Entries /\ Plain(nxt) \in Entries
  BY BlockEntry, StateEntry DEF StateOps
<1>2. /\ Do(op, Self, <<b>>).op # "put" /\ Plain("prune").op # "put" /\ Plain(nxt).op # "put"
  BY DEF Do, Plain, BlockOps, StateOps
<1>. DEFINE e == Do(op, Self, <<b>>)
            n == Plain(nxt)
            pr == Plain("prune")
            s == <<e, pr>> \o <<n>>
<1>. HIDE DEF e, n, pr
<1>3. e \in Entries /\ n \in Entries /\ pr \in Entries /\ e.op # "put" /\ n.op # "put" /\ pr.op # "put"
  BY <1>1, <1>2 DEF e, n, pr
<1>4. s \in Seq(Entries) /\ Len(s) = 3 /\ s[1] = e /\ s[2] = pr /\ s[3] = n
  BY <1>3
<1>. HIDE DEF s
<1>5. NoPuts(s)
  <2>1. \A i \in 1 .. 3 : i = 1 \/ i = 2 \/ i = 3
    OBVIOUS
  <2>. QED
    BY <1>3, <1>4, <2>1 DEF NoPuts
<1>6. <<e>> \in Seq(Entries) /\ NoPuts(<<e>>) /\ <<n>> \in Seq(Entries) /\ NoPuts(<<n>>)
  BY <1>3 DEF NoPuts
<1>. QED
  BY <1>4, <1>5, <1>6 DEF e, n, pr, s

(* What a step of an item but the pending pass leaves on the agenda: new    *)
(* entries that put nothing, in place of the first, or none at all.         *)
LEMMA StepReplaces ==
  ASSUME TypeOK, Step, ~DoPass
  PROVE  agenda' = <<>> \/ \E s \in Seq(Entries) : NoPuts(s) /\ Instead(s)
<1>. DEFINE Quiet == \E s \in Seq(Entries) : NoPuts(s) /\ Instead(s)
<1>1. agenda # <<>> /\ agenda \in Seq(Entries)
  BY DEF Step, At, DoInsert, DoPut, DoMove, DoUnstage, DoPrune, DoRechooseAfterApply,
       DoMark, DoRemove, DoRechoose, DoBind, DoExtend, DoInHand, DoDrain, DoSwitch, DoPass,
       TypeOK
<1>2. Now.op \in BlockOps => Subject \in Blocks
  BY <1>1, NowType
<1>3. Instead(<<>>) => Quiet
  BY EmptyType, ClosesKeep
<1>4. \A b \in Blocks : Instead(MarkRefused(b)) => Quiet
  BY MarkRefusedType, ClosesKeep
<1>5. \A b \in Blocks, op \in BlockOps : Instead(<<Do(op, Self, <<b>>)>>) => Quiet
  <2>1. TAKE b \in Blocks, op \in BlockOps
  <2>2. <<Do(op, Self, <<b>>)>> \in Seq(Entries) /\ NoPuts(<<Do(op, Self, <<b>>)>>)
    BY FrontsPutNothing DEF StateOps
  <2>. QED
    BY <2>2
<1>. HIDE DEF Quiet
<1>6. CASE DoInsert \/ DoPut \/ DoMove \/ DoUnstage \/ DoPrune \/ DoMark \/ DoRemove
  BY <1>3, <1>6 DEF DoInsert, DoPut, PutOnBest, DoMove, MoveBestTo, Halt, DoUnstage, DoPrune,
                    PruneHeaderTree, DoMark, DoRemove, Quiet
<1>7. CASE DoRechooseAfterApply \/ DoRechoose
  <2>1. Instead(<<>>) \/ \E t : MoveBestTo(t)
    BY <1>7 DEF DoRechooseAfterApply, DoRechoose, RechooseAfterApply, RechooseBestChain
  <2>. QED
    BY <1>3, <2>1 DEF MoveBestTo, Halt, Quiet
<1>8. CASE DoBind
  <2>. DEFINE b == Subject
              inhand == IF b \in best THEN <<>> ELSE <<Do("inhand", Self, <<b>>)>>
              own == IF Now.by = Self THEN <<Plain("drain"), Plain("pass"), Plain("drain")>>
                     ELSE <<>>
  <2>1. b \in Blocks
    BY <1>2, <1>8 DEF DoBind, At, BlockOps
  <2>2. Instead(<<>>) \/ Instead(inhand \o own)
    BY <1>8 DEF DoBind
  <2>. HIDE DEF b
  <2>3. inhand \in Seq(Entries) /\ NoPuts(inhand)
    BY <2>1, EmptyType, ClosesKeep, FrontsPutNothing DEF BlockOps, StateOps
  <2>4. own \in Seq(Entries) /\ NoPuts(own)
    <3>1. Plain("drain") \in Entries /\ Plain("pass") \in Entries
      BY StateEntry DEF StateOps
    <3>2. own \in Seq(Entries)
      BY <3>1
    <3>3. NoPuts(own)
      BY DEF NoPuts, Plain, Do
    <3>. QED
      BY <3>2, <3>3
  <2>. HIDE DEF inhand, own
  <2>5. inhand \o own \in Seq(Entries) /\ NoPuts(inhand \o own)
    BY <2>3, <2>4, Together, ConcatType
  <2>. QED
    BY <1>3, <2>2, <2>5 DEF Quiet
<1>9. CASE DoExtend \/ DoInHand
  <2>1. Subject \in Blocks
    BY <1>2, <1>9 DEF DoExtend, DoInHand, At, BlockOps
  <2>2. PICK op \in {"drain", "rechooseafter"} : ApplyStagedBlock(Subject, <<Plain(op)>>)
    BY <1>9 DEF DoExtend, DoInHand
  <2>. DEFINE s == <<Do("unstage", Self, <<Subject>>), Plain("prune")>> \o <<Plain(op)>>
  <2>3. Instead(s) \/ Instead(MarkRefused(Subject)) \/ Instead(<<Do("unstage", Self, <<Subject>>)>>)
    BY <2>2 DEF ApplyStagedBlock
  <2>4. s \in Seq(Entries) /\ NoPuts(s)
    BY <2>1, FrontsPutNothing DEF BlockOps, StateOps
  <2>. HIDE DEF s
  <2>5. "unstage" \in BlockOps
    BY DEF BlockOps
  <2>. QED
    BY <1>4, <1>5, <2>1, <2>3, <2>4, <2>5 DEF Quiet
<1>10. CASE DoDrain
  <2>1. NextToExtend \subseteq Blocks /\ "extend" \in BlockOps
    BY DEF NextToExtend, TypeOK, StoreTypeOK, BlockOps
  <2>. QED
    BY <1>3, <1>5, <1>10, <2>1 DEF DoDrain, Quiet
<1>11. CASE DoSwitch
  <2>1. TrySwitch
    BY <1>11 DEF DoSwitch
  <2>2. CASE Reorg
    <3>1. ReorgReaches \subseteq Blocks /\ "unstage" \in BlockOps
      BY DEF ReorgReaches, Prefix, TypeOK, StoreTypeOK, BlockOps
    <3>2. Instead(<<Plain("drain")>>) => Quiet
      <4>1. <<Plain("drain")>> \in Seq(Entries)
        BY StateEntry, OneType DEF StateOps
      <4>2. NoPuts(<<Plain("drain")>>)
        BY DEF NoPuts, Plain, Do
      <4>. QED
        BY <4>1, <4>2 DEF Quiet
    <3>. QED
      BY <1>4, <1>5, <2>2, <3>1, <3>2 DEF Reorg, Quiet
  <2>. QED
    BY <1>3, <2>1, <2>2 DEF TrySwitch, Halt, Quiet
<1>. QED
  BY <1>6, <1>7, <1>8, <1>9, <1>10, <1>11 DEF Step, Quiet

(* A chain goes where the index is moved to it. *)
LEMMA MoveLeavesPath ==
  ASSUME NEW x \in Nodes, best = Path(x), NEW t \in Nodes,
         RewriteBestChain(MeetsBest(t), PathAbove(t, MeetsBest(t)))
  PROVE  best' = Path(t)
<1>. DEFINE m == MeetsBest(t)
            kept == {c \in best : ~(Height(c) > m)}
<1>1. m \in 0 .. Height(t) /\ Height(t) \in Nat
  BY MeetsAt, TreeTypes
<1>2. best' = kept \cup PathAbove(t, m)
  BY DEF RewriteBestChain
<1>3. kept = {Chain[t][i] : i \in 1 .. m}
  <2>1. CASE m = 0
    <3>1. \A c \in best : Height(c) > 0
      BY PathOf
    <3>. QED
      BY <2>1, <3>1
  <2>2. CASE m # 0
    <3>. DEFINE d == Chain[t][m]
    <3>1. m \in 1 .. Height(t)
      BY <1>1, <2>2
    <3>2. d \in Path(x) /\ d \in Path(t) /\ Height(d) = m /\ d \in Nodes
      BY <2>2, <3>1, MeetsAt, PathAt DEF Nodes
    <3>3. Path(d) = {Chain[t][i] : i \in 1 .. m}
      <4>1. \A i \in 1 .. m : Chain[d][i] = Chain[t][i]
        BY <3>2, PathOf
      <4>. QED
        BY <3>2, <4>1 DEF Path
    <3>4. Path(d) \subseteq kept
      <4>1. Path(d) \subseteq best
        BY <3>2, PathOf
      <4>2. \A c \in Path(d) : Height(c) \in 1 .. m /\ m \in Nat
        BY <3>2, PathOf
      <4>. QED
        BY <4>1, <4>2
    <3>5. kept \subseteq Path(d)
      <4>. SUFFICES ASSUME NEW c \in kept PROVE c \in Path(d)
        OBVIOUS
      <4>1. c \in Path(x) /\ Height(c) <= Height(d)
        BY <1>1, <3>2, PathOf
      <4>. QED
        BY <3>2, <4>1, PathOne
    <3>. QED
      BY <3>3, <3>4, <3>5
  <2>. QED
    BY <2>1, <2>2
<1>4. 1 .. Height(t) = (1 .. m) \cup ((m + 1) .. Height(t))
  BY <1>1
<1>5. Path(t) = {Chain[t][i] : i \in 1 .. m} \cup {Chain[t][i] : i \in (m + 1) .. Height(t)}
  BY <1>4 DEF Path
<1>. QED
  BY <1>2, <1>3, <1>5 DEF PathAbove

(* A removal cuts a chain at the parent of what it takes. *)
LEMMA RemovalLeavesPath ==
  ASSUME NEW x \in Nodes, best = Path(x), best \subseteq headers, NEW b \in Blocks
  PROVE  \E y \in Nodes : best \ Subtree(b) = Path(y)
<1>1. CASE b \in best
  <2>1. \A c \in best : c \in Path(b) \/ b \in Path(c)
    <3>1. TAKE c \in best
    <3>2. Height(c) \in Nat /\ Height(b) \in Nat
      BY <1>1, PathOf, PathEnd
    <3>. QED
      BY <1>1, <3>2, PathOne
  <2>2. \A c \in best : b \in Path(c) => c \in Subtree(b)
    <3>. SUFFICES ASSUME NEW c \in best, b \in Path(c) PROVE c \in Subtree(b)
      OBVIOUS
    <3>1. Path(c) \subseteq headers /\ c \in headers /\ c \in Nodes /\ Height(b) \in Nat
      BY <1>1, PathOf
    <3>2. PathAbove(c, Height(b)) \subseteq Path(c)
      BY <3>1 DEF PathAbove, Path
    <3>. QED
      BY <3>1, <3>2 DEF Subtree
  <2>3. \A c \in Path(Parent(b)) : c \in best /\ c \notin Subtree(b)
    <3>. SUFFICES ASSUME NEW c \in Path(Parent(b)) PROVE c \in best /\ c \notin Subtree(b)
      OBVIOUS
    <3>1. /\ Parent(b) \in Nodes /\ Height(b) = Height(Parent(b)) + 1
          /\ c \in Path(b) /\ Path(b) \subseteq best
      BY <1>1, PathEnd, PathOf
    <3>2. Height(c) \in 1 .. Height(Parent(b)) /\ Height(Parent(b)) \in Nat /\ c \in Nodes
      BY <3>1, PathOf
    <3>3. c # b /\ b \notin Path(c)
      <4>1. b \in Path(c) => Height(b) \in 1 .. Height(c)
        BY <3>2, PathOf
      <4>. QED
        BY <3>1, <3>2, <4>1
    <3>. QED
      BY <3>1, <3>3 DEF Subtree
  <2>4. b \in Subtree(b) /\ Path(b) = Path(Parent(b)) \cup {b} /\ Parent(b) \in Nodes
    BY PathEnd DEF Subtree
  <2>5. best \ Subtree(b) = Path(Parent(b))
    BY <2>1, <2>2, <2>3, <2>4
  <2>. QED
    BY <2>4, <2>5
<1>2. CASE b \notin best
  <2>1. \A c \in best : Path(c) \subseteq best
    BY PathOf
  <2>2. best \cap Subtree(b) = {}
    BY <1>2, <2>1 DEF Subtree
  <2>. QED
    BY <2>2
<1>. QED
  BY <1>1, <1>2

(* A child of the best tip put on the index prolongs the chain. *)
LEMMA PutLeavesPath ==
  ASSUME NEW b \in Blocks, best = Path(Parent(b)), RewriteBestChain(Height(b) - 1, {b})
  PROVE  best' = Path(b)
<1>1. /\ Path(b) = Path(Parent(b)) \cup {b} /\ Height(b) = Height(Parent(b)) + 1
      /\ Parent(b) \in Nodes /\ Height(b) \in Nat \ {0}
  BY PathEnd
<1>2. \A c \in best : Height(c) \in 1 .. Height(Parent(b)) /\ Height(Parent(b)) \in Nat
  BY <1>1, PathOf
<1>3. {c \in best : Height(c) > Height(b) - 1} = {}
  BY <1>1, <1>2
<1>4. best' = (best \ {c \in best : Height(c) > Height(b) - 1}) \cup {b}
  BY DEF RewriteBestChain
<1>. QED
  BY <1>1, <1>3, <1>4

(* A chain put in the index's place, with nothing left to put. *)
LEMMA ChainReplaced ==
  ASSUME MemoKept', NEW x \in Nodes, best' = Path(x), NoPuts(agenda)'
  PROVE  OneChain' /\ BestTip' = x
<1>1. best' \subseteq headers'
  BY DEF MemoKept
<1>2. BestTip' = x
  BY <1>1, TipEndsNext DEF TipEndsIndex
<1>3. NoPuts(agenda') => PutsOn(agenda', x)
  BY PutsOfTail
<1>. QED
  BY <1>2, <1>3 DEF OneChain

(* A chain left as it is, and an agenda that puts on its end. *)
LEMMA ChainStays ==
  ASSUME MemoKept, MemoKept', OneChain, best' = best, PutsOn(agenda', BestTip)
  PROVE  OneChain' /\ BestTip' = BestTip
<1>1. BestTip' = BestTip
  BY BestTipKept DEF MemoKept
<1>. QED
  BY <1>1 DEF OneChain

(* The rest of an agenda whose first entry inserts nothing puts nothing. *)
LEMMA RestPutsNothing ==
  ASSUME TypeOK, MemoKept, agenda # <<>>, Now.op # "insert",
         agenda' = <<>> \/ \E s \in Seq(Entries) : NoPuts(s) /\ Instead(s)
  PROVE  NoPuts(agenda)'
<1>1. CASE agenda' = <<>>
  BY <1>1 DEF NoPuts
<1>2. ASSUME NEW s \in Seq(Entries), NoPuts(s), Instead(s) PROVE NoPuts(agenda')
  <2>1. agenda[1].op # "insert" /\ agenda \in Seq(Entries)
    BY DEF Now, TypeOK
  <2>2. Tail(agenda) \in Seq(Entries) /\ NoPuts(Tail(agenda))
    BY <2>1, TailParts DEF MemoKept
  <2>3. NoPuts(s \o Tail(agenda))
    BY <1>2, <2>2, Together
  <2>. QED
    BY <1>2, <2>3 DEF Instead
<1>. QED
  BY <1>1, <1>2

(* A move of the best chain leaves the path to its target, or halts. *)
LEMMA MoveKeepsChain ==
  ASSUME TypeOK, MemoKept, MemoKept', OneChain, agenda # <<>>, Now.op # "insert",
         NEW t \in Nodes, MoveBestTo(t)
  PROVE  /\ OneChain' /\ NoPuts(agenda)'
         /\ halted' = "InconsistentHeaderTree" \/ (BestTip' = t /\ best' = Path(t))
<1>1. BestTip \in Nodes /\ best = Path(BestTip)
  BY BestTipType DEF TypeOK, OneChain
<1>2. agenda' = <<>> \/ \E s \in Seq(Entries) : NoPuts(s) /\ Instead(s)
  BY EmptyType, ClosesKeep DEF MoveBestTo, Halt
<1>3. NoPuts(agenda)'
  BY <1>2, RestPutsNothing
<1>4. CASE RewriteBestChain(MeetsBest(t), PathAbove(t, MeetsBest(t)))
  <2>1. best' = Path(t)
    BY <1>1, <1>4, MoveLeavesPath
  <2>. QED
    BY <1>3, <2>1, ChainReplaced
<1>5. CASE Halt("InconsistentHeaderTree") /\ UNCHANGED storeVars
  <2>1. PutsOn(agenda', BestTip) /\ best' = best
    BY <1>3, <1>5, PutsOfTail DEF storeVars
  <2>. QED
    BY <1>3, <1>5, <2>1, ChainStays DEF Halt
<1>. QED
  BY <1>4, <1>5 DEF MoveBestTo

(* What a gossiped or mined block puts on the index is a child of the best  *)
(* tip.                                                                     *)
LEMMA GossipPutsOnTip ==
  ASSUME NEW p \in Peers \cup {Self}, NEW b \in Blocks, NEW inHand,
         NEW rest \in Seq(Entries), PutsOn(rest, BestTip)
  PROVE  /\ PutsOn(Bind(p, b), BestTip)
         /\ PutsOn(StoreHeader(b, inHand) \o Bind(p, b), BestTip)
         /\ PutsOn(Bind(p, b) \o rest, BestTip)
         /\ PutsOn(StoreHeader(b, inHand) \o Bind(p, b) \o rest, BestTip)
<1>. DEFINE own == Bind(p, b)
            stores == StoreHeader(b, inHand)
            ins == Inserts(<<b>>)
            put == <<Do("put", Self, <<b>>)>>
            both == stores \o own
<1>1. own \in Seq(Entries) /\ PutsOn(own, BestTip)
  BY BindType, ClosesKeep, PutsOfTail
<1>2. <<b>> \in Seq(Blocks) /\ <<b>> # <<>>
  OBVIOUS
<1>3. ins \in Seq(Entries) /\ PutsOn(ins, BestTip)
  BY <1>2, InsertsType, ClosesKeep, PutsOfTail
<1>4. put \in Seq(Entries)
  BY <1>2, PutEntry, OneType
<1>5. PutsOn(<<>>, BestTip) /\ <<>> \in Seq(Entries)
  BY ClosesKeep, PutsOfTail, EmptyType
<1>6. Parent(b) = BestTip => PutsOn(put, BestTip)
  BY DEF PutsOn, Do
<1>7. stores \in Seq(Entries)
  BY StoreHeaderType
<1>8. stores = ins \/ stores = <<>> \/ (Parent(b) = BestTip /\ stores = ins \o put)
  BY DEF StoreHeader
<1>. HIDE DEF own, stores, ins, put
<1>9. PutsOn(stores, BestTip)
  BY <1>3, <1>4, <1>5, <1>6, <1>8, PutsTogether
<1>10. both \in Seq(Entries) /\ PutsOn(both, BestTip)
  BY <1>1, <1>7, <1>9, PutsTogether, ConcatType
<1>. HIDE DEF both
<1>11. PutsOn(own \o rest, BestTip) /\ PutsOn(both \o rest, BestTip)
  BY <1>1, <1>10, PutsTogether
<1>. QED
  BY <1>1, <1>10, <1>11 DEF own, stores, both

(* Each step of an item keeps the index one chain. *)
LEMMA StepKeepsChain ==
  ASSUME TypeOK, MemoKept, MemoKept', OneChain, Step
  PROVE  OneChain'
<1>. USE DEF At
<1>1. agenda # <<>> /\ agenda \in Seq(Entries) /\ 1 \in 1 .. Len(agenda) /\ Now = agenda[1]
  BY DEF Step, DoInsert, DoPut, DoMove, DoUnstage, DoPrune, DoRechooseAfterApply,
       DoMark, DoRemove, DoRechoose, DoBind, DoExtend, DoInHand, DoDrain, DoSwitch, DoPass,
       TypeOK, Now
<1>2. Now.op \in BlockOps => Subject \in Blocks
  BY <1>1, NowType
<1>3. BestTip \in Nodes /\ best = Path(BestTip) /\ best \subseteq headers
  BY BestTipType DEF TypeOK, OneChain, MemoKept
<1>4. ~DoPass => agenda' = <<>> \/ \E s \in Seq(Entries) : NoPuts(s) /\ Instead(s)
  BY StepReplaces
<1>5. ~DoPass /\ Now.op # "insert" => NoPuts(agenda)'
  BY <1>1, <1>4, RestPutsNothing
<1>6. ~DoPass => PutsOn(agenda', BestTip)
  <2>1. PutsOn(Tail(agenda), BestTip) /\ Tail(agenda) \in Seq(Entries)
    BY <1>1, PutsOfTail DEF OneChain
  <2>2. ASSUME NEW s \in Seq(Entries), NoPuts(s), Instead(s) PROVE PutsOn(agenda', BestTip)
    <3>1. PutsOn(s, BestTip)
      BY <2>2, PutsOfTail
    <3>2. PutsOn(s \o Tail(agenda), BestTip)
      BY <2>1, <3>1, PutsTogether
    <3>. QED
      BY <2>2, <3>2 DEF Instead
  <2>3. agenda' = <<>> => PutsOn(agenda', BestTip)
    BY DEF PutsOn
  <2>. QED
    BY <1>4, <2>2, <2>3
<1>7. ASSUME ~DoPass, best' = best PROVE OneChain'
  BY <1>6, <1>7, ChainStays
<1>8. CASE DoPut
  <2>1. /\ Now.op = "put" /\ Now.bs \in Seq(Blocks) /\ Now.bs # <<>>
        /\ RewriteBestChain(Height(Now.bs[1]) - 1, ToSet(Now.bs)) /\ ~DoPass
    BY <1>1, <1>8, NowType DEF DoPut, PutOnBest, DoPass
  <2>. DEFINE b == Now.bs[1]
  <2>2. Len(Now.bs) = 1 /\ Parent(b) = BestTip
    BY <1>1, <2>1 DEF OneChain, PutsOn
  <2>3. b \in Blocks /\ ToSet(Now.bs) = {b}
    BY <2>1, <2>2 DEF ToSet
  <2>4. best = Path(Parent(b)) /\ RewriteBestChain(Height(b) - 1, {b})
    BY <1>3, <2>1, <2>2, <2>3
  <2>. HIDE DEF b
  <2>5. best' = Path(b) /\ b \in Nodes
    BY <2>3, <2>4, PutLeavesPath, PathEnd
  <2>. QED
    BY <1>5, <2>1, <2>5, ChainReplaced
<1>9. CASE DoMove
  <2>. DEFINE t == Subject
  <2>1. Now.op = "move" /\ MoveBestTo(t) /\ t \in Nodes
    BY <1>2, <1>9 DEF DoMove, BlockOps, Nodes
  <2>. HIDE DEF t
  <2>. QED
    BY <1>1, <2>1, MoveKeepsChain
<1>10. CASE DoRemove
  <2>1. Now.op = "remove" /\ best' = best \ Subtree(Subject) /\ Subject \in Blocks /\ ~DoPass
    BY <1>2, <1>10 DEF DoRemove, RemoveHeaderSubtree, BlockOps, DoPass
  <2>2. PICK y \in Nodes : best \ Subtree(Subject) = Path(y)
    BY <1>3, <2>1, RemovalLeavesPath
  <2>. QED
    BY <1>5, <2>1, <2>2, ChainReplaced
<1>11. CASE DoRechooseAfterApply \/ DoRechoose
  <2>1. Now.op # "insert" /\ ~DoPass
    BY <1>11 DEF DoRechooseAfterApply, DoRechoose, DoPass
  <2>2. \/ UNCHANGED storeVars
        \/ \E t \in headers \cup {tip} : MoveBestTo(t)
    BY <1>11 DEF DoRechooseAfterApply, DoRechoose, RechooseAfterApply, RechooseBestChain,
                 Heaviest, AfterApplyCandidates, HeadersHeavierThan
  <2>3. headers \cup {tip} \subseteq Nodes
    BY DEF TypeOK, StoreTypeOK, Nodes
  <2>4. ASSUME NEW t \in Nodes, MoveBestTo(t) PROVE OneChain'
    BY <1>1, <2>1, <2>4, MoveKeepsChain
  <2>. QED
    BY <1>7, <2>1, <2>2, <2>3, <2>4 DEF storeVars
<1>12. CASE DoPass
  <2>1. best' = best /\ Now.op = "pass" /\ Now.op # "insert"
    BY <1>12 DEF DoPass, storeVars
  <2>2. CASE Instead(<<>>)
    <3>1. NoPuts(agenda)'
      BY <1>1, <2>1, <2>2, EmptyType, ClosesKeep, RestPutsNothing
    <3>2. PutsOn(agenda', BestTip)
      BY <3>1, PutsOfTail
    <3>. QED
      BY <2>1, <3>2, ChainStays
  <2>3. ASSUME NEW p \in PassCandidates,
               GossipedBody(p, pending[p], [pending EXCEPT ![p] = None], agenda)
        PROVE  OneChain'
    <3>. DEFINE b == pending[p]
                inHand == CanExtendAppliedTip(b)
    <3>1. p \in Peers \cup {Self} /\ b \in Blocks
      BY DEF PassCandidates, TypeOK
    <3>2. \/ agenda' = agenda
          \/ agenda' = Bind(p, b) \o agenda
          \/ agenda' = StoreHeader(b, inHand) \o Bind(p, b) \o agenda
      BY <2>3 DEF GossipedBody
    <3>. HIDE DEF b, inHand
    <3>3. PutsOn(agenda', BestTip)
      BY <1>1, <3>1, <3>2, GossipPutsOnTip DEF OneChain
    <3>. QED
      BY <2>1, <3>3, ChainStays
  <2>. QED
    BY <1>12, <2>2, <2>3 DEF DoPass
<1>13. CASE DoInsert \/ DoUnstage \/ DoPrune \/ DoMark \/ DoBind \/ DoExtend \/ DoInHand
            \/ DoDrain \/ DoSwitch
  <2>1. ~DoPass
    BY <1>13 DEF DoInsert, DoUnstage, DoPrune, DoMark, DoBind, DoExtend, DoInHand, DoDrain,
                 DoSwitch, DoPass
  <2>2. best' = best
    BY <1>13 DEF DoInsert, InsertHeader, DoUnstage, UnstageBlock, DoPrune, PruneHeaderTree,
                 PruneHeadersBelow, DoMark, InsertRefusedHeader, DoBind, StageBlock, DoExtend,
                 DoInHand, ApplyStagedBlock, CommitBlock, DoDrain, DoSwitch, TrySwitch, Reorg,
                 CommitReorg, storeVars
  <2>. QED
    BY <1>7, <2>1, <2>2
<1>. QED
  BY <1>8, <1>9, <1>10, <1>11, <1>12, <1>13 DEF Step

(* A page puts headers on the index only behind its branch's switch. *)
LEMMA PagePutsNothing ==
  ASSUME TypeOK, NEW p \in Peers, NEW claim \in Blocks \cup {NoClaim}, NEW page \in Seq(Blocks),
         NoLatePages, AdmitPage(p, claim, page, Close)
  PROVE  NoPuts(agenda)'
<1>. DEFINE fresh == Fresh(page)
            mv == <<Do("move", Self, <<Last(fresh)>>)>>
<1>1. fresh \in Seq(Blocks)
  BY FreshType
<1>2. \/ agenda' = Close
      \/ /\ fresh # <<>>
         /\ \/ agenda' = Inserts(fresh) \o mv \o Close
            \/ agenda' = Inserts(fresh) \o <<>> \o Close
  <2>1. CASE fresh = <<>>
    BY <2>1 DEF AdmitPage
  <2>2. CASE fresh # <<>>
    <3>1. ASSUME InPass2(p, fresh), StorePass2Page(p, fresh, Close)
          PROVE  \/ agenda' = Inserts(fresh) \o mv \o Close
                 \/ agenda' = Inserts(fresh) \o <<>> \o Close
      <4>1. ~running[p].switched
        BY <3>1 DEF InPass2, Continues, NoLatePages
      <4>. QED
        BY <3>1, <4>1 DEF StorePass2Page
    <3>2. WinFirstPage(p, fresh, Close) =>
            agenda' = Close \/ agenda' = Inserts(fresh) \o mv \o Close
      BY DEF WinFirstPage
    <3>. QED
      BY <2>2, <3>1, <3>2 DEF AdmitPage, WinLaterPage, NotWon
  <2>. QED
    BY <2>1, <2>2
<1>. HIDE DEF fresh
<1>3. Close \in Seq(Entries) /\ NoPuts(Close) /\ ChoosesAfter(Close)
  BY CloseType, ClosesKeep
<1>4. ASSUME NEW m \in Seq(Entries), NoPuts(m) PROVE NoPuts(Inserts(fresh) \o m \o Close)
  <2>. DEFINE t == Inserts(fresh) \o m
  <2>1. Inserts(fresh) \in Seq(Entries) /\ NoPuts(Inserts(fresh))
    BY <1>1, InsertsType, ClosesKeep
  <2>2. t \in Seq(Entries) /\ NoPuts(t)
    BY <1>4, <2>1, Together, ConcatType
  <2>. HIDE DEF t
  <2>3. NoPuts(t \o Close)
    BY <1>3, <2>2, Together
  <2>. QED
    BY <2>3 DEF t
<1>5. fresh # <<>> => mv \in Seq(Entries) /\ NoPuts(mv)
  <2>. SUFFICES ASSUME fresh # <<>> PROVE mv \in Seq(Entries) /\ NoPuts(mv)
    OBVIOUS
  <2>. DEFINE b == Last(fresh)
  <2>1. b \in Blocks
    BY <1>1, LastType
  <2>. HIDE DEF b
  <2>2. <<Do("move", Self, <<b>>)>> \in Seq(Entries) /\ NoPuts(<<Do("move", Self, <<b>>)>>)
    BY <2>1, FrontsPutNothing DEF BlockOps, StateOps
  <2>. QED
    BY <2>2 DEF b
<1>. HIDE DEF mv
<1>. QED
  BY <1>2, <1>3, <1>4, <1>5, EmptyType, ClosesKeep

(* Every item, a crash and a restart keep the index one chain. *)
LEMMA ItemKeepsChain ==
  ASSUME TypeOK, MemoKept, MemoKept', OneChain, NoLatePages
  PROVE  /\ \A p \in Peers : Deliver(p) => OneChain'
         /\ \A b \in Blocks : DeliverMinedBlock(b) => OneChain'
         /\ GateHeld \/ Crash \/ Restart => OneChain'
<1>1. ASSUME best' = best, NoPuts(agenda') PROVE OneChain'
  <2>1. PutsOn(agenda', BestTip)
    BY <1>1, PutsOfTail
  <2>. QED
    BY <1>1, <2>1, ChainStays
<1>2. PutsOn(Close, BestTip) /\ Close \in Seq(Entries)
  BY CloseType, ClosesKeep, PutsOfTail
<1>3. ASSUME NEW p \in Peers, NEW input \in PageInputs, DeliverHeaders(p, input[1], input[2])
      PROVE  OneChain'
  <2>. DEFINE claim == input[1]
              page == input[2]
  <2>1. /\ claim \in Blocks \cup {NoClaim} /\ page \in Seq(Blocks)
        /\ AdmitPage(p, claim, page, Close)
    BY <1>3, InputAssumption DEF DeliverHeaders
  <2>2. best' = best
    BY <2>1 DEF AdmitPage, storeVars
  <2>. HIDE DEF claim, page
  <2>. QED
    BY <1>1, <2>1, <2>2, PagePutsNothing
<1>4. ASSUME NEW p \in Peers, NEW blocks \in AnswerInputs, DeliverBlocks(p, blocks)
      PROVE  OneChain'
  <2>. DEFINE binds == [i \in 1 .. Len(blocks) |-> Do("bind", p, <<blocks[i]>>)]
  <2>1. blocks \in Seq(Blocks)
    BY InputAssumption
  <2>2. \A i \in 1 .. Len(blocks) : Do("bind", p, <<blocks[i]>>) \in Entries
    <3>1. TAKE i \in 1 .. Len(blocks)
    <3>2. blocks[i] \in Blocks
      BY <2>1
    <3>. QED
      BY <3>2, BlockEntry DEF BlockOps
  <2>3. binds \in Seq(Entries)
    BY <2>1, <2>2
  <2>4. NoPuts(binds)
    BY DEF NoPuts, Do
  <2>5. agenda' = binds \o Close /\ best' = best
    BY <1>4 DEF DeliverBlocks, storeVars
  <2>. HIDE DEF binds
  <2>6. NoPuts(binds \o Close)
    BY <1>2, <2>3, <2>4, ClosesKeep, Together
  <2>. QED
    BY <1>1, <2>5, <2>6
<1>5. ASSUME NEW p \in Peers, NEW b \in GossipInputs, DeliverGossipedBlock(p, b)
      PROVE  OneChain'
  <2>. DEFINE inHand == CanExtendAppliedTip(b)
  <2>1. b \in Blocks /\ best' = best
    BY <1>5, InputAssumption DEF DeliverGossipedBlock, storeVars
  <2>2. \/ agenda' = Close
        \/ agenda' = Bind(p, b) \o Close
        \/ agenda' = StoreHeader(b, inHand) \o Bind(p, b) \o Close
    BY <1>5 DEF DeliverGossipedBlock, GossipedBody
  <2>. HIDE DEF inHand
  <2>3. PutsOn(agenda', BestTip)
    BY <1>2, <2>1, <2>2, GossipPutsOnTip
  <2>. QED
    BY <2>1, <2>3, ChainStays
<1>6. ASSUME NEW p \in Peers, PeerDisconnected(p) PROVE OneChain'
  <2>1. agenda' = agenda /\ best' = best
    BY <1>6 DEF PeerDisconnected, storeVars
  <2>. QED
    BY <2>1, ChainStays DEF OneChain
<1>7. ASSUME NEW b \in Blocks, DeliverMinedBlock(b) PROVE OneChain'
  <2>. DEFINE inHand == CanExtendAppliedTip(b)
  <2>1. best' = best
    BY <1>7 DEF DeliverMinedBlock, storeVars
  <2>2. agenda' = Bind(Self, b) \/ agenda' = StoreHeader(b, inHand) \o Bind(Self, b)
    BY <1>7 DEF DeliverMinedBlock
  <2>. HIDE DEF inHand
  <2>3. PutsOn(agenda', BestTip)
    BY <1>2, <2>2, GossipPutsOnTip
  <2>. QED
    BY <2>1, <2>3, ChainStays
<1>8. ASSUME GateHeld \/ Crash \/ Restart PROVE OneChain'
  <2>1. best' = best /\ (agenda' = Close \/ agenda' = <<>>)
    BY <1>8 DEF GateHeld, Crash, Restart, LoseMemory, storeVars
  <2>. QED
    BY <1>1, <2>1, ClosesKeep
<1>. QED
  BY <1>3, <1>4, <1>5, <1>6, <1>7, <1>8 DEF Deliver

(* The index stays one chain, and what will be put continues it. *)
LEMMA IndexStaysChain == Spec /\ []NoLatePages => []OneChain
<1>1. Init => OneChain
  <2>. SUFFICES ASSUME Init PROVE OneChain
    OBVIOUS
  <2>1. best = {} /\ headers = {} /\ agenda = <<>>
    BY DEF Init, StoreInit
  <2>2. Path(Root) = {} /\ Root \in Nodes
    BY PathAt, TreeTypes
  <2>3. BestTip = Root
    BY <2>1, <2>2, TipEnds DEF TipEndsIndex
  <2>. QED
    BY <2>1, <2>2, <2>3 DEF OneChain, PutsOn
<1>2. TypeOK /\ MemoKept /\ MemoKept' /\ NoLatePages /\ OneChain /\ [Next]_vars => OneChain'
  <2>. SUFFICES ASSUME TypeOK, MemoKept, MemoKept', NoLatePages, OneChain, [Next]_vars
                PROVE  OneChain'
    OBVIOUS
  <2>1. CASE Step
    BY <2>1, StepKeepsChain
  <2>2. CASE UNCHANGED vars
    <3>1. best' = best /\ agenda' = agenda
      BY <2>2 DEF vars, storeVars, pipelineVars
    <3>. QED
      BY <3>1, ChainStays DEF OneChain
  <2>3. ASSUME NEW b \in MinedInputs, DeliverMinedBlock(b) PROVE OneChain'
    BY <2>3, ItemKeepsChain, InputAssumption
  <2>. QED
    BY <2>1, <2>2, <2>3, ItemKeepsChain DEF Next
<1>. QED
  BY <1>1, <1>2, TypeCorrect, MemoIsKept, PTL DEF Spec

(* As long as no page of a branch is stored after the node switched to the  *)
(* branch, the index is one chain of stored headers between any two commits, *)
(* crashes included: a late page, put with no look at the index below it,   *)
(* is the only way a splice can come about.                                 *)
THEOREM OnlyLatePagesSplice == Spec /\ []NoLatePages => []BestIsOneChain
<1>1. MemoKept /\ OneChain => BestIsOneChain
  BY DEF MemoKept, OneChain, BestIsOneChain
<1>. QED
  BY <1>1, MemoIsKept, IndexStaysChain, PTL

-----------------------------------------------------------------------------
(* The agenda of an item: inserts, then what the item is in the middle of, *)
(* then binds, passes, drains and a switch.                                *)

QuietOps == {"bind", "pass", "drain", "switch"}

\* The entries of s decide what to do only when they are reached.
Quiet(s) == \A i \in 1 .. Len(s) : s[i].op \in QuietOps

\* The agenda a inserts bs, goes on with g, and is quiet from there.
Led(a, bs, g) == \E t \in Seq(Entries) : Quiet(t) /\ a = Inserts(bs) \o (g \o t)

(* Quiet agendas, one after the other, and the rest of one. *)
LEMMA QuietTogether ==
  /\ \A s, t \in Seq(Entries) : Quiet(s) /\ Quiet(t) => Quiet(s \o t)
  /\ \A s \in Seq(Entries) : s # <<>> /\ Quiet(s) => Quiet(Tail(s)) /\ s[1].op \in QuietOps
<1>1. ASSUME NEW s \in Seq(Entries), NEW t \in Seq(Entries), Quiet(s), Quiet(t)
      PROVE  Quiet(s \o t)
  <2>. DEFINE u == s \o t
  <2>1. /\ Len(u) = Len(s) + Len(t)
        /\ \A i \in 1 .. Len(s) : u[i] = s[i]
        /\ \A i \in 1 .. Len(s) + Len(t) :
             i \in 1 .. Len(s) \/ (i - Len(s) \in 1 .. Len(t) /\ u[i] = t[i - Len(s)])
    BY ConcatParts
  <2>. HIDE DEF u
  <2>2. Quiet(u)
    BY <1>1, <2>1 DEF Quiet
  <2>. QED
    BY <2>2 DEF u
<1>2. ASSUME NEW s \in Seq(Entries), s # <<>>, Quiet(s)
      PROVE  Quiet(Tail(s)) /\ s[1].op \in QuietOps
  <2>. DEFINE t == Tail(s)
  <2>1. Len(t) = Len(s) - 1 /\ Len(s) \in Nat \ {0} /\ \A i \in 1 .. Len(t) : t[i] = s[i + 1]
    BY <1>2, HeadTailProperties
  <2>. HIDE DEF t
  <2>2. Quiet(t) /\ s[1].op \in QuietOps
    BY <1>2, <2>1 DEF Quiet
  <2>. QED
    BY <2>2 DEF t
<1>. QED
  BY <1>1, <1>2

(* Three agendas one after the other. *)
LEMMA ThreeParts ==
  ASSUME NEW x \in Seq(Entries), NEW y \in Seq(Entries), NEW z \in Seq(Entries)
  PROVE  (x \o y) \o z = x \o (y \o z)
BY ConcatAssociative

(* The first entry and the rest of two agendas one after the other. *)
LEMMA FrontOf ==
  ASSUME NEW s \in Seq(Entries), s # <<>>, NEW t \in Seq(Entries)
  PROVE  /\ s \o t # <<>> /\ Head(s \o t) = s[1]
         /\ Tail(s \o t) = Tail(s) \o t /\ Tail(s) \in Seq(Entries)
<1>. DEFINE u == s \o t
            v == Tail(s) \o t
<1>1. Tail(s) \in Seq(Entries) /\ Len(Tail(s)) = Len(s) - 1 /\ Len(s) \in Nat \ {0}
      /\ \A i \in 1 .. Len(Tail(s)) : Tail(s)[i] = s[i + 1]
  BY HeadTailProperties
<1>2. /\ u \in Seq(Entries) /\ Len(u) = Len(s) + Len(t)
      /\ \A i \in 1 .. Len(s) + Len(t) : u[i] = IF i <= Len(s) THEN s[i] ELSE t[i - Len(s)]
  BY ConcatProperties
<1>3. /\ v \in Seq(Entries) /\ Len(v) = Len(s) - 1 + Len(t)
      /\ \A i \in 1 .. Len(s) - 1 + Len(t) :
           v[i] = IF i <= Len(s) - 1 THEN Tail(s)[i] ELSE t[i - (Len(s) - 1)]
  BY <1>1, ConcatProperties
<1>. HIDE DEF u, v
<1>4. Len(t) \in Nat
  OBVIOUS
<1>5. u # <<>> /\ Head(u) = u[1] /\ u[1] = s[1]
  BY <1>1, <1>2, <1>4
<1>6. Tail(u) \in Seq(Entries) /\ Len(Tail(u)) = Len(u) - 1
      /\ \A i \in 1 .. Len(Tail(u)) : Tail(u)[i] = u[i + 1]
  BY <1>2, <1>5, HeadTailProperties
<1>7. \A i \in 1 .. Len(v) : Tail(u)[i] = v[i]
  BY <1>1, <1>2, <1>3, <1>4, <1>6
<1>8. Tail(u) = v
  BY <1>2, <1>3, <1>4, <1>6, <1>7, SeqEqual
<1>. QED
  BY <1>1, <1>5, <1>8 DEF u, v

(* The inserts of a run: the first, and those of the rest. *)
LEMMA InsertsFront ==
  ASSUME NEW bs \in Seq(Blocks)
  PROVE  /\ Inserts(<<>>) = <<>>
         /\ bs # <<>> =>
              /\ Inserts(bs) # <<>> /\ Inserts(bs)[1] = Do("insert", Self, <<bs[1]>>)
              /\ Tail(Inserts(bs)) = Inserts(Tail(bs)) /\ Tail(bs) \in Seq(Blocks)
              /\ bs[1] \in Blocks /\ ToSet(bs) = {bs[1]} \cup ToSet(Tail(bs))
<1>1. Inserts(<<>>) = <<>>
  BY DEF Inserts
<1>2. ASSUME bs # <<>>
      PROVE  /\ Inserts(bs) # <<>> /\ Inserts(bs)[1] = Do("insert", Self, <<bs[1]>>)
             /\ Tail(Inserts(bs)) = Inserts(Tail(bs)) /\ Tail(bs) \in Seq(Blocks)
             /\ bs[1] \in Blocks /\ ToSet(bs) = {bs[1]} \cup ToSet(Tail(bs))
  <2>. DEFINE s == Inserts(bs)
              r == Tail(bs)
              t == Inserts(r)
  <2>1. r \in Seq(Blocks) /\ Len(r) = Len(bs) - 1 /\ Len(bs) \in Nat \ {0} /\ bs[1] \in Blocks
        /\ \A i \in 1 .. Len(r) : r[i] = bs[i + 1]
    BY <1>2, HeadTailProperties
  <2>. HIDE DEF r
  <2>2. s \in Seq(Entries) /\ t \in Seq(Entries)
    BY <2>1, InsertsType
  <2>3. Len(s) = Len(bs) /\ \A i \in 1 .. Len(bs) : s[i] = Do("insert", Self, <<bs[i]>>)
    BY <2>1 DEF Inserts
  <2>4. Len(t) = Len(r) /\ \A i \in 1 .. Len(r) : t[i] = Do("insert", Self, <<r[i]>>)
    BY <2>1 DEF Inserts
  <2>. HIDE DEF s, t
  <2>5. s # <<>>
    BY <2>1, <2>2, <2>3
  <2>6. Tail(s) \in Seq(Entries) /\ Len(Tail(s)) = Len(s) - 1
        /\ \A i \in 1 .. Len(Tail(s)) : Tail(s)[i] = s[i + 1]
    BY <2>2, <2>5, HeadTailProperties
  <2>7. \A i \in 1 .. Len(t) : Tail(s)[i] = t[i]
    <3>1. TAKE i \in 1 .. Len(t)
    <3>2. i \in 1 .. Len(r) /\ i + 1 \in 1 .. Len(bs) /\ i \in 1 .. Len(Tail(s))
      BY <2>1, <2>3, <2>4, <2>6
    <3>. QED
      BY <2>1, <2>3, <2>4, <2>6, <3>2
  <2>8. Tail(s) = t
    BY <2>1, <2>2, <2>3, <2>4, <2>6, <2>7, SeqEqual
  <2>9. ToSet(bs) = {bs[1]} \cup ToSet(r)
    <3>1. \A i \in 1 .. Len(bs) : i = 1 \/ i - 1 \in 1 .. Len(r)
      BY <2>1
    <3>2. \A i \in 1 .. Len(bs) : i = 1 \/ bs[i] = r[i - 1]
      BY <2>1, <3>1
    <3>3. DOMAIN bs = 1 .. Len(bs) /\ DOMAIN r = 1 .. Len(r)
      BY <2>1
    <3>4. ToSet(bs) \subseteq {bs[1]} \cup ToSet(r)
      BY <3>1, <3>2, <3>3 DEF ToSet
    <3>5. ToSet(r) \subseteq ToSet(bs)
      <4>1. \A i \in 1 .. Len(r) : i + 1 \in 1 .. Len(bs) /\ r[i] = bs[i + 1]
        BY <2>1
      <4>. QED
        BY <3>3, <4>1 DEF ToSet
    <3>6. bs[1] \in ToSet(bs)
      BY <2>1, <3>3 DEF ToSet
    <3>. QED
      BY <3>4, <3>5, <3>6
  <2>. QED
    BY <2>1, <2>3, <2>5, <2>8, <2>9 DEF s, r, t
<1>. QED
  BY <1>1, <1>2

(* What a step finds first on such an agenda, and what is left behind it. *)
LEMMA LedNow ==
  ASSUME agenda \in Seq(Entries), agenda # <<>>,
         NEW bs \in Seq(Blocks), NEW g \in Seq(Entries), Led(agenda, bs, g)
  PROVE  /\ bs # <<>> =>
              /\ Now = Do("insert", Self, <<bs[1]>>)
              /\ Instead(<<>>) => Led(agenda', Tail(bs), g)
         /\ bs = <<>> /\ g # <<>> =>
              /\ Now = g[1]
              /\ \A s \in Seq(Entries) : Instead(s) => Led(agenda', <<>>, s \o Tail(g))
         /\ bs = <<>> /\ g = <<>> =>
              /\ Now.op \in QuietOps /\ Quiet(agenda)
              /\ \A s, u \in Seq(Entries) : Quiet(u) /\ Instead(s \o u) => Led(agenda', <<>>, s)
<1>1. PICK t \in Seq(Entries) : Quiet(t) /\ agenda = Inserts(bs) \o (g \o t)
  BY DEF Led
<1>. DEFINE ins == Inserts(bs)
            gt == g \o t
<1>2. ins \in Seq(Entries) /\ gt \in Seq(Entries)
  BY InsertsType, ConcatType
<1>3. ASSUME bs # <<>>
      PROVE  /\ Now = Do("insert", Self, <<bs[1]>>)
             /\ Instead(<<>>) => Led(agenda', Tail(bs), g)
  <2>1. /\ ins # <<>> /\ ins[1] = Do("insert", Self, <<bs[1]>>)
        /\ Tail(ins) = Inserts(Tail(bs))
    BY <1>3, InsertsFront
  <2>. HIDE DEF ins, gt
  <2>2. Head(ins \o gt) = ins[1] /\ Tail(ins \o gt) = Tail(ins) \o gt /\ Tail(ins) \in Seq(Entries)
    BY <1>2, <2>1, FrontOf
  <2>3. agenda = ins \o gt
    BY <1>1 DEF ins, gt
  <2>4. <<>> \o Tail(agenda) = Tail(agenda)
    BY HeadTailProperties, ConcatEmptySeq
  <2>5. Instead(<<>>) => agenda' = Inserts(Tail(bs)) \o gt
    BY <2>1, <2>2, <2>3, <2>4 DEF Instead
  <2>. QED
    BY <1>1, <2>1, <2>2, <2>3, <2>5 DEF Now, Led, gt
<1>4. \A u \in Seq(Entries) : Inserts(<<>>) \o u = u
  <2>1. Inserts(<<>>) = <<>>
    BY EmptyType, InsertsFront
  <2>. QED
    BY <2>1, ConcatEmptySeq
<1>5. ASSUME bs = <<>>, g # <<>>
      PROVE  /\ Now = g[1]
             /\ \A s \in Seq(Entries) : Instead(s) => Led(agenda', <<>>, s \o Tail(g))
  <2>1. agenda = g \o t
    BY <1>1, <1>2, <1>4, <1>5
  <2>2. Head(g \o t) = g[1] /\ Tail(g \o t) = Tail(g) \o t /\ Tail(g) \in Seq(Entries)
    BY <1>5, FrontOf
  <2>3. ASSUME NEW s \in Seq(Entries), Instead(s) PROVE Led(agenda', <<>>, s \o Tail(g))
    <3>1. agenda' = s \o (Tail(g) \o t)
      BY <2>1, <2>2, <2>3 DEF Instead
    <3>2. s \o (Tail(g) \o t) = (s \o Tail(g)) \o t
      <4>. DEFINE r == Tail(g)
      <4>1. r \in Seq(Entries)
        BY <2>2
      <4>. HIDE DEF r
      <4>2. (s \o r) \o t = s \o (r \o t)
        BY <4>1, ConcatAssociative
      <4>. QED
        BY <4>2 DEF r
    <3>3. (s \o Tail(g)) \o t \in Seq(Entries)
      BY <2>2, ConcatType
    <3>. QED
      BY <1>1, <1>4, <3>1, <3>2, <3>3 DEF Led
  <2>. QED
    BY <2>1, <2>2, <2>3 DEF Now
<1>6. ASSUME bs = <<>>, g = <<>>
      PROVE  /\ Now.op \in QuietOps /\ Quiet(agenda)
             /\ \A s, u \in Seq(Entries) : Quiet(u) /\ Instead(s \o u) => Led(agenda', <<>>, s)
  <2>1. <<>> \o t = t
    BY ConcatEmptySeq
  <2>2. agenda = t
    BY <1>1, <1>2, <1>4, <1>6, <2>1
  <2>3. Tail(t) \in Seq(Entries) /\ Quiet(Tail(t)) /\ t[1].op \in QuietOps /\ Head(t) = t[1]
    BY <1>1, <2>2, QuietTogether, HeadTailProperties
  <2>4. ASSUME NEW s \in Seq(Entries), NEW u \in Seq(Entries), Quiet(u), Instead(s \o u)
        PROVE  Led(agenda', <<>>, s)
    <3>. DEFINE r == Tail(t)
    <3>1. r \in Seq(Entries) /\ Quiet(r) /\ agenda' = (s \o u) \o r
      BY <2>2, <2>3, <2>4 DEF Instead
    <3>. HIDE DEF r
    <3>2. u \o r \in Seq(Entries) /\ Quiet(u \o r)
      BY <2>4, <3>1, QuietTogether, ConcatType
    <3>3. (s \o u) \o r = s \o (u \o r)
      BY <3>1, ThreeParts
    <3>4. s \o (u \o r) \in Seq(Entries)
      <4>. DEFINE v == u \o r
      <4>1. v \in Seq(Entries)
        BY <3>2
      <4>. HIDE DEF v
      <4>2. s \o v \in Seq(Entries)
        BY <4>1, ConcatType
      <4>. QED
        BY <4>2 DEF v
    <3>. QED
      BY <1>4, <3>1, <3>2, <3>3, <3>4 DEF Led
  <2>. QED
    BY <1>1, <2>2, <2>3, <2>4 DEF Now
<1>. QED
  BY <1>3, <1>5, <1>6

(* An agenda with a new item's entries in front. *)
LEMMA LedStart ==
  ASSUME NEW t \in Seq(Entries), Quiet(t)
  PROVE  /\ Led(t, <<>>, <<>>)
         /\ \A bs \in Seq(Blocks) : Led(Inserts(bs) \o t, bs, <<>>)
         /\ \A bs \in Seq(Blocks) : \A g \in Seq(Entries) : Led((Inserts(bs) \o g) \o t, bs, g)
<1>1. Inserts(<<>>) = <<>> /\ <<>> \in Seq(Blocks)
  BY EmptyType, InsertsFront
<1>2. <<>> \o t = t
  BY ConcatEmptySeq
<1>3. Led(t, <<>>, <<>>)
  BY <1>1, <1>2 DEF Led
<1>4. \A bs \in Seq(Blocks) : Led(Inserts(bs) \o t, bs, <<>>)
  BY <1>2 DEF Led
<1>5. ASSUME NEW bs \in Seq(Blocks), NEW g \in Seq(Entries)
      PROVE  Led((Inserts(bs) \o g) \o t, bs, g)
  <2>1. (Inserts(bs) \o g) \o t = Inserts(bs) \o (g \o t)
    BY InsertsType, ConcatAssociative
  <2>. QED
    BY <2>1 DEF Led
<1>. QED
  BY <1>3, <1>4, <1>5

-----------------------------------------------------------------------------
(* The reach floor, and where the index and the applied chain part. *)

\* The index and the applied chain share a block at or above the floor.
Joined == ReachFloor = 0 \/ \E n \in best \cap Path(tip) : Height(n) >= ReachFloor

\* They did so before the last block was applied.
NearlyJoined ==
  ReachFloor <= 1 \/ \E n \in best \cap Path(tip) : Height(n) >= ReachFloor - 1

\* So would the path to x and the applied chain.
Reaches(x) == ReachFloor = 0 \/ \E n \in Path(x) \cap Path(tip) : Height(n) >= ReachFloor

\* The floor is no higher than the applied tip.
FloorUnderTip == StoreTypeOK /\ JournalsUnbroken => ReachFloor <= Height(tip)

\* An applied tip on the index joins the two.
TipJoins == StoreTypeOK /\ JournalsUnbroken /\ tip \in best \cup {Root} => Joined

(* No journal is above the applied tip, so the floor is not either. *)
LEMMA FloorIsUnder == FloorUnderTip
<1>. SUFFICES ASSUME StoreTypeOK, JournalsUnbroken PROVE ReachFloor <= Height(tip)
  BY DEF FloorUnderTip
<1>1. Height(tip) \in Nat /\ journals \subseteq Nat /\ MaxReorgDepth \in Nat
  BY TreeTypes, MaxReorgDepthAssumption DEF StoreTypeOK
<1>2. LowestJournal \in Nat /\ LowestJournal - 1 <= Height(tip)
  <2>1. CASE journals = {}
    BY <1>1, <2>1 DEF LowestJournal
  <2>2. CASE journals # {}
    <3>1. LowestJournal \in journals
      BY <1>1, <2>2, MinOfNaturals DEF LowestJournal
    <3>. QED
      BY <1>1, <3>1 DEF JournalsUnbroken
  <2>. QED
    BY <2>1, <2>2
<1>. QED
  BY <1>1, <1>2 DEF ReachFloor

(* The tip itself is a shared block above the floor. *)
LEMMA TipIsJoined == TipJoins
<1>. SUFFICES ASSUME StoreTypeOK, JournalsUnbroken, tip \in best \cup {Root} PROVE Joined
  BY DEF TipJoins
<1>1. ReachFloor <= Height(tip) /\ ReachFloor \in Nat /\ tip \in Nodes
  BY FloorIsUnder, ReachFloorType DEF FloorUnderTip, StoreTypeOK
<1>2. CASE tip = Root
  BY <1>1, <1>2, TreeTypes DEF Joined
<1>3. CASE tip # Root
  BY <1>1, <1>3, PathAt DEF Joined
<1>. QED
  BY <1>2, <1>3

(* So it is after a step. *)
LEMMA TipIsJoinedNext == TipJoins'
BY TipIsJoined, PTL

(* The floor is a matter of the applied tip and the journals. *)
LEMMA SameFloor ==
  ASSUME tip' = tip, journals' = journals
  PROVE  /\ ReachFloor' = ReachFloor
         /\ (\E n \in best' \cap Path(tip) : Height(n) >= ReachFloor) => Joined'
         /\ ReachFloor = 0 => Joined'
<1>1. LowestJournal' = LowestJournal
  BY DEF LowestJournal
<1>2. ReachFloor' = ReachFloor
  BY <1>1 DEF ReachFloor
<1>. QED
  BY <1>2 DEF Joined

(* A block applied on the tip raises the floor by one at most. *)
LEMMA FloorStep ==
  ASSUME StoreTypeOK, StoreTypeOK', JournalsUnbroken, NEW b \in Blocks, Parent(b) = tip,
         CommitBlock(b)
  PROVE  ReachFloor' <= ReachFloor + 1
<1>. DEFINE T == Height(tip)
            H == Height(b)
            F == ReachFloor
            D == MaxReorgDepth
            L == LowestJournal
            M == Min(journals')
<1>1. H = T + 1 /\ T \in Nat /\ H \in Nat /\ D \in Nat \ {0}
  BY HeightOfParent, TreeTypes, MaxReorgDepthAssumption DEF StoreTypeOK
<1>2. tip' = b /\ journals' = {j \in journals \cup {H} : j >= H - D}
  BY DEF CommitBlock, KeptJournals
<1>3. Height(tip') = H
  BY <1>2
<1>4. journals \subseteq Nat /\ journals' \subseteq Nat
  BY DEF StoreTypeOK
<1>5. \A j \in journals : j <= T /\ \A k \in j .. T : k \in journals
  BY DEF JournalsUnbroken
<1>6. F \in Nat /\ F >= T - D /\ F >= L - 1 /\ L \in Nat \ {0}
  BY ReachFloorType
<1>7. H \in journals'
  BY <1>1, <1>2
<1>8. LowestJournal' = M /\ M \in journals' /\ \A y \in journals' : M <= y
  <2>1. journals' # {}
    BY <1>7
  <2>. QED
    BY <1>4, <2>1, MinOfNaturals DEF LowestJournal
<1>9. ReachFloor' = IF H - D > M - 1 THEN H - D ELSE M - 1
  <2>1. ReachFloor' = IF Height(tip') - D > LowestJournal' - 1
                      THEN Height(tip') - D ELSE LowestJournal' - 1
    BY DEF ReachFloor
  <2>. QED
    BY <1>3, <1>8, <2>1
<1>10. M - 1 <= F + 1
  <2>1. CASE journals = {}
    <3>1. L = T + 1
      BY <2>1 DEF LowestJournal
    <3>. HIDE DEF T, H, F, D, L, M
    <3>. QED
      BY <1>1, <1>4, <1>6, <1>7, <1>8, <3>1
  <2>2. CASE journals # {}
    <3>1. L \in journals
      BY <1>4, <2>2, MinOfNaturals DEF LowestJournal
    <3>. HIDE DEF T, H, F, D, L, M
    <3>2. CASE L >= H - D
      <4>1. L \in journals'
        BY <1>2, <3>1, <3>2
      <4>. QED
        BY <1>4, <1>6, <1>8, <4>1
    <3>3. CASE L < H - D
      <4>1. H - D \in L .. T
        BY <1>1, <1>6, <3>3
      <4>2. H - D \in journals
        BY <1>5, <3>1, <4>1
      <4>3. H - D \in journals'
        BY <1>1, <1>2, <4>2
      <4>4. M <= H - D /\ M \in Nat
        BY <1>4, <1>8, <4>3
      <4>. QED
        BY <1>1, <1>6, <4>4
    <3>. QED
      BY <1>1, <1>6, <3>2, <3>3
  <2>. QED
    BY <2>1, <2>2
<1>11. M \in Nat
  BY <1>4, <1>8
<1>. HIDE DEF T, H, D, L, M
<1>12. ReachFloor' <= F + 1
  <2>. HIDE DEF F
  <2>. QED
    BY <1>1, <1>6, <1>9, <1>10, <1>11
<1>. QED
  BY <1>12

-----------------------------------------------------------------------------
(* What the node is in the middle of, as the agenda tells. *)

One(op, b) == <<Do(op, Self, <<b>>)>>

\* The best chain is about to move to a heavier stored path in reach.
Moving(bs, g) ==
  \E b \in Blocks : /\ g = One("move", b)
                    /\ Path(b) \subseteq headers \cup ToSet(bs) /\ Reaches(b)
                    /\ Work[b] > Work[BestTip]

Putting(g) == \E b \in Blocks : g = One("put", b)

\* A block off the index is about to be applied on the tip.
InHand(g) ==
  \E b \in Blocks : /\ g = One("inhand", b)
                    /\ b \in headers /\ Parent(b) = tip /\ best # {}

\* The next block of the index is about to be applied.
Extending(g) ==
  \E b \in Blocks : g = One("extend", b) /\ b \in best /\ Height(b) = Height(tip) + 1

Clearing(g) ==
  \/ g = <<Plain("prune")>>
  \/ \E b \in Blocks : g = One("unstage", b) \/ g = One("unstage", b) \o <<Plain("prune")>>

\* A block off the index was applied, and the best chain has yet to follow.
Choosing(g) ==
  LET after == <<Plain("prune")>> \o <<Plain("rechooseafter")>>
  IN  \/ g = <<Plain("rechooseafter")>>
      \/ g = after
      \/ \E b \in Blocks : g = One("unstage", b) \o after

\* A header off the applied chain is about to be marked and removed.
Marking(g) ==
  \E b \in Blocks : /\ g = MarkRefused(b) \/ g = One("remove", b) \o <<Plain("rechoose")>>
                    /\ b \notin Path(tip)

Rechoosing(g) == g = <<Plain("rechoose")>>

\* What is due once bs is inserted.
DueNext(bs, g) ==
  \/ Joined /\ (g = <<>> \/ Moving(bs, g) \/ Putting(g))
  \/ /\ bs = <<>>
     /\ \/ Joined /\ (InHand(g) \/ Extending(g) \/ Clearing(g) \/ Marking(g) \/ Rechoosing(g))
        \/ NearlyJoined /\ best # {} /\ Choosing(g)

Phase == \E bs \in Seq(Blocks), g \in Seq(Entries) : Led(agenda, bs, g) /\ DueNext(bs, g)

\* The entries s in place of the first leave g due.
Leaves(s, g) == Instead(s) => Led(agenda', <<>>, g)

(* Agendas of one, two and three entries, cut and joined. *)
LEMMA ShortAgendas ==
  ASSUME NEW x \in Entries
  PROVE  /\ <<x>> \in Seq(Entries) /\ <<x>> # <<>> /\ <<x>>[1] = x
         /\ \A u \in Seq(Entries) : u \o <<>> = u /\ <<>> \o u = u
         /\ Tail(<<x>>) = <<>>
         /\ \A u \in Seq(Entries) :
              /\ <<x>> \o u \in Seq(Entries) /\ <<x>> \o u # <<>>
              /\ (<<x>> \o u)[1] = x /\ Tail(<<x>> \o u) = u
<1>1. <<x>> \in Seq(Entries) /\ <<x>> # <<>> /\ <<x>>[1] = x
  OBVIOUS
<1>2. \A u \in Seq(Entries) : u \o <<>> = u /\ <<>> \o u = u
  BY ConcatEmptySeq
<1>3. Tail(<<x>>) = <<>>
  BY <1>1
<1>4. ASSUME NEW u \in Seq(Entries)
      PROVE  /\ <<x>> \o u \in Seq(Entries) /\ <<x>> \o u # <<>>
             /\ (<<x>> \o u)[1] = x /\ Tail(<<x>> \o u) = u
  <2>. DEFINE s == <<x>>
  <2>1. s \in Seq(Entries) /\ s # <<>> /\ s[1] = x /\ Tail(s) = <<>> /\ Len(s) = 1
    BY <1>1, <1>3
  <2>. HIDE DEF s
  <2>2. s \o u # <<>> /\ Tail(s \o u) = Tail(s) \o u /\ s \o u \in Seq(Entries)
    BY <2>1, FrontOf, ConcatType
  <2>3. (s \o u)[1] = s[1]
    <3>1. \A i \in 1 .. Len(s) : (s \o u)[i] = s[i]
      BY <2>1, ConcatParts
    <3>2. 1 \in 1 .. Len(s)
      BY <2>1
    <3>. QED
      BY <3>1, <3>2
  <2>. QED
    BY <1>2, <2>1, <2>2, <2>3 DEF s
<1>. QED
  BY <1>1, <1>2, <1>3, <1>4

(* The entries of the phases. *)
LEMMA PhaseEntries ==
  /\ \A op \in BlockOps, b \in Blocks :
       Do(op, Self, <<b>>) \in Entries /\ Do(op, Self, <<b>>).op = op
         /\ Do(op, Self, <<b>>).bs[1] = b
  /\ \A b \in Blocks : Do("put", Self, <<b>>) \in Entries /\ Do("put", Self, <<b>>).op = "put"
  /\ \A op \in StateOps : Plain(op) \in Entries /\ Plain(op).op = op
<1>1. \A op \in BlockOps, b \in Blocks : Do(op, Self, <<b>>) \in Entries
  BY BlockEntry
<1>2. \A b \in Blocks : Do("put", Self, <<b>>) \in Entries
  <2>1. TAKE b \in Blocks
  <2>2. <<b>> \in Seq(Blocks) /\ <<b>> # <<>>
    OBVIOUS
  <2>. QED
    BY <2>2, PutEntry
<1>3. \A op \in StateOps : Plain(op) \in Entries
  BY StateEntry
<1>4. \A op, b : Do(op, Self, <<b>>).op = op /\ Do(op, Self, <<b>>).bs = <<b>>
  BY DEF Do
<1>5. \A op : Plain(op).op = op
  BY DEF Plain, Do
<1>6. \A b : <<b>>[1] = b
  OBVIOUS
<1>. QED
  BY <1>1, <1>2, <1>3, <1>4, <1>5, <1>6

(* markRefused's commits, cut behind the first. *)
LEMMA MarkParts ==
  ASSUME NEW b \in Blocks
  PROVE  /\ MarkRefused(b) = One("mark", b) \o (One("remove", b) \o <<Plain("rechoose")>>)
         /\ One("remove", b) \o <<Plain("rechoose")>> \in Seq(Entries)
         /\ <<Plain("rechoose")>> \in Seq(Entries)
<1>1. /\ Do("mark", Self, <<b>>) \in Entries /\ Do("remove", Self, <<b>>) \in Entries
      /\ Plain("rechoose") \in Entries
  BY PhaseEntries DEF BlockOps, StateOps
<1>. DEFINE x == Do("mark", Self, <<b>>)
            y == Do("remove", Self, <<b>>)
            z == Plain("rechoose")
<1>. HIDE DEF x, y, z
<1>2. ASSUME x \in Entries, y \in Entries, z \in Entries
      PROVE  <<x, y, z>> = <<x>> \o (<<y>> \o <<z>>) /\ <<y>> \o <<z>> \in Seq(Entries)
             /\ <<z>> \in Seq(Entries)
  <2>1. <<y>> \in Seq(Entries) /\ <<z>> \in Seq(Entries) /\ <<x>> \in Seq(Entries)
    BY <1>2
  <2>2. <<x, y, z>> \in Seq(Entries) /\ Len(<<x, y, z>>) = 3
    BY <1>2
  <2>. DEFINE v == <<y>> \o <<z>>
              u == <<x>> \o v
  <2>6. v \in Seq(Entries) /\ Len(v) = 2 /\ v[1] = y /\ v[2] = z
    BY <2>1
  <2>. HIDE DEF v
  <2>3. u \in Seq(Entries) /\ Len(u) = 3 /\ u[1] = x /\ u[2] = y /\ u[3] = z
    <3>. DEFINE s == <<x>>
    <3>1. s \in Seq(Entries) /\ Len(s) = 1 /\ s[1] = x
      BY <2>1
    <3>. HIDE DEF s
    <3>2. /\ s \o v \in Seq(Entries) /\ Len(s \o v) = Len(s) + Len(v)
          /\ \A i \in 1 .. Len(s) : (s \o v)[i] = s[i]
          /\ \A i \in 1 .. Len(v) : (s \o v)[Len(s) + i] = v[i]
      BY <2>6, <3>1, ConcatParts
    <3>3. 1 \in 1 .. Len(s) /\ 1 \in 1 .. Len(v) /\ 2 \in 1 .. Len(v)
      BY <2>6, <3>1
    <3>4. (s \o v)[1] = x /\ (s \o v)[Len(s) + 1] = y /\ (s \o v)[Len(s) + 2] = z
      BY <2>6, <3>1, <3>2, <3>3
    <3>. QED
      BY <2>6, <3>1, <3>2, <3>4 DEF s
  <2>. HIDE DEF u
  <2>4. \A i \in 1 .. 3 : i = 1 \/ i = 2 \/ i = 3
    OBVIOUS
  <2>5. u = <<x, y, z>>
    BY <2>2, <2>3, <2>4, SeqEqual
  <2>. QED
    BY <2>1, <2>6, <2>5 DEF u, v
<1>. QED
  BY <1>1, <1>2 DEF x, y, z, One, MarkRefused

(* Replacing the first entry of what is due. *)
LEMMA DueLeaves ==
  ASSUME agenda \in Seq(Entries), agenda # <<>>, NEW x \in Entries, NEW u \in Seq(Entries),
         Led(agenda, <<>>, <<x>> \o u)
  PROVE  /\ Now = x /\ Leaves(<<>>, u)
         /\ u = <<>> => \A s \in Seq(Entries) : Leaves(s, s)
<1>. DEFINE g == <<x>> \o u
<1>1. g \in Seq(Entries) /\ g # <<>> /\ g[1] = x /\ Tail(g) = u
  BY ShortAgendas
<1>. HIDE DEF g
<1>2. <<>> \in Seq(Blocks) /\ <<>> \in Seq(Entries)
  BY EmptyType
<1>3. Led(agenda, <<>>, g)
  BY DEF g
<1>4. Now = g[1] /\ \A s \in Seq(Entries) : Instead(s) => Led(agenda', <<>>, s \o Tail(g))
  BY <1>1, <1>2, <1>3, LedNow
<1>5. <<>> \o u = u /\ \A s \in Seq(Entries) : s \o <<>> = s
  BY ConcatEmptySeq
<1>. QED
  BY <1>1, <1>2, <1>4, <1>5 DEF Leaves

(* A lone entry is an entry and nothing behind it. *)
LEMMA LoneLeaves ==
  ASSUME agenda \in Seq(Entries), agenda # <<>>, NEW x \in Entries, Led(agenda, <<>>, <<x>>)
  PROVE  Now = x /\ \A s \in Seq(Entries) : Leaves(s, s)
<1>1. <<x>> \o <<>> = <<x>> /\ <<>> \in Seq(Entries)
  BY ConcatEmptySeq
<1>. QED
  BY <1>1, DueLeaves

\* What is known at the start of each step of an item, and what stays due.
InsertDue ==
  \E bs \in Seq(Blocks), g \in Seq(Entries) :
    /\ bs # <<>> /\ Subject = bs[1] /\ DueNext(bs, g)
    /\ Instead(<<>>) => Led(agenda', Tail(bs), g)

MoveDue ==
  /\ Joined /\ Path(Subject) \subseteq headers /\ Reaches(Subject) /\ Leaves(<<>>, <<>>)
  /\ Work[Subject] > Work[BestTip]

PutDue == Joined /\ Leaves(<<>>, <<>>)

InHandDue ==
  /\ Joined /\ Subject \in headers /\ Parent(Subject) = tip /\ best # {}
  /\ \A s \in Seq(Entries) : Leaves(s, s)

ExtendDue ==
  /\ Joined /\ Subject \in best /\ Height(Subject) = Height(tip) + 1
  /\ \A s \in Seq(Entries) : Leaves(s, s)

ClearDue ==
  \/ Joined /\ (Leaves(<<>>, <<>>) \/ Leaves(<<>>, <<Plain("prune")>>))
  \/ /\ NearlyJoined /\ best # {}
     /\ \/ Leaves(<<>>, <<Plain("rechooseafter")>>)
        \/ Leaves(<<>>, <<Plain("prune")>> \o <<Plain("rechooseafter")>>)

ChoiceAfterDue == NearlyJoined /\ best # {} /\ Leaves(<<>>, <<>>)

MarkDue ==
  /\ Joined /\ Subject \notin Path(tip)
  /\ Leaves(<<>>, One("remove", Subject) \o <<Plain("rechoose")>>)

RemoveDue == Joined /\ Subject \notin Path(tip) /\ Leaves(<<>>, <<Plain("rechoose")>>)

QuietDue ==
  /\ Joined /\ Quiet(agenda)
  /\ \A s, u \in Seq(Entries) : Quiet(u) => Leaves(s \o u, s)

\* The step the first entry names finds what it needs.
StepDue ==
  /\ Now.op = "insert" => InsertDue
  /\ Now.op = "move" => MoveDue
  /\ Now.op = "put" => PutDue
  /\ Now.op = "inhand" => InHandDue
  /\ Now.op = "extend" => ExtendDue
  /\ Now.op \in {"unstage", "prune"} => ClearDue
  /\ Now.op = "rechooseafter" => ChoiceAfterDue
  /\ Now.op = "mark" => MarkDue
  /\ Now.op = "remove" => RemoveDue
  /\ Now.op = "rechoose" => Joined /\ Leaves(<<>>, <<>>)
  /\ Now.op \in QuietOps => QuietDue

(* The phase tells what each step finds. *)
LEMMA PhaseAt ==
  ASSUME agenda \in Seq(Entries), agenda # <<>>, Phase
  PROVE  StepDue
<1>1. PICK bs \in Seq(Blocks), g \in Seq(Entries) : Led(agenda, bs, g) /\ DueNext(bs, g)
  BY DEF Phase
<1>2. <<>> \in Seq(Entries)
  BY EmptyType
<1>3. CASE bs # <<>>
  <2>1. Now = Do("insert", Self, <<bs[1]>>) /\ (Instead(<<>>) => Led(agenda', Tail(bs), g))
    BY <1>1, <1>3, LedNow
  <2>2. Now.op = "insert" /\ Subject = bs[1]
    BY <2>1 DEF Do, Subject
  <2>3. InsertDue
    BY <1>1, <1>3, <2>1, <2>2 DEF InsertDue
  <2>. QED
    BY <2>2, <2>3 DEF StepDue, QuietOps
<1>4. CASE bs = <<>> /\ g = <<>>
  <2>1. /\ Now.op \in QuietOps /\ Quiet(agenda)
        /\ \A s, u \in Seq(Entries) : Quiet(u) /\ Instead(s \o u) => Led(agenda', <<>>, s)
    BY <1>1, <1>4, LedNow
  <2>2. Joined
    <3>1. \A op, b : <<>> # One(op, b)
      BY DEF One
    <3>2. ~Choosing(<<>>)
      <4>1. \A x, y, z \in Entries : <<>> # <<y>> \o <<z>> /\ <<>> # <<x>> \o (<<y>> \o <<z>>)
        BY ShortAgendas
      <4>2. \A b \in Blocks : Do("unstage", Self, <<b>>) \in Entries
        BY PhaseEntries DEF BlockOps
      <4>3. Plain("prune") \in Entries /\ Plain("rechooseafter") \in Entries
        BY PhaseEntries DEF StateOps
      <4>4. <<>> # <<Plain("rechooseafter")>>
        OBVIOUS
      <4>. QED
        BY <4>1, <4>2, <4>3, <4>4 DEF Choosing, One
    <3>. QED
      BY <1>1, <1>4, <3>2 DEF DueNext
  <2>3. QuietDue
    BY <2>1, <2>2 DEF QuietDue, Leaves
  <2>. QED
    BY <2>1, <2>3 DEF StepDue, QuietOps
<1>5. CASE bs = <<>> /\ g # <<>>
  <2>1. /\ \A op \in BlockOps, b \in Blocks :
              Do(op, Self, <<b>>) \in Entries /\ Do(op, Self, <<b>>).op = op
                /\ Do(op, Self, <<b>>).bs[1] = b
        /\ \A b \in Blocks : Do("put", Self, <<b>>) \in Entries /\ Do("put", Self, <<b>>).op = "put"
        /\ \A op \in StateOps : Plain(op) \in Entries /\ Plain(op).op = op
    BY PhaseEntries
  <2>2. ASSUME NEW b \in Blocks, NEW op \in BlockOps, g = One(op, b)
        PROVE  Now.op = op /\ Subject = b /\ \A s \in Seq(Entries) : Leaves(s, s)
    <3>. DEFINE x == Do(op, Self, <<b>>)
    <3>1. x \in Entries /\ x.op = op /\ x.bs[1] = b
      BY <2>1
    <3>. HIDE DEF x
    <3>2. Led(agenda, <<>>, <<x>>)
      BY <1>1, <1>5, <2>2 DEF One, x
    <3>3. Now = x /\ \A s \in Seq(Entries) : Leaves(s, s)
      BY <3>1, <3>2, LoneLeaves
    <3>. QED
      BY <3>1, <3>3 DEF Subject
  <2>3. ASSUME NEW b \in Blocks, NEW op \in BlockOps, NEW u \in Seq(Entries), g = One(op, b) \o u
        PROVE  Now.op = op /\ Subject = b /\ Leaves(<<>>, u)
    <3>. DEFINE x == Do(op, Self, <<b>>)
    <3>1. x \in Entries /\ x.op = op /\ x.bs[1] = b
      BY <2>1
    <3>. HIDE DEF x
    <3>2. Led(agenda, <<>>, <<x>> \o u)
      BY <1>1, <1>5, <2>3 DEF One, x
    <3>3. Now = x /\ Leaves(<<>>, u)
      BY <3>1, <3>2, DueLeaves
    <3>. QED
      BY <3>1, <3>3 DEF Subject
  <2>4. ASSUME NEW op \in StateOps, g = <<Plain(op)>>
        PROVE  Now.op = op /\ Leaves(<<>>, <<>>)
    <3>1. Plain(op) \in Entries /\ Plain(op).op = op
      BY <2>1
    <3>2. Now = Plain(op) /\ \A s \in Seq(Entries) : Leaves(s, s)
      BY <1>1, <1>5, <2>4, <3>1, LoneLeaves
    <3>. QED
      BY <1>2, <3>1, <3>2
  <2>5. /\ Plain("prune") \in Entries /\ Plain("rechooseafter") \in Entries
        /\ <<Plain("prune")>> \in Seq(Entries) /\ <<Plain("rechooseafter")>> \in Seq(Entries)
        /\ <<Plain("prune")>> \o <<Plain("rechooseafter")>> \in Seq(Entries)
        /\ Plain("prune").op = "prune"
    BY <2>1, ShortAgendas DEF StateOps
  <2>6. CASE Joined /\ Moving(bs, g)
    <3>1. PICK b \in Blocks : /\ g = One("move", b) /\ Work[b] > Work[BestTip]
                              /\ Path(b) \subseteq headers \cup ToSet(bs) /\ Reaches(b)
      BY <2>6 DEF Moving
    <3>2. Now.op = "move" /\ Subject = b /\ Leaves(<<>>, <<>>)
      BY <1>2, <2>2, <3>1 DEF BlockOps
    <3>3. ToSet(bs) = {}
      BY <1>5 DEF ToSet
    <3>4. MoveDue
      BY <2>6, <3>1, <3>2, <3>3 DEF MoveDue
    <3>. QED
      BY <3>2, <3>4 DEF StepDue, QuietOps
  <2>7. CASE Joined /\ Putting(g)
    <3>1. PICK b \in Blocks : g = One("put", b)
      BY <2>7 DEF Putting
    <3>. DEFINE x == Do("put", Self, <<b>>)
    <3>2. x \in Entries /\ x.op = "put"
      BY <2>1
    <3>. HIDE DEF x
    <3>3. Led(agenda, <<>>, <<x>>)
      BY <1>1, <1>5, <3>1 DEF One, x
    <3>4. Now = x /\ Leaves(<<>>, <<>>)
      BY <1>2, <3>2, <3>3, LoneLeaves
    <3>5. PutDue
      BY <2>7, <3>4 DEF PutDue
    <3>. QED
      BY <3>2, <3>4, <3>5 DEF StepDue, QuietOps
  <2>8. CASE Joined /\ InHand(g)
    <3>1. PICK b \in Blocks : g = One("inhand", b) /\ b \in headers /\ Parent(b) = tip /\ best # {}
      BY <2>8 DEF InHand
    <3>2. Now.op = "inhand" /\ Subject = b /\ \A s \in Seq(Entries) : Leaves(s, s)
      BY <2>2, <3>1 DEF BlockOps
    <3>3. InHandDue
      BY <2>8, <3>1, <3>2 DEF InHandDue
    <3>. QED
      BY <3>2, <3>3 DEF StepDue, QuietOps
  <2>9. CASE Joined /\ Extending(g)
    <3>1. PICK b \in Blocks : g = One("extend", b) /\ b \in best /\ Height(b) = Height(tip) + 1
      BY <2>9 DEF Extending
    <3>2. Now.op = "extend" /\ Subject = b /\ \A s \in Seq(Entries) : Leaves(s, s)
      BY <2>2, <3>1 DEF BlockOps
    <3>3. ExtendDue
      BY <2>9, <3>1, <3>2 DEF ExtendDue
    <3>. QED
      BY <3>2, <3>3 DEF StepDue, QuietOps
  <2>10. CASE Joined /\ Clearing(g)
    <3>1. CASE g = <<Plain("prune")>>
      <4>1. Now.op = "prune" /\ Leaves(<<>>, <<>>)
        BY <2>4, <3>1 DEF StateOps
      <4>2. ClearDue
        BY <2>10, <4>1 DEF ClearDue
      <4>. QED
        BY <4>1, <4>2 DEF StepDue, QuietOps
    <3>2. ASSUME NEW b \in Blocks, g = One("unstage", b) PROVE StepDue
      <4>1. Now.op = "unstage" /\ Leaves(<<>>, <<>>)
        BY <1>2, <2>2, <3>2 DEF BlockOps
      <4>2. ClearDue
        BY <2>10, <4>1 DEF ClearDue
      <4>. QED
        BY <4>1, <4>2 DEF StepDue, QuietOps
    <3>3. ASSUME NEW b \in Blocks, g = One("unstage", b) \o <<Plain("prune")>> PROVE StepDue
      <4>1. Now.op = "unstage" /\ Leaves(<<>>, <<Plain("prune")>>)
        BY <2>3, <2>5, <3>3 DEF BlockOps
      <4>2. ClearDue
        BY <2>10, <4>1 DEF ClearDue
      <4>. QED
        BY <4>1, <4>2 DEF StepDue, QuietOps
    <3>. QED
      BY <2>10, <3>1, <3>2, <3>3 DEF Clearing
  <2>11. CASE NearlyJoined /\ best # {} /\ Choosing(g)
    <3>. DEFINE after == <<Plain("prune")>> \o <<Plain("rechooseafter")>>
    <3>1. CASE g = <<Plain("rechooseafter")>>
      <4>1. Now.op = "rechooseafter" /\ Leaves(<<>>, <<>>)
        BY <2>4, <3>1 DEF StateOps
      <4>2. ChoiceAfterDue
        BY <2>11, <4>1 DEF ChoiceAfterDue
      <4>. QED
        BY <4>1, <4>2 DEF StepDue, QuietOps
    <3>2. CASE g = after
      <4>1. Led(agenda, <<>>, <<Plain("prune")>> \o <<Plain("rechooseafter")>>)
        BY <1>1, <1>5, <3>2
      <4>2. Now = Plain("prune") /\ Leaves(<<>>, <<Plain("rechooseafter")>>)
        BY <2>5, <4>1, DueLeaves
      <4>3. ClearDue
        BY <2>11, <4>2 DEF ClearDue
      <4>. QED
        BY <2>5, <4>2, <4>3 DEF StepDue, QuietOps
    <3>3. ASSUME NEW b \in Blocks, g = One("unstage", b) \o after PROVE StepDue
      <4>1. Now.op = "unstage" /\ Leaves(<<>>, after)
        BY <2>3, <2>5, <3>3 DEF BlockOps
      <4>2. ClearDue
        BY <2>11, <4>1 DEF ClearDue
      <4>. QED
        BY <4>1, <4>2 DEF StepDue, QuietOps
    <3>. QED
      BY <2>11, <3>1, <3>2, <3>3 DEF Choosing
  <2>12. CASE Joined /\ Marking(g)
    <3>1. PICK b \in Blocks : /\ g = MarkRefused(b) \/ g = One("remove", b) \o <<Plain("rechoose")>>
                              /\ b \notin Path(tip)
      BY <2>12 DEF Marking
    <3>. DEFINE rest == One("remove", b) \o <<Plain("rechoose")>>
    <3>2. MarkRefused(b) = One("mark", b) \o rest /\ rest \in Seq(Entries) /\ <<Plain("rechoose")>> \in Seq(Entries)
      BY MarkParts
    <3>3. CASE g = MarkRefused(b)
      <4>1. Now.op = "mark" /\ Subject = b /\ Leaves(<<>>, rest)
        BY <2>3, <3>2, <3>3 DEF BlockOps
      <4>2. MarkDue
        BY <2>12, <3>1, <4>1 DEF MarkDue
      <4>. QED
        BY <4>1, <4>2 DEF StepDue, QuietOps
    <3>4. CASE g = rest
      <4>1. Now.op = "remove" /\ Subject = b /\ Leaves(<<>>, <<Plain("rechoose")>>)
        BY <2>3, <3>2, <3>4 DEF BlockOps
      <4>2. RemoveDue
        BY <2>12, <3>1, <4>1 DEF RemoveDue
      <4>. QED
        BY <4>1, <4>2 DEF StepDue, QuietOps
    <3>. QED
      BY <3>1, <3>3, <3>4
  <2>13. CASE Joined /\ Rechoosing(g)
    <3>1. Now.op = "rechoose" /\ Leaves(<<>>, <<>>)
      BY <2>4, <2>13 DEF StateOps, Rechoosing
    <3>. QED
      BY <2>13, <3>1 DEF StepDue, QuietOps
  <2>. QED
    BY <1>1, <1>5, <2>6, <2>7, <2>8, <2>9, <2>10, <2>11, <2>12, <2>13 DEF DueNext
<1>. QED
  BY <1>3, <1>4, <1>5

(* Between items nothing is due. *)
LEMMA IdleJoined ==
  ASSUME Phase, agenda = <<>>
  PROVE  Joined
<1>1. PICK bs \in Seq(Blocks), g \in Seq(Entries) : Led(agenda, bs, g) /\ DueNext(bs, g)
  BY DEF Phase
<1>2. PICK t \in Seq(Entries) : agenda = Inserts(bs) \o (g \o t)
  BY <1>1 DEF Led
<1>3. Inserts(bs) \in Seq(Entries) /\ g \o t \in Seq(Entries)
  BY InsertsType, ConcatType
<1>4. Len(Inserts(bs) \o (g \o t)) = Len(Inserts(bs)) + (Len(g) + Len(t))
      /\ Len(Inserts(bs)) \in Nat /\ Len(g) \in Nat /\ Len(t) \in Nat
  <2>. DEFINE s == Inserts(bs)
              u == g \o t
  <2>1. Len(u) = Len(g) + Len(t) /\ Len(g) \in Nat /\ Len(t) \in Nat
    BY ConcatParts
  <2>2. Len(s \o u) = Len(s) + Len(u) /\ Len(s) \in Nat
    BY <1>3, ConcatParts
  <2>. QED
    BY <2>1, <2>2
<1>5. Len(g) = 0
  <2>1. Len(agenda) = 0
    OBVIOUS
  <2>. QED
    BY <1>2, <1>4, <2>1
<1>6. g = <<>>
  BY <1>5
<1>7. \A u, v \in Seq(Entries) : v # <<>> => u \o v # <<>> /\ v \o u # <<>>
  <2>1. TAKE u \in Seq(Entries), v \in Seq(Entries)
  <2>2. Len(u \o v) = Len(u) + Len(v) /\ Len(v \o u) = Len(v) + Len(u) /\ Len(u) \in Nat /\ Len(v) \in Nat
    BY ConcatParts
  <2>3. v # <<>> => Len(v) # 0
    OBVIOUS
  <2>. QED
    BY <2>2, <2>3
<1>8. ~Choosing(<<>>)
  <2>1. Plain("prune") \in Entries /\ Plain("rechooseafter") \in Entries
    BY PhaseEntries DEF StateOps
  <2>2. /\ <<Plain("rechooseafter")>> \in Seq(Entries) /\ <<Plain("rechooseafter")>> # <<>>
        /\ <<Plain("prune")>> \o <<Plain("rechooseafter")>> \in Seq(Entries)
        /\ <<Plain("prune")>> \o <<Plain("rechooseafter")>> # <<>>
    BY <2>1, ShortAgendas
  <2>3. \A b \in Blocks : One("unstage", b) \in Seq(Entries)
    BY PhaseEntries, OneType DEF BlockOps, One
  <2>4. \A b \in Blocks : One("unstage", b) \o (<<Plain("prune")>> \o <<Plain("rechooseafter")>>) # <<>>
    BY <1>7, <2>2, <2>3
  <2>. QED
    BY <2>2, <2>4 DEF Choosing
<1>. QED
  BY <1>1, <1>6, <1>8 DEF DueNext

-----------------------------------------------------------------------------
(* The steps of an item.  None halts, drops a row of the applied chain, or *)
(* leaves the index out of reach of it, but for the time an apply off the   *)
(* index takes to choose the best chain anew.                               *)

\* What the theorems above already say of every state.
Grounds == TypeOK /\ MemoKept /\ OneChain /\ JournalsUnbroken

\* The invariant the store is kept by.
StoreKept == halted = "no" /\ AppliedRowsKept /\ Phase

(* With index, tip and journals as they are, so is what they join. *)
LEMMA StoreStill ==
  ASSUME tip' = tip, journals' = journals, best' = best
  PROVE  /\ Joined => Joined'
         /\ NearlyJoined => NearlyJoined'
         /\ \A x : Reaches(x) => Reaches(x)'
<1>1. ReachFloor' = ReachFloor
  BY SameFloor
<1>. QED
  BY <1>1 DEF Joined, NearlyJoined, Reaches

(* What a step leaves due is a phase. *)
LEMMA LeavesPhase ==
  ASSUME NEW g \in Seq(Entries), Led(agenda', <<>>, g), DueNext(<<>>, g)'
  PROVE  Phase'
<1>1. <<>> \in Seq(Blocks)
  BY EmptyType
<1>. QED
  BY <1>1 DEF Phase

(* An item that is through with the commits it had due. *)
LEMMA ThroughPhase ==
  ASSUME Joined', Led(agenda', <<>>, <<>>)
  PROVE  Phase'
<1>1. <<>> \in Seq(Entries) /\ DueNext(<<>>, <<>>)'
  BY EmptyType DEF DueNext
<1>. QED
  BY <1>1, LeavesPhase

(* After an unstaging or a prune of an applied block. *)
LEMMA ClearLeaves ==
  ASSUME ClearDue, Instead(<<>>), Joined => Joined', NearlyJoined => NearlyJoined', best' = best
  PROVE  Phase'
<1>1. /\ Plain("prune") \in Entries /\ Plain("rechooseafter") \in Entries
      /\ <<Plain("prune")>> \in Seq(Entries) /\ <<Plain("rechooseafter")>> \in Seq(Entries)
      /\ <<Plain("prune")>> \o <<Plain("rechooseafter")>> \in Seq(Entries)
  BY PhaseEntries, ShortAgendas DEF StateOps
<1>2. CASE Joined /\ Leaves(<<>>, <<>>)
  BY <1>2, ThroughPhase DEF Leaves
<1>3. CASE Joined /\ Leaves(<<>>, <<Plain("prune")>>)
  <2>1. DueNext(<<>>, <<Plain("prune")>>)'
    BY <1>3 DEF DueNext, Clearing
  <2>. QED
    BY <1>1, <1>3, <2>1, LeavesPhase DEF Leaves
<1>4. CASE /\ NearlyJoined /\ best # {}
           /\ \/ Leaves(<<>>, <<Plain("rechooseafter")>>)
              \/ Leaves(<<>>, <<Plain("prune")>> \o <<Plain("rechooseafter")>>)
  <2>1. /\ DueNext(<<>>, <<Plain("rechooseafter")>>)'
        /\ DueNext(<<>>, <<Plain("prune")>> \o <<Plain("rechooseafter")>>)'
    BY <1>4 DEF DueNext, Choosing
  <2>. QED
    BY <1>1, <1>4, <2>1, LeavesPhase DEF Leaves
<1>. QED
  BY <1>2, <1>3, <1>4 DEF ClearDue

(* An insert, an unstaging and a mark. *)
LEMMA RowStepsKeep ==
  ASSUME Grounds, StoreKept, DoInsert \/ DoUnstage \/ DoMark
  PROVE  StoreKept'
<1>1. /\ agenda # <<>> /\ agenda \in Seq(Entries) /\ halted' = "no" /\ Instead(<<>>)
      /\ tip' = tip /\ journals' = journals /\ best' = best /\ headers \subseteq headers'
  BY DEF DoInsert, DoUnstage, DoMark, At, InsertHeader, UnstageBlock, InsertRefusedHeader,
         StoreKept, Grounds, TypeOK
<1>2. AppliedRowsKept'
  BY <1>1 DEF StoreKept, AppliedRowsKept
<1>3. StepDue
  BY <1>1, PhaseAt DEF StoreKept
<1>4. /\ Joined => Joined'
      /\ NearlyJoined => NearlyJoined'
      /\ \A x : Reaches(x) => Reaches(x)'
  BY <1>1, StoreStill
<1>5. CASE DoInsert
  <2>1. Now.op = "insert" /\ headers' = headers \cup {Subject}
    BY <1>5 DEF DoInsert, At, InsertHeader
  <2>2. PICK bs \in Seq(Blocks), g \in Seq(Entries) :
          /\ bs # <<>> /\ Subject = bs[1] /\ DueNext(bs, g) /\ Led(agenda', Tail(bs), g)
    BY <1>1, <1>3, <2>1 DEF StepDue, InsertDue
  <2>. DEFINE r == Tail(bs)
  <2>3. r \in Seq(Blocks) /\ ToSet(bs) = {bs[1]} \cup ToSet(r) /\ Led(agenda', r, g)
    BY <2>2, InsertsFront
  <2>. HIDE DEF r
  <2>4. Joined' /\ (g = <<>> \/ Moving(bs, g) \/ Putting(g))
    BY <1>4, <2>2 DEF DueNext
  <2>5. Moving(bs, g) => Moving(r, g)'
    <3>1. BestTip' = BestTip
      BY <1>1, <2>1, BestTipKept DEF Grounds, MemoKept
    <3>. QED
      BY <1>4, <2>1, <2>2, <2>3, <3>1 DEF Moving
  <2>6. Putting(g) => Putting(g)'
    BY DEF Putting
  <2>7. DueNext(r, g)'
    BY <2>4, <2>5, <2>6 DEF DueNext
  <2>8. Phase'
    BY <2>3, <2>7 DEF Phase
  <2>. QED
    BY <1>1, <1>2, <2>8 DEF StoreKept
<1>6. CASE DoUnstage
  <2>1. ClearDue
    BY <1>3, <1>6 DEF StepDue, DoUnstage, At
  <2>2. Phase'
    BY <1>1, <1>4, <2>1, ClearLeaves
  <2>. QED
    BY <1>1, <1>2, <2>2 DEF StoreKept
<1>7. CASE DoMark
  <2>. DEFINE b == Subject
  <2>1. MarkDue /\ b \in Blocks
    BY <1>1, <1>3, <1>7, NowType DEF StepDue, DoMark, At, BlockOps
  <2>2. Led(agenda', <<>>, One("remove", b) \o <<Plain("rechoose")>>) /\ Joined /\ b \notin Path(tip)
    BY <1>1, <2>1 DEF MarkDue, Leaves
  <2>. HIDE DEF b
  <2>3. PICK c \in Blocks : c = b
    BY <2>1
  <2>4. DueNext(<<>>, One("remove", c) \o <<Plain("rechoose")>>)'
    BY <1>1, <1>4, <2>2, <2>3 DEF DueNext, Marking
  <2>5. One("remove", c) \o <<Plain("rechoose")>> \in Seq(Entries)
    BY MarkParts
  <2>6. Phase'
    BY <2>2, <2>3, <2>4, <2>5, LeavesPhase
  <2>. QED
    BY <1>1, <1>2, <2>6 DEF StoreKept
<1>. QED
  BY <1>5, <1>6, <1>7

(* A prune below the floor takes no row of the applied chain: below the    *)
(* block the two chains share, the applied chain is the index.              *)
LEMMA PruneKeeps ==
  ASSUME Grounds, StoreKept, DoPrune
  PROVE  StoreKept'
<1>1. /\ agenda # <<>> /\ agenda \in Seq(Entries) /\ halted' = "no" /\ Instead(<<>>)
      /\ tip' = tip /\ journals' = journals /\ best' = best
      /\ headers' = headers \cap (best \cup {b \in Blocks : Height(b) >= ReachFloor})
  BY DEF DoPrune, At, PruneHeaderTree, PruneHeadersBelow, StoreKept, Grounds, TypeOK
<1>2. ClearDue
  BY <1>1, PhaseAt DEF StoreKept, StepDue, DoPrune, At
<1>3. ReachFloor \in Nat /\ tip \in Nodes /\ BestTip \in Nodes /\ best = Path(BestTip)
  BY ReachFloorType, BestTipType DEF Grounds, TypeOK, StoreTypeOK, OneChain
<1>4. NearlyJoined
  <2>1. \A n \in Path(tip) : Height(n) \in Int
    BY <1>3, PathOf
  <2>2. Joined => NearlyJoined
    <3>1. \A n \in best \cap Path(tip) : Height(n) >= ReachFloor => Height(n) >= ReachFloor - 1
      BY <1>3, <2>1
    <3>. QED
      BY <1>3, <3>1 DEF Joined, NearlyJoined
  <2>. QED
    BY <1>2, <2>2 DEF ClearDue
<1>5. ASSUME NEW n \in Path(tip) PROVE n \in headers'
  <2>1. n \in Blocks /\ Height(n) \in 1 .. Height(tip) /\ Height(tip) \in Nat
    BY <1>3, PathOf
  <2>2. n \in headers
    BY <1>5 DEF StoreKept, AppliedRowsKept
  <2>3. CASE Height(n) >= ReachFloor
    BY <1>1, <2>1, <2>2, <2>3
  <2>4. CASE Height(n) < ReachFloor
    <3>1. PICK m \in best \cap Path(tip) : Height(m) >= ReachFloor - 1
      BY <1>3, <1>4, <2>1, <2>4 DEF NearlyJoined
    <3>2. Height(m) \in Nat /\ Height(n) <= Height(m) /\ m \in Nodes
      BY <1>3, <2>1, <2>4, <3>1, PathOf
    <3>3. n \in Path(m) /\ Path(m) \subseteq best
      BY <1>3, <3>1, <3>2, PathOf, PathOne
    <3>. QED
      BY <1>1, <2>2, <3>3
  <2>. QED
    BY <1>3, <2>1, <2>3, <2>4
<1>6. AppliedRowsKept'
  BY <1>1, <1>5 DEF AppliedRowsKept
<1>7. Phase'
  BY <1>1, <1>2, StoreStill, ClearLeaves
<1>. QED
  BY <1>1, <1>6, <1>7 DEF StoreKept

(* A removal off the applied chain: what hangs off it is off it too. *)
LEMMA RemoveKeeps ==
  ASSUME Grounds, OneChain', StoreKept, DoRemove
  PROVE  StoreKept'
<1>. DEFINE b == Subject
<1>1. /\ agenda # <<>> /\ agenda \in Seq(Entries) /\ halted' = "no" /\ Instead(<<>>)
      /\ tip' = tip /\ journals' = journals /\ best' = best \ Subtree(b)
      /\ headers' = headers \ Subtree(b) /\ tip \in Nodes
  BY DEF DoRemove, At, RemoveHeaderSubtree, StoreKept, Grounds, TypeOK, StoreTypeOK
<1>2. RemoveDue
  BY <1>1, PhaseAt DEF StoreKept, StepDue, DoRemove, At
<1>. HIDE DEF b
<1>3. \A n \in Path(tip) : n \notin Subtree(b)
  <2>1. TAKE n \in Path(tip)
  <2>2. b \notin Path(tip) /\ Path(n) \subseteq Path(tip)
    BY <1>1, <1>2, PathOf DEF RemoveDue, b
  <2>. QED
    BY <2>2 DEF Subtree
<1>4. AppliedRowsKept'
  BY <1>1, <1>3 DEF StoreKept, AppliedRowsKept
<1>5. Joined'
  <2>1. Joined
    BY <1>2 DEF RemoveDue
  <2>2. best \cap Path(tip) \subseteq best' \cap Path(tip)
    BY <1>1, <1>3
  <2>. QED
    BY <1>1, <2>1, <2>2, SameFloor DEF Joined
<1>6. DueNext(<<>>, <<Plain("rechoose")>>)' /\ <<Plain("rechoose")>> \in Seq(Entries)
  <2>1. <<Plain("rechoose")>> \in Seq(Entries)
    BY PhaseEntries, OneType DEF StateOps
  <2>. QED
    BY <1>5, <2>1 DEF DueNext, Rechoosing
<1>7. Phase'
  BY <1>1, <1>2, <1>6, LeavesPhase DEF RemoveDue, Leaves
<1>. QED
  BY <1>1, <1>4, <1>7 DEF StoreKept

(* Every row of a path stored, a walk down it finds every row. *)
LEMMA WalkFinds ==
  ASSUME NEW t \in Nodes, Path(t) \subseteq headers, NEW f
  PROVE  RowsDownTo(t, f)
BY PathAt DEF RowsDownTo

(* A move of the best chain to a stored path within reach. *)
LEMMA MoveJoins ==
  ASSUME Grounds, halted = "no", NEW t \in Nodes, RowsDownTo(t, MeetsBest(t)), Reaches(t),
         MoveBestTo(t)
  PROVE  /\ Joined' /\ Instead(<<>>) /\ halted' = "no" /\ best' = Path(t)
         /\ UNCHANGED <<headers, tip, journals>>
<1>1. /\ RewriteBestChain(MeetsBest(t), PathAbove(t, MeetsBest(t)))
      /\ Instead(<<>>) /\ halted' = "no"
  BY DEF MoveBestTo
<1>2. BestTip \in Nodes /\ best = Path(BestTip)
  BY BestTipType DEF Grounds, TypeOK, OneChain
<1>3. best' = Path(t)
  BY <1>1, <1>2, MoveLeavesPath
<1>4. UNCHANGED <<headers, tip, journals>>
  BY <1>1 DEF RewriteBestChain
<1>5. Joined'
  BY <1>3, <1>4, SameFloor DEF Reaches
<1>. QED
  BY <1>1, <1>3, <1>4, <1>5

(* An applied tip is in reach of its own path. *)
LEMMA TipReaches ==
  ASSUME Grounds
  PROVE  Reaches(tip)
<1>1. ReachFloor <= Height(tip) /\ ReachFloor \in Nat /\ tip \in Nodes
  BY FloorIsUnder, ReachFloorType DEF FloorUnderTip, Grounds, TypeOK, StoreTypeOK
<1>2. CASE tip = Root
  BY <1>1, <1>2, TreeTypes DEF Reaches
<1>3. CASE tip # Root
  BY <1>1, <1>3, PathAt DEF Reaches
<1>. QED
  BY <1>2, <1>3

(* A move and a put of the agenda. *)
LEMMA PlacedKeeps ==
  ASSUME Grounds, StoreKept, DoMove \/ DoPut
  PROVE  StoreKept'
<1>1. agenda # <<>> /\ agenda \in Seq(Entries) /\ StepDue
  BY PhaseAt DEF DoMove, DoPut, At, StoreKept, Grounds, TypeOK
<1>2. CASE DoMove
  <2>. DEFINE t == Subject
  <2>1. Now.op = "move" /\ MoveBestTo(t) /\ t \in Nodes
    BY <1>1, <1>2, NowType DEF DoMove, At, BlockOps, Nodes
  <2>2. Path(t) \subseteq headers /\ Reaches(t) /\ Leaves(<<>>, <<>>)
    BY <1>1, <2>1 DEF StepDue, MoveDue
  <2>. HIDE DEF t
  <2>3. Joined' /\ Instead(<<>>) /\ halted' = "no" /\ UNCHANGED <<headers, tip>>
    BY <2>1, <2>2, WalkFinds, MoveJoins DEF StoreKept
  <2>4. AppliedRowsKept' /\ Phase'
    BY <2>2, <2>3, ThroughPhase DEF StoreKept, AppliedRowsKept, Leaves
  <2>. QED
    BY <2>3, <2>4 DEF StoreKept
<1>3. CASE DoPut
  <2>1. /\ Now.op = "put" /\ RewriteBestChain(Height(Now.bs[1]) - 1, ToSet(Now.bs))
        /\ Instead(<<>>) /\ halted' = "no" /\ Now.bs \in Seq(Blocks) /\ Now.bs # <<>>
    BY <1>1, <1>3, NowType DEF DoPut, At, PutOnBest, StoreKept
  <2>2. 1 \in 1 .. Len(agenda) /\ Now = agenda[1]
    BY <1>1 DEF Now
  <2>. DEFINE b == Now.bs[1]
  <2>3. Len(Now.bs) = 1 /\ Parent(b) = BestTip
    BY <2>1, <2>2 DEF Grounds, OneChain, PutsOn
  <2>4. b \in Blocks /\ ToSet(Now.bs) = {b}
    BY <2>1, <2>3 DEF ToSet
  <2>5. best = Path(Parent(b)) /\ RewriteBestChain(Height(b) - 1, {b})
    BY <2>1, <2>3, <2>4 DEF Grounds, OneChain
  <2>. HIDE DEF b
  <2>6. best' = Path(b) /\ best \subseteq best'
    BY <2>4, <2>5, PutLeavesPath, PathEnd
  <2>7. UNCHANGED <<headers, tip, journals>>
    BY <2>1 DEF RewriteBestChain
  <2>8. Joined /\ Leaves(<<>>, <<>>)
    BY <1>1, <2>1 DEF StepDue, PutDue
  <2>9. Joined'
    BY <2>6, <2>7, <2>8, SameFloor DEF Joined
  <2>10. AppliedRowsKept' /\ Phase'
    BY <2>1, <2>7, <2>8, <2>9, ThroughPhase DEF StoreKept, AppliedRowsKept, Leaves
  <2>. QED
    BY <2>1, <2>10 DEF StoreKept
<1>. QED
  BY <1>2, <1>3

(* The choice after an apply off the index. *)
LEMMA ChoiceAfterKeeps ==
  ASSUME Grounds, StoreKept, DoRechooseAfterApply
  PROVE  StoreKept'
<1>1. agenda # <<>> /\ agenda \in Seq(Entries) /\ Now.op = "rechooseafter" /\ RechooseAfterApply
  BY DEF DoRechooseAfterApply, At, Grounds, TypeOK
<1>2. NearlyJoined /\ best # {} /\ Leaves(<<>>, <<>>)
  BY <1>1, PhaseAt DEF StoreKept, StepDue, ChoiceAfterDue
<1>3. /\ tip \in Nodes /\ BestTip \in Nodes /\ best = Path(BestTip) /\ headers \subseteq Blocks
      /\ ReachFloor \in Nat /\ halted = "no" /\ Path(tip) \subseteq headers
  BY BestTipType, ReachFloorType
     DEF Grounds, TypeOK, StoreTypeOK, OneChain, StoreKept, AppliedRowsKept
<1>4. ASSUME NEW t \in Nodes, MoveBestTo(t), Path(t) \subseteq headers, Reaches(t)
      PROVE  StoreKept'
  <2>1. Joined' /\ Instead(<<>>) /\ halted' = "no" /\ UNCHANGED <<headers, tip>>
    BY <1>3, <1>4, WalkFinds, MoveJoins
  <2>2. AppliedRowsKept' /\ Phase'
    BY <1>2, <1>3, <2>1, ThroughPhase DEF AppliedRowsKept, Leaves
  <2>. QED
    BY <2>1, <2>2 DEF StoreKept
<1>5. ASSUME Joined, Instead(<<>>), UNCHANGED <<storeVars, halted>>
      PROVE  StoreKept'
  <2>1. UNCHANGED <<headers, best, tip, journals>>
    BY <1>5 DEF storeVars
  <2>2. Joined'
    BY <1>5, <2>1, StoreStill
  <2>3. AppliedRowsKept' /\ Phase'
    BY <1>2, <1>3, <1>5, <2>1, <2>2, ThroughPhase DEF AppliedRowsKept, Leaves
  <2>. QED
    BY <1>3, <1>5, <2>3 DEF StoreKept
<1>6. CASE MoveBestTo(tip)
  BY <1>3, <1>4, <1>6, TipReaches
<1>7. ASSUME NEW t \in AfterApplyCandidates, t # tip, MoveBestTo(t) PROVE StoreKept'
  <2>1. t \in headers /\ t \in Nodes /\ ReachableFromApplied(t)
    BY <1>3, <1>7 DEF AfterApplyCandidates, HeadersHeavierThan, Nodes
  <2>. DEFINE m == MeetsApplied(t)
  <2>2. m \in 0 .. Height(t) /\ Height(t) \in Nat /\ (m # 0 => Chain[t][m] \in Path(tip))
    BY <2>1, MeetsAt, PathAt
  <2>3. m >= ReachFloor /\ \A h \in 1 .. Height(t) : h >= m => Chain[t][h] \in headers
    BY <2>1 DEF ReachableFromApplied, RowsDownTo
  <2>. HIDE DEF m
  <2>4. Reaches(t)
    <3>1. CASE m = 0
      BY <1>3, <2>3, <3>1 DEF Reaches
    <3>2. CASE m # 0
      <4>1. m \in 1 .. Height(t)
        BY <2>2, <3>2
      <4>2. Chain[t][m] \in Path(t) /\ Height(Chain[t][m]) = m
        BY <2>1, <4>1, PathAt
      <4>. QED
        BY <2>2, <2>3, <3>2, <4>2 DEF Reaches
    <3>. QED
      BY <3>1, <3>2
  <2>5. Path(t) \subseteq headers
    <3>. SUFFICES ASSUME NEW c \in Path(t) PROVE c \in headers
      OBVIOUS
    <3>1. Height(c) \in 1 .. Height(t) /\ c = Chain[t][Height(c)]
      BY <2>1, PathOf
    <3>2. CASE Height(c) >= m
      BY <2>3, <3>1, <3>2
    <3>3. CASE Height(c) < m
      <4>. DEFINE d == Chain[t][m]
      <4>1. m \in 1 .. Height(t) /\ m # 0
        BY <2>2, <3>1, <3>3
      <4>2. d \in Path(t) /\ Height(d) = m /\ d \in Path(tip)
        BY <2>1, <2>2, <4>1, PathAt
      <4>. HIDE DEF d
      <4>3. c \in Path(d)
        BY <2>1, <2>2, <3>1, <3>3, <4>2, PathOne
      <4>4. Path(d) \subseteq Path(tip)
        BY <1>3, <4>2, PathOf
      <4>. QED
        BY <1>3, <4>3, <4>4
    <3>. QED
      BY <2>2, <3>1, <3>2, <3>3
  <2>. QED
    BY <1>4, <1>7, <2>1, <2>4, <2>5
<1>8. ASSUME tip = Root \/ BestTip = Root \/ tip \in best \/ BestInReach PROVE Joined
  <2>1. BestTip # Root
    BY <1>2, <1>3, PathAt
  <2>2. tip \in best \cup {Root} => Joined
    BY TipIsJoined DEF TipJoins, Grounds, TypeOK
  <2>3. BestInReach => Joined
    <3>1. \A h \in 1 .. Height(tip) : Chain[tip][h] \in Path(tip) /\ Height(Chain[tip][h]) = h
      BY <1>3, PathAt
    <3>. QED
      BY <1>3, <3>1 DEF BestInReach, Joined
  <2>. QED
    BY <1>8, <2>1, <2>2, <2>3
<1>9. \/ /\ tip = Root \/ BestTip = Root \/ tip \in best \/ BestInReach
         /\ Instead(<<>>) /\ UNCHANGED <<storeVars, halted>>
      \/ \E t \in AfterApplyCandidates \cup {tip} : MoveBestTo(t)
  BY <1>1 DEF RechooseAfterApply, Heaviest
<1>. QED
  BY <1>5, <1>6, <1>7, <1>8, <1>9

(* The choice after a removal. *)
LEMMA RechooseKeeps ==
  ASSUME Grounds, StoreKept, DoRechoose
  PROVE  StoreKept'
<1>1. agenda # <<>> /\ agenda \in Seq(Entries) /\ Now.op = "rechoose" /\ RechooseBestChain
  BY DEF DoRechoose, At, Grounds, TypeOK
<1>2. Joined /\ Leaves(<<>>, <<>>)
  BY <1>1, PhaseAt DEF StoreKept, StepDue
<1>3. /\ tip \in Nodes /\ BestTip \in Nodes /\ best = Path(BestTip) /\ headers \subseteq Blocks
      /\ ReachFloor \in Nat /\ halted = "no" /\ Path(tip) \subseteq headers
  BY BestTipType, ReachFloorType
     DEF Grounds, TypeOK, StoreTypeOK, OneChain, StoreKept, AppliedRowsKept
<1>4. CASE Instead(<<>>) /\ UNCHANGED <<storeVars, halted>>
  <2>1. UNCHANGED <<headers, best, tip, journals>>
    BY <1>4 DEF storeVars
  <2>2. Joined'
    BY <1>2, <2>1, StoreStill
  <2>3. AppliedRowsKept' /\ Phase'
    BY <1>2, <1>3, <1>4, <2>1, <2>2, ThroughPhase DEF AppliedRowsKept, Leaves
  <2>. QED
    BY <1>3, <1>4, <2>3 DEF StoreKept
<1>5. ASSUME NEW t \in HeadersHeavierThan(Work[BestTip]), ReachableFromBest(t), MoveBestTo(t)
      PROVE  StoreKept'
  <2>1. t \in headers /\ t \in Nodes /\ Work[t] > Work[BestTip]
    BY <1>3, <1>5 DEF HeadersHeavierThan, Nodes
  <2>2. t \notin best
    <3>1. t \in Path(BestTip) => Work[t] <= Work[BestTip] /\ Work[t] \in Nat /\ Work[BestTip] \in Nat
      BY <1>3, PathHeavier
    <3>. QED
      BY <1>3, <2>1, <3>1
  <2>. DEFINE m == MeetsBest(t)
  <2>3. m >= ReachFloor /\ RowsDownTo(t, m)
    BY <1>5, <2>2 DEF ReachableFromBest
  <2>4. m \in 0 .. Height(t) /\ Height(t) \in Nat /\ (m # 0 => Chain[t][m] \in best)
    BY <2>1, MeetsAt, PathAt
  <2>. HIDE DEF m
  <2>5. Reaches(t)
    <3>1. CASE m = 0 \/ ReachFloor = 0
      BY <1>3, <2>3, <3>1 DEF Reaches
    <3>2. CASE m # 0 /\ ReachFloor # 0
      <4>. DEFINE c == Chain[t][m]
      <4>1. m \in 1 .. Height(t)
        BY <2>4, <3>2
      <4>2. c \in Path(t) /\ Height(c) = m /\ c \in Path(BestTip)
        BY <1>3, <2>1, <2>4, <3>2, <4>1, PathAt
      <4>. HIDE DEF c
      <4>3. PICK n \in best \cap Path(tip) : Height(n) >= ReachFloor
        BY <1>2, <3>2 DEF Joined
      <4>4. n \in Path(BestTip) /\ Height(n) \in Nat /\ n \in Nodes /\ c \in Nodes
        BY <1>3, <4>2, <4>3, PathOf
      <4>5. CASE m <= Height(n)
        <5>1. c \in Path(n) /\ Path(n) \subseteq Path(tip)
          BY <1>3, <4>2, <4>3, <4>4, <4>5, PathOf, PathOne
        <5>. QED
          BY <2>3, <4>2, <5>1 DEF Reaches
      <4>6. CASE ~(m <= Height(n))
        <5>1. n \in Path(c) /\ Path(c) \subseteq Path(t)
          BY <1>3, <2>1, <2>4, <4>2, <4>4, <4>6, PathOf, PathOne
        <5>. QED
          BY <4>3, <5>1 DEF Reaches
      <4>. QED
        BY <4>5, <4>6
    <3>. QED
      BY <3>1, <3>2
  <2>6. Joined' /\ Instead(<<>>) /\ halted' = "no" /\ UNCHANGED <<headers, tip>>
    BY <1>3, <1>5, <2>1, <2>3, <2>5, MoveJoins DEF m
  <2>7. AppliedRowsKept' /\ Phase'
    BY <1>2, <1>3, <2>6, ThroughPhase DEF AppliedRowsKept, Leaves
  <2>. QED
    BY <2>6, <2>7 DEF StoreKept
<1>. QED
  BY <1>1, <1>4, <1>5 DEF RechooseBestChain, Heaviest

(* The bind of a body is quiet, alone and before what is quiet. *)
LEMMA BindQuiet ==
  ASSUME NEW p \in Peers \cup {Self}, NEW b \in Blocks
  PROVE  /\ Bind(p, b) \in Seq(Entries) /\ Quiet(Bind(p, b))
         /\ \A q \in Seq(Entries) :
              Quiet(q) => Bind(p, b) \o q \in Seq(Entries) /\ Quiet(Bind(p, b) \o q)
<1>1. Bind(p, b) \in Seq(Entries)
  BY BindType
<1>2. Quiet(Bind(p, b))
  <2>. DEFINE x == Do("bind", p, <<b>>)
  <2>1. x.op \in QuietOps
    BY DEF Do, QuietOps
  <2>. HIDE DEF x
  <2>2. Quiet(<<x>>)
    <3>1. \A i \in 1 .. 1 : i = 1
      OBVIOUS
    <3>. QED
      BY <2>1, <3>1 DEF Quiet
  <2>. QED
    BY <2>2 DEF Bind, x
<1>. QED
  BY <1>1, <1>2, QuietTogether, ConcatType

(* So is a drain of the extension. *)
LEMMA DrainQuiet == <<Plain("drain")>> \in Seq(Entries) /\ Quiet(<<Plain("drain")>>)
<1>. DEFINE d == Plain("drain")
<1>1. d \in Entries /\ d.op \in QuietOps
  BY PhaseEntries DEF StateOps, QuietOps
<1>. HIDE DEF d
<1>2. <<d>> \in Seq(Entries) /\ Quiet(<<d>>)
  <2>1. \A i \in 1 .. 1 : i = 1
    OBVIOUS
  <2>. QED
    BY <1>1, <2>1 DEF Quiet
<1>. QED
  BY <1>2 DEF d

(* A header stored on the best tip is put on the index next; one stored for *)
(* a body in hand is only inserted.                                         *)
LEMMA StoresPhase ==
  ASSUME Joined', NEW b \in Blocks, NEW q \in Seq(Entries), Quiet(q),
         agenda' = StoreHeader(b, CanExtendAppliedTip(b)) \o q
  PROVE  Phase'
<1>1. <<b>> \in Seq(Blocks) /\ <<>> \in Seq(Entries) /\ <<>> \in Seq(Blocks)
  BY EmptyType
<1>2. One("put", b) \in Seq(Entries)
  BY PhaseEntries, OneType DEF One
<1>3. CASE Parent(b) = BestTip
  <2>1. agenda' = (Inserts(<<b>>) \o One("put", b)) \o q
    BY <1>3 DEF StoreHeader, One
  <2>2. Led(agenda', <<b>>, One("put", b))
    BY <1>1, <1>2, <2>1, LedStart
  <2>3. PICK c \in Blocks : c = b
    OBVIOUS
  <2>4. DueNext(<<c>>, One("put", c))'
    BY DEF DueNext, Putting
  <2>5. <<c>> \in Seq(Blocks)
    OBVIOUS
  <2>. QED
    BY <1>1, <1>2, <2>2, <2>3, <2>4 DEF Phase
<1>4. CASE Parent(b) # BestTip /\ CanExtendAppliedTip(b)
  <2>1. agenda' = Inserts(<<b>>) \o q
    BY <1>4 DEF StoreHeader
  <2>2. Led(agenda', <<b>>, <<>>)
    BY <1>1, <2>1, LedStart
  <2>3. PICK c \in Blocks : c = b
    OBVIOUS
  <2>4. DueNext(<<c>>, <<>>)'
    BY DEF DueNext
  <2>. QED
    BY <1>1, <2>2, <2>3, <2>4 DEF Phase
<1>5. CASE Parent(b) # BestTip /\ ~CanExtendAppliedTip(b)
  <2>1. agenda' = q
    <3>1. <<>> \o q = q
      BY ConcatEmptySeq
    <3>. QED
      BY <1>5, <3>1 DEF StoreHeader
  <2>. QED
    BY <2>1, LedStart, ThroughPhase
<1>. QED
  BY <1>3, <1>4, <1>5

(* A gossiped block, from the wire or from the pending map. *)
LEMMA GossipPhase ==
  ASSUME Joined', NEW p \in Peers \cup {Self}, NEW b \in Blocks, NEW pend,
         NEW rest \in Seq(Entries), Quiet(rest), GossipedBody(p, b, pend, rest)
  PROVE  Phase'
<1>. DEFINE q == Bind(p, b) \o rest
            stores == StoreHeader(b, CanExtendAppliedTip(b))
<1>1. q \in Seq(Entries) /\ Quiet(q) /\ Bind(p, b) \in Seq(Entries)
  BY BindQuiet
<1>2. stores \in Seq(Entries)
  BY StoreHeaderType
<1>3. (stores \o Bind(p, b)) \o rest = stores \o q
  <2>. DEFINE bind == Bind(p, b)
  <2>1. bind \in Seq(Entries)
    BY <1>1
  <2>. HIDE DEF stores, bind
  <2>2. (stores \o bind) \o rest = stores \o (bind \o rest)
    BY <1>2, <2>1, ThreeParts
  <2>. QED
    BY <2>2 DEF bind
<1>4. agenda' = rest \/ agenda' = q \/ agenda' = stores \o q
  BY <1>3 DEF GossipedBody
<1>. HIDE DEF q
<1>5. \A t \in Seq(Entries) : Quiet(t) /\ agenda' = t => Phase'
  BY LedStart, ThroughPhase
<1>6. agenda' = stores \o q => Phase'
  BY <1>1, StoresPhase
<1>. QED
  BY <1>1, <1>4, <1>5, <1>6

(* Quiet entries at the end of what is due may wait their turn. *)
LEMMA QuietEnd ==
  ASSUME NEW a, NEW bs \in Seq(Blocks), NEW s \in Seq(Entries), NEW u \in Seq(Entries), Quiet(u),
         Led(a, bs, s \o u)
  PROVE  Led(a, bs, s)
<1>1. PICK t \in Seq(Entries) : Quiet(t) /\ a = Inserts(bs) \o ((s \o u) \o t)
  BY DEF Led
<1>2. (s \o u) \o t = s \o (u \o t)
  BY ThreeParts
<1>3. u \o t \in Seq(Entries) /\ Quiet(u \o t)
  BY <1>1, QuietTogether, ConcatType
<1>. QED
  BY <1>1, <1>2, <1>3 DEF Led

(* What follows an applied block. *)
LEMMA AppliedParts ==
  ASSUME NEW b \in Blocks, NEW z \in Seq(Entries)
  PROVE  LET s == <<Do("unstage", Self, <<b>>), Plain("prune")>>
             u == One("unstage", b) \o <<Plain("prune")>>
         IN  /\ s = u /\ u \in Seq(Entries)
             /\ s \o z = One("unstage", b) \o (<<Plain("prune")>> \o z)
<1>1. Do("unstage", Self, <<b>>) \in Entries /\ Plain("prune") \in Entries
  BY PhaseEntries DEF BlockOps, StateOps
<1>. DEFINE x == Do("unstage", Self, <<b>>)
            y == Plain("prune")
<1>. HIDE DEF x, y
<1>2. ASSUME x \in Entries, y \in Entries
      PROVE  /\ <<x, y>> = <<x>> \o <<y>> /\ <<x>> \o <<y>> \in Seq(Entries)
             /\ <<x, y>> \o z = <<x>> \o (<<y>> \o z)
  <2>1. <<x>> \in Seq(Entries) /\ <<y>> \in Seq(Entries)
    BY <1>2
  <2>. DEFINE s == <<x>>
              t == <<y>>
              u == s \o t
              v == <<x, y>>
  <2>2. Len(s) = 1 /\ s[1] = x /\ Len(t) = 1 /\ t[1] = y /\ s \in Seq(Entries) /\ t \in Seq(Entries)
    BY <1>2
  <2>3. v \in Seq(Entries) /\ Len(v) = 2 /\ v[1] = x /\ v[2] = y
    BY <1>2
  <2>. HIDE DEF s, t
  <2>4. /\ u \in Seq(Entries) /\ Len(u) = Len(s) + Len(t)
        /\ \A i \in 1 .. Len(s) : u[i] = s[i]
        /\ \A i \in 1 .. Len(t) : u[Len(s) + i] = t[i]
    BY <2>2, ConcatParts
  <2>. HIDE DEF u, v
  <2>5. Len(u) = 2 /\ u[1] = x /\ u[2] = y
    <3>1. 1 \in 1 .. Len(s) /\ 1 \in 1 .. Len(t) /\ Len(s) + 1 = 2
      BY <2>2
    <3>2. u[Len(s) + 1] = t[1] /\ u[1] = s[1]
      BY <2>4, <3>1
    <3>. QED
      BY <2>2, <2>4, <3>1, <3>2
  <2>6. \A i \in 1 .. 2 : u[i] = v[i]
    <3>1. \A i \in 1 .. 2 : i = 1 \/ i = 2
      OBVIOUS
    <3>. QED
      BY <2>3, <2>5, <3>1
  <2>7. u = v
    BY <2>3, <2>4, <2>5, <2>6, SeqEqual
  <2>8. (s \o t) \o z = s \o (t \o z)
    BY <2>2, ThreeParts
  <2>. QED
    BY <2>4, <2>7, <2>8 DEF u, v, s, t
<1>. QED
  BY <1>1, <1>2 DEF x, y, One

(* Binding a body and draining the extension leave the store's chains alone. *)
LEMMA QuietStepsKeep ==
  ASSUME Grounds, StoreKept, DoBind \/ DoDrain \/ DoPass
  PROVE  StoreKept'
<1>1. /\ agenda # <<>> /\ agenda \in Seq(Entries) /\ Now.op \in QuietOps /\ halted' = "no"
      /\ headers' = headers /\ best' = best /\ tip' = tip /\ journals' = journals
  BY DEF DoBind, DoDrain, DoPass, At, QuietOps, Grounds, TypeOK, StoreKept, StageBlock, storeVars
<1>2. QuietDue
  BY <1>1, PhaseAt DEF StoreKept, StepDue
<1>3. Joined' /\ AppliedRowsKept'
  BY <1>1, <1>2, StoreStill DEF QuietDue, StoreKept, AppliedRowsKept
<1>4. \A s, u \in Seq(Entries) : Quiet(u) /\ Instead(s \o u) => Led(agenda', <<>>, s)
  BY <1>2 DEF QuietDue, Leaves
<1>5. /\ <<>> \in Seq(Entries) /\ Quiet(<<>>) /\ <<>> \o <<>> = <<>>
      /\ \A s \in Seq(Entries) : s \o <<>> = s /\ <<>> \o s = s
  BY EmptyType, ConcatEmptySeq DEF Quiet
<1>6. Instead(<<>>) => StoreKept'
  BY <1>1, <1>3, <1>4, <1>5, ThroughPhase DEF StoreKept
<1>7. CASE DoBind
  <2>. DEFINE b == Subject
              own == IF Now.by = Self THEN <<Plain("drain"), Plain("pass"), Plain("drain")>>
                     ELSE <<>>
  <2>1. b \in Blocks
    BY <1>1, <1>7, NowType DEF DoBind, At, BlockOps
  <2>2. own \in Seq(Entries) /\ Quiet(own)
    <3>1. Plain("drain") \in Entries /\ Plain("pass") \in Entries
          /\ Plain("drain").op = "drain" /\ Plain("pass").op = "pass"
      BY PhaseEntries DEF StateOps
    <3>. DEFINE d == Plain("drain")
                p == Plain("pass")
    <3>. HIDE DEF d, p
    <3>2. <<d, p, d>> \in Seq(Entries) /\ Quiet(<<d, p, d>>)
      <4>1. d \in Entries /\ p \in Entries /\ d.op \in QuietOps /\ p.op \in QuietOps
        BY <3>1 DEF d, p, QuietOps
      <4>2. \A i \in 1 .. 3 : i = 1 \/ i = 2 \/ i = 3
        OBVIOUS
      <4>. QED
        BY <4>1, <4>2 DEF Quiet
    <3>. QED
      BY <1>5, <3>2 DEF d, p
  <2>3. \/ Instead(<<>>)
        \/ b \in best /\ Instead(<<>> \o own)
        \/ b \notin best /\ Binds(b) /\ Instead(One("inhand", b) \o own)
    BY <1>7 DEF DoBind, One
  <2>. HIDE DEF b, own
  <2>4. CASE b \in best /\ Instead(<<>> \o own)
    <3>1. Led(agenda', <<>>, <<>>)
      BY <1>4, <1>5, <2>2, <2>4
    <3>. QED
      BY <1>1, <1>3, <3>1, ThroughPhase DEF StoreKept
  <2>5. CASE b \notin best /\ Binds(b) /\ Instead(One("inhand", b) \o own)
    <3>1. One("inhand", b) \in Seq(Entries)
      BY <2>1, PhaseEntries, OneType DEF One, BlockOps
    <3>2. Led(agenda', <<>>, One("inhand", b))
      BY <1>4, <2>2, <2>5, <3>1
    <3>3. b \in headers /\ Parent(b) = tip /\ BestTip # Root
      BY <2>5 DEF Binds, CanExtendAppliedTip
    <3>4. best # {}
      <4>1. BestTip \in Path(BestTip)
        BY <3>3, BestTipType, PathAt DEF Grounds, TypeOK
      <4>. QED
        BY <4>1 DEF Grounds, OneChain
    <3>5. PICK c \in Blocks : c = b
      BY <2>1
    <3>6. InHand(One("inhand", c))'
      BY <1>1, <3>3, <3>4, <3>5 DEF InHand
    <3>7. DueNext(<<>>, One("inhand", c))'
      BY <1>3, <3>6 DEF DueNext
    <3>8. Phase'
      BY <3>1, <3>2, <3>5, <3>7, LeavesPhase
    <3>. QED
      BY <1>1, <1>3, <3>8 DEF StoreKept
  <2>. QED
    BY <1>6, <2>3, <2>4, <2>5
<1>8. CASE DoDrain
  <2>1. Instead(<<>>) \/ \E b \in NextToExtend : Instead(One("extend", b))
    BY <1>8 DEF DoDrain, One
  <2>2. ASSUME NEW b \in NextToExtend, Instead(One("extend", b)) PROVE StoreKept'
    <3>1. b \in best /\ Height(b) = Height(tip) + 1 /\ b \in Blocks
      BY DEF NextToExtend, Grounds, TypeOK, StoreTypeOK
    <3>2. One("extend", b) \in Seq(Entries)
      BY <3>1, PhaseEntries, OneType DEF One, BlockOps
    <3>3. Led(agenda', <<>>, One("extend", b))
      BY <1>4, <1>5, <2>2, <3>2
    <3>4. PICK c \in Blocks : c = b
      BY <3>1
    <3>5. Extending(One("extend", c))'
      BY <1>1, <3>1, <3>4 DEF Extending
    <3>6. DueNext(<<>>, One("extend", c))'
      BY <1>3, <3>5 DEF DueNext
    <3>7. Phase'
      BY <3>2, <3>3, <3>4, <3>6, LeavesPhase
    <3>. QED
      BY <1>1, <1>3, <3>7 DEF StoreKept
  <2>. QED
    BY <1>6, <2>1, <2>2
<1>9. CASE DoPass
  <2>1. CASE Instead(<<>>)
    BY <1>6, <2>1
  <2>2. ASSUME NEW p \in PassCandidates,
               GossipedBody(p, pending[p], [pending EXCEPT ![p] = None], agenda)
        PROVE  StoreKept'
    <3>1. p \in Peers \cup {Self} /\ pending[p] \in Blocks
      BY DEF PassCandidates, Grounds, TypeOK
    <3>3. Quiet(agenda)
      BY <1>2 DEF QuietDue
    <3>. QED
      BY <1>1, <1>3, <2>2, <3>1, <3>3, GossipPhase DEF StoreKept
  <2>. QED
    BY <1>9, <2>1, <2>2 DEF DoPass
<1>. QED
  BY <1>7, <1>8, <1>9

\* The floor is a natural number.
FloorIsNatural == StoreTypeOK => ReachFloor \in Nat

(* So it is, now and after a step. *)
LEMMA FloorNatural == FloorIsNatural
BY ReachFloorType DEF FloorIsNatural

(* And after a step. *)
LEMMA FloorNaturalNext == FloorIsNatural'
BY FloorNatural, PTL

(* A block applied on the tip: from the index, the two chains go on         *)
(* together; off it, they part one height lower under a floor one higher.   *)
LEMMA ApplyStepsKeep ==
  ASSUME Grounds, StoreTypeOK', JournalsUnbroken', StoreKept, DoExtend \/ DoInHand
  PROVE  StoreKept'
<1>. DEFINE b == Subject
<1>1. /\ agenda # <<>> /\ agenda \in Seq(Entries) /\ halted' = "no" /\ tip \in Nodes
      /\ Now.op \in {"extend", "inhand"} /\ StepDue /\ b \in Blocks /\ best \subseteq headers
  <2>1. /\ agenda # <<>> /\ agenda \in Seq(Entries) /\ halted' = "no" /\ tip \in Nodes
        /\ Now.op \in {"extend", "inhand"} /\ best \subseteq headers
    BY DEF DoExtend, DoInHand, At, ApplyStagedBlock, Grounds, TypeOK, StoreTypeOK, StoreKept,
           MemoKept
  <2>. QED
    BY <2>1, PhaseAt, NowType DEF StoreKept, BlockOps
<1>2. /\ Joined /\ \A s \in Seq(Entries) : Leaves(s, s)
      /\ Height(b) = Height(tip) + 1
  <2>1. Now.op = "extend" => ExtendDue
    BY <1>1 DEF StepDue
  <2>2. Now.op = "inhand" => InHandDue
    BY <1>1 DEF StepDue
  <2>3. InHandDue => Height(b) = Height(tip) + 1
    BY <1>1, HeightOfParent DEF InHandDue
  <2>. QED
    BY <1>1, <2>1, <2>2, <2>3 DEF InHandDue, ExtendDue
<1>3. /\ Now.op = "extend" => b \in best
      /\ Now.op = "inhand" => b \in headers /\ Parent(b) = tip /\ best # {}
  BY <1>1 DEF StepDue, ExtendDue, InHandDue
<1>4. b \notin Path(tip)
  <2>1. b \in Path(tip) => Height(b) \in 1 .. Height(tip) /\ Height(tip) \in Nat
    BY <1>1, PathOf
  <2>. QED
    BY <1>2, <2>1
<1>5. \/ /\ ~ConsensusRefused(b) /\ CommitBlock(b)
         /\ \/ Now.op = "extend"
               /\ Instead(<<Do("unstage", Self, <<b>>), Plain("prune")>> \o <<Plain("drain")>>)
            \/ Now.op = "inhand"
               /\ Instead(<<Do("unstage", Self, <<b>>), Plain("prune")>> \o <<Plain("rechooseafter")>>)
      \/ Instead(MarkRefused(b)) /\ UNCHANGED storeVars
      \/ Instead(One("unstage", b)) /\ UNCHANGED storeVars
  BY DEF DoExtend, DoInHand, ApplyStagedBlock, At, One
<1>. HIDE DEF b
<1>6. PICK c \in Blocks : c = b
  BY <1>1
<1>7. CASE UNCHANGED storeVars
  <2>1. UNCHANGED <<headers, best, tip, journals>>
    BY <1>7 DEF storeVars
  <2>2. Joined' /\ AppliedRowsKept'
    BY <1>2, <2>1, StoreStill DEF StoreKept, AppliedRowsKept
  <2>3. CASE Instead(MarkRefused(b))
    <3>1. DueNext(<<>>, MarkRefused(c))'
      BY <1>4, <1>6, <2>1, <2>2 DEF DueNext, Marking
    <3>2. MarkRefused(c) \in Seq(Entries)
      BY MarkRefusedType
    <3>. QED
      BY <1>1, <1>2, <1>6, <2>2, <2>3, <3>1, <3>2, LeavesPhase DEF StoreKept, Leaves
  <2>4. CASE Instead(One("unstage", b))
    <3>1. DueNext(<<>>, One("unstage", c))'
      BY <2>2 DEF DueNext, Clearing
    <3>2. One("unstage", c) \in Seq(Entries)
      BY PhaseEntries, OneType DEF One, BlockOps
    <3>. QED
      BY <1>1, <1>2, <1>6, <2>2, <2>4, <3>1, <3>2, LeavesPhase DEF StoreKept, Leaves
  <2>5. CASE ~ConsensusRefused(b) /\ CommitBlock(b)
    <3>1. tip' = b /\ tip' = tip
      BY <2>1, <2>5 DEF CommitBlock
    <3>. QED
      BY <1>1, <1>2, <3>1, PathAt
  <2>. QED
    BY <1>5, <2>3, <2>4, <2>5
<1>8. CASE ~ConsensusRefused(b) /\ CommitBlock(b)
  <2>1. tip' = b /\ best' = best /\ headers' = headers /\ Parent(b) = tip
    BY <1>8 DEF CommitBlock, ConsensusRefused
  <2>2. Path(b) = Path(tip) \cup {b}
    BY <1>1, <2>1, PathEnd
  <2>3. AppliedRowsKept'
    BY <1>1, <1>3, <2>1, <2>2 DEF StoreKept, AppliedRowsKept
  <2>. DEFINE unstage == One("unstage", b)
              prune == <<Plain("prune")>>
              drain == <<Plain("drain")>>
              choose == <<Plain("rechooseafter")>>
              clear == unstage \o prune
  <2>4. /\ prune \in Seq(Entries) /\ drain \in Seq(Entries) /\ choose \in Seq(Entries)
        /\ prune \o choose \in Seq(Entries) /\ unstage \in Seq(Entries)
        /\ Plain("drain").op \in QuietOps
    BY <1>1, PhaseEntries, OneType, ConcatType DEF One, BlockOps, StateOps, QuietOps
  <2>5. Quiet(drain)
    BY DrainQuiet
  <2>6. /\ <<Do("unstage", Self, <<b>>), Plain("prune")>> \o drain = clear \o drain
        /\ <<Do("unstage", Self, <<b>>), Plain("prune")>> \o choose = unstage \o (prune \o choose)
        /\ clear \in Seq(Entries)
    BY <1>1, <2>4, AppliedParts
  <2>7. /\ clear \o drain \in Seq(Entries) /\ unstage \o (prune \o choose) \in Seq(Entries)
        /\ <<>> \in Seq(Blocks)
    BY <2>4, <2>6, ConcatType, EmptyType
  <2>8. CASE /\ Now.op = "extend"
             /\ Instead(<<Do("unstage", Self, <<b>>), Plain("prune")>> \o drain)
    <3>1. Led(agenda', <<>>, clear \o drain)
      BY <1>2, <2>6, <2>7, <2>8 DEF Leaves
    <3>2. Led(agenda', <<>>, clear)
      <4>. DEFINE a == agenda'
      <4>. HIDE DEF a, clear, drain
      <4>1. Led(a, <<>>, clear \o drain) => Led(a, <<>>, clear)
        BY <2>4, <2>5, <2>6, <2>7, QuietEnd
      <4>. QED
        BY <3>1, <4>1 DEF a
    <3>3. Joined'
      BY <1>3, <2>1, <2>8, TipIsJoinedNext DEF TipJoins
    <3>4. DueNext(<<>>, One("unstage", c) \o <<Plain("prune")>>)'
      BY <3>3 DEF DueNext, Clearing
    <3>5. Phase'
      BY <1>6, <2>6, <3>2, <3>4, LeavesPhase
    <3>. QED
      BY <1>1, <2>3, <3>5 DEF StoreKept
  <2>9. CASE /\ Now.op = "inhand"
             /\ Instead(<<Do("unstage", Self, <<b>>), Plain("prune")>> \o choose)
    <3>1. Led(agenda', <<>>, unstage \o (prune \o choose))
      BY <1>2, <2>6, <2>7, <2>9 DEF Leaves
    <3>2. NearlyJoined'
      <4>1. ReachFloor' <= ReachFloor + 1 /\ ReachFloor \in Nat
        BY <1>1, <1>8, <2>1, FloorStep, ReachFloorType DEF Grounds, TypeOK
      <4>2. ReachFloor' \in Int
        BY FloorNaturalNext DEF FloorIsNatural
      <4>3. CASE ReachFloor = 0
        BY <4>1, <4>2, <4>3 DEF NearlyJoined
      <4>4. ASSUME NEW n \in best \cap Path(tip), Height(n) >= ReachFloor PROVE NearlyJoined'
        <5>1. n \in best' \cap Path(b) /\ Height(n) \in Nat
          BY <1>1, <2>1, <2>2, PathOf
        <5>2. Height(n) >= ReachFloor' - 1
          BY <4>1, <4>2, <4>4, <5>1
        <5>. QED
          BY <2>1, <5>1, <5>2 DEF NearlyJoined
      <4>. QED
        BY <1>2, <4>3, <4>4 DEF Joined
    <3>3. best' # {}
      BY <1>3, <2>1, <2>9
    <3>4. Choosing(One("unstage", c) \o (<<Plain("prune")>> \o <<Plain("rechooseafter")>>))'
      BY DEF Choosing
    <3>5. DueNext(<<>>, One("unstage", c) \o (<<Plain("prune")>> \o <<Plain("rechooseafter")>>))'
      BY <3>2, <3>3, <3>4 DEF DueNext
    <3>6. Phase'
      BY <1>6, <2>7, <3>1, <3>5, LeavesPhase
    <3>. QED
      BY <1>1, <2>3, <3>6 DEF StoreKept
  <2>10. CASE UNCHANGED storeVars
    BY <1>7, <2>10
  <2>. QED
    BY <1>5, <1>8, <2>8, <2>9, <2>10
<1>. QED
  BY <1>5, <1>7, <1>8

(* The switch finds its fork point: the highest block of both chains below *)
(* the applied tip, at or above the reach floor, or the root.               *)
LEMMA ForkFound ==
  ASSUME StoreTypeOK, OneChain, Joined, ~NoSwitchDue
  PROVE  /\ SwitchReachable /\ SwitchFork \in Nat /\ SwitchFork >= ReachFloor
         /\ \A n \in best \cap Path(tip) : Height(n) <= SwitchFork
<1>. DEFINE common == {h \in 1 .. Height(tip) - 1 : h > ReachFloor /\ Chain[tip][h] \in best}
            pair == {ReachFloor, Height(tip) - 1}
<1>1. /\ tip \in Nodes /\ tip # Root /\ tip \notin best /\ Height(tip) \in Nat \ {0}
      /\ ReachFloor \in Nat
  BY TreeTypes, ReachFloorType DEF StoreTypeOK, NoSwitchDue, Nodes
<1>2. ASSUME NEW n \in best \cap Path(tip)
      PROVE  /\ Height(n) \in 1 .. Height(tip) - 1 /\ n = Chain[tip][Height(n)]
             /\ Height(n) > ReachFloor => Height(n) \in common
  <2>1. n # tip /\ Height(n) \in 1 .. Height(tip) /\ n = Chain[tip][Height(n)] /\ Height(n) < Height(tip)
    BY <1>1, PathOf, PathHeavier
  <2>. QED
    BY <1>1, <2>1
<1>3. CASE common # {}
  <2>1. SwitchFork = Max(common)
    BY <1>3 DEF SwitchFork
  <2>2. Max(common) \in common /\ \A h \in common : h <= Max(common)
    <3>1. common \subseteq Nat /\ \A h \in common : h <= Height(tip)
      BY <1>1
    <3>. HIDE DEF common
    <3>. QED
      BY <1>1, <1>3, <3>1, MaxOfNaturals
  <2>3. SwitchFork \in 1 .. Height(tip) - 1 /\ SwitchFork > ReachFloor /\ Chain[tip][SwitchFork] \in best
    BY <2>1, <2>2
  <2>4. ASSUME NEW n \in best \cap Path(tip) PROVE Height(n) <= SwitchFork
    <3>1. Height(n) \in Nat /\ (Height(n) > ReachFloor => Height(n) \in common)
      BY <1>1, <1>2
    <3>. HIDE DEF common
    <3>2. Height(n) > ReachFloor => Height(n) <= SwitchFork
      BY <2>1, <2>2, <3>1
    <3>. QED
      BY <1>1, <2>3, <3>1, <3>2
  <2>. QED
    BY <1>1, <2>3, <2>4 DEF SwitchReachable
<1>4. CASE common = {}
  <2>1. SwitchFork = Min(pair)
    BY <1>4 DEF SwitchFork
  <2>2. Min(pair) \in pair /\ \A h \in pair : Min(pair) <= h
    <3>1. pair \subseteq Nat /\ pair # {}
      BY <1>1
    <3>. HIDE DEF pair
    <3>. QED
      BY <3>1, MinOfNaturals
  <2>3. \A n \in best \cap Path(tip) : Height(n) <= ReachFloor /\ Height(n) \in 1 .. Height(tip) - 1
    BY <1>1, <1>2, <1>4
  <2>4. CASE ReachFloor = 0
    <3>1. SwitchFork = 0
      BY <1>1, <2>1, <2>2, <2>4
    <3>. QED
      BY <1>1, <2>3, <2>4, <3>1 DEF SwitchReachable
  <2>5. CASE ReachFloor # 0
    <3>1. PICK n \in best \cap Path(tip) : Height(n) >= ReachFloor
      BY <2>5 DEF Joined
    <3>2. Height(n) = ReachFloor /\ ReachFloor \in 1 .. Height(tip) - 1 /\ n = Chain[tip][ReachFloor]
      BY <1>1, <1>2, <2>3, <3>1
    <3>3. SwitchFork = ReachFloor
      BY <1>1, <2>1, <2>2, <3>2
    <3>. QED
      BY <1>1, <2>3, <3>1, <3>2, <3>3 DEF SwitchReachable
  <2>. QED
    BY <2>4, <2>5
<1>. QED
  BY <1>3, <1>4

(* Nor does it meet any other state the code calls corruption. *)
LEMMA NoSwitchErrors ==
  ASSUME Grounds, AppliedRowsKept, Joined, ~NoSwitchDue
  PROVE  SwitchErrors = {}
<1>1. SwitchReachable /\ SwitchFork \in Nat /\ SwitchFork >= ReachFloor
  BY ForkFound DEF Grounds, TypeOK
<1>2. /\ tip \in Nodes /\ tip # Root /\ ReachFloor \in Nat /\ Height(tip) \in Nat
      /\ BestTip \in Nodes /\ best = Path(BestTip) /\ best \subseteq headers
  BY TreeTypes, BestTipType, ReachFloorType
     DEF Grounds, TypeOK, StoreTypeOK, NoSwitchDue, OneChain, MemoKept
<1>3. PrefixReadable
  <2>1. tip \in headers
    BY <1>2, PathAt DEF AppliedRowsKept
  <2>2. \A h \in 1 .. Height(BestTip) : Chain[BestTip][h] \in best \cap headers
                                       /\ Height(Chain[BestTip][h]) = h
    BY <1>2, PathAt
  <2>3. PrefixHeights \subseteq 1 .. Height(BestTip)
    BY DEF PrefixHeights
  <2>. QED
    BY <2>1, <2>2, <2>3 DEF PrefixReadable
<1>4. (SwitchFork + 1) .. Height(tip) \subseteq journals
  <2>1. (ReachFloor + 1) .. Height(tip) \subseteq journals
    BY UnbrokenCovers DEF RevertsCovered, Grounds, TypeOK
  <2>. QED
    BY <1>1, <1>2, <2>1
<1>. QED
  BY <1>1, <1>3, <1>4 DEF SwitchErrors

(* A reorg ends on a block of the index, or, with an empty prefix, on the *)
(* fork point.                                                             *)
LEMMA ReorgEnds ==
  ASSUME SwitchReachable, NEW b \in ReorgTips
  PROVE  b \in best \cup {Root}
<1>1. Prefix \subseteq best
  BY DEF Prefix
<1>2. ForkNode \in best \cup {Root}
  BY DEF ForkNode, SwitchReachable
<1>. QED
  BY <1>1, <1>2 DEF ReorgTips

(* The switch neither halts nor parts the chains. *)
LEMMA SwitchKeeps ==
  ASSUME Grounds, StoreTypeOK', JournalsUnbroken', StoreKept, DoSwitch
  PROVE  StoreKept'
<1>1. /\ agenda # <<>> /\ agenda \in Seq(Entries) /\ Now.op = "switch" /\ TrySwitch
      /\ halted = "no" /\ tip \in Nodes
  BY DEF DoSwitch, At, Grounds, TypeOK, StoreTypeOK, StoreKept
<1>2. QuietDue
  BY <1>1, PhaseAt DEF StoreKept, StepDue, QuietOps
<1>3. /\ BestTip \in Nodes /\ best = Path(BestTip) /\ best \subseteq headers
      /\ Path(tip) \subseteq headers
  BY BestTipType DEF Grounds, TypeOK, OneChain, MemoKept, StoreKept, AppliedRowsKept
<1>4. /\ <<>> \in Seq(Entries) /\ Quiet(<<>>)
      /\ \A s \in Seq(Entries) : s \o <<>> = s /\ <<>> \o s = s
  BY EmptyType, ConcatEmptySeq DEF Quiet
<1>5. \A s \in Seq(Entries) : Instead(s) => Led(agenda', <<>>, s)
  BY <1>2, <1>4 DEF QuietDue, Leaves
<1>6. Joined
  BY <1>2 DEF QuietDue
<1>7. ~NoSwitchDue => SwitchErrors = {}
  BY <1>6, NoSwitchErrors DEF StoreKept
<1>8. ASSUME UNCHANGED storeVars
      PROVE  Joined' /\ AppliedRowsKept' /\ tip' = tip
  <2>1. UNCHANGED <<headers, best, tip, journals>>
    BY <1>8 DEF storeVars
  <2>. QED
    BY <1>3, <1>6, <2>1, StoreStill DEF AppliedRowsKept
<1>9. CASE Instead(<<>>) /\ UNCHANGED <<storeVars, halted>>
  <2>1. Led(agenda', <<>>, <<>>)
    BY <1>4, <1>5, <1>9
  <2>. QED
    BY <1>1, <1>8, <1>9, <2>1, ThroughPhase DEF StoreKept
<1>10. ASSUME ~NoSwitchDue, Reorg, UNCHANGED halted PROVE StoreKept'
  <2>1. /\ SwitchReachable /\ SwitchFork \in Nat
        /\ \A n \in best \cap Path(tip) : Height(n) <= SwitchFork
    BY <1>6, <1>10, ForkFound DEF Grounds, TypeOK
  <2>2. ASSUME NEW b \in ReorgTips, CommitReorg(SwitchFork, Prefix, b), Instead(<<Plain("drain")>>)
        PROVE  StoreKept'
    <3>1. b \in best \cup {Root} /\ tip' = b /\ UNCHANGED <<headers, best>>
      BY <2>1, <2>2, ReorgEnds DEF CommitReorg
    <3>2. Path(b) \subseteq headers
      BY <1>3, <3>1, PathOf, PathAt
    <3>3. Joined' /\ AppliedRowsKept'
      BY <3>1, <3>2, TipIsJoinedNext DEF TipJoins, AppliedRowsKept
    <3>4. Led(agenda', <<>>, <<>>)
      <4>1. <<Plain("drain")>> \in Seq(Entries) /\ Quiet(<<Plain("drain")>>)
        BY DrainQuiet
      <4>2. Leaves(<<>> \o <<Plain("drain")>>, <<>>)
        BY <1>2, <1>4, <4>1 DEF QuietDue
      <4>. QED
        BY <1>4, <2>2, <4>1, <4>2 DEF Leaves
    <3>. QED
      BY <1>1, <1>10, <3>3, <3>4, ThroughPhase DEF StoreKept
  <2>3. ASSUME NEW b \in ReorgReaches
        PROVE  b \in Blocks /\ b \notin Path(tip)
    <3>1. b \in best /\ Height(b) > SwitchFork
      BY DEF ReorgReaches, Prefix, PrefixHeights
    <3>2. b \in Blocks /\ Height(b) \in Nat
      BY <1>3, <3>1, PathOf
    <3>. QED
      BY <2>1, <3>1, <3>2
  <2>4. ASSUME NEW b \in ReorgReaches, Instead(MarkRefused(b)), UNCHANGED storeVars
        PROVE  StoreKept'
    <3>1. PICK c \in Blocks : c = b
      BY <2>3
    <3>2. MarkRefused(c) \in Seq(Entries) /\ c \notin Path(tip)
      BY <2>3, <3>1, MarkRefusedType
    <3>3. Led(agenda', <<>>, MarkRefused(c))
      BY <1>5, <2>4, <3>1, <3>2
    <3>4. DueNext(<<>>, MarkRefused(c))'
      BY <1>8, <2>4, <3>2 DEF DueNext, Marking
    <3>5. Phase'
      BY <3>2, <3>3, <3>4, LeavesPhase
    <3>. QED
      BY <1>1, <1>8, <1>10, <2>4, <3>5 DEF StoreKept
  <2>5. ASSUME NEW b \in ReorgReaches, Instead(One("unstage", b)), UNCHANGED storeVars
        PROVE  StoreKept'
    <3>1. PICK c \in Blocks : c = b
      BY <2>3
    <3>2. One("unstage", c) \in Seq(Entries)
      BY PhaseEntries, OneType DEF One, BlockOps
    <3>3. Led(agenda', <<>>, One("unstage", c))
      BY <1>5, <2>5, <3>1, <3>2
    <3>4. DueNext(<<>>, One("unstage", c))'
      BY <1>8, <2>5 DEF DueNext, Clearing
    <3>5. Phase'
      BY <3>2, <3>3, <3>4, LeavesPhase
    <3>. QED
      BY <1>1, <1>8, <1>10, <2>5, <3>5 DEF StoreKept
  <2>. QED
    BY <1>10, <2>2, <2>4, <2>5 DEF Reorg, One
<1>. QED
  BY <1>1, <1>7, <1>9, <1>10 DEF TrySwitch

(* A branch off a block of the index at or above the floor is in reach. *)
LEMMA BestReaches ==
  ASSUME Grounds, Joined, NEW t \in Nodes, NEW c \in Path(t) \cap best, Height(c) >= ReachFloor
  PROVE  Reaches(t)
<1>1. /\ tip \in Nodes /\ BestTip \in Nodes /\ best = Path(BestTip) /\ ReachFloor \in Nat
  BY BestTipType, ReachFloorType DEF Grounds, TypeOK, StoreTypeOK, OneChain
<1>2. ASSUME NEW n \in best \cap Path(tip), Height(n) >= ReachFloor PROVE Reaches(t)
  <2>1. /\ n \in Path(BestTip) /\ c \in Path(BestTip) /\ n \in Nodes /\ c \in Nodes
        /\ Height(n) \in Nat /\ Height(c) \in Nat
    BY <1>1, PathOf
  <2>2. CASE Height(c) <= Height(n)
    <3>1. c \in Path(n) /\ Path(n) \subseteq Path(tip)
      BY <1>1, <2>1, <2>2, PathOf, PathOne
    <3>. QED
      BY <3>1 DEF Reaches
  <2>3. CASE ~(Height(c) <= Height(n))
    <3>1. n \in Path(c) /\ Path(c) \subseteq Path(t)
      BY <1>1, <2>1, <2>3, PathOf, PathOne
    <3>. QED
      BY <1>2, <3>1 DEF Reaches
  <2>. QED
    BY <2>2, <2>3
<1>. QED
  BY <1>2 DEF Joined, Reaches

(* The base a page is stored on has its rows, down to the root, and is in  *)
(* reach.                                                                  *)
LEMMA BaseGround ==
  ASSUME Grounds, AppliedRowsKept, Joined, NEW base \in Nodes, BaseReachable(base)
  PROVE  Path(base) \subseteq headers /\ Reaches(base)
<1>1. /\ tip \in Nodes /\ BestTip \in Nodes /\ best = Path(BestTip) /\ ReachFloor \in Nat
      /\ best \subseteq headers /\ Path(tip) \subseteq headers
  BY BestTipType, ReachFloorType
     DEF Grounds, TypeOK, StoreTypeOK, OneChain, MemoKept, AppliedRowsKept
<1>2. CASE ReachFloor <= 0 /\ Path(base) \subseteq headers
  BY <1>1, <1>2 DEF Reaches
<1>3. ASSUME NEW h \in 1 .. Height(base), h >= ReachFloor, RowsDownTo(base, h + 1),
             IsApplied(Chain[base][h]) \/ Chain[base][h] \in best
      PROVE  Path(base) \subseteq headers /\ Reaches(base)
  <2>. DEFINE c == Chain[base][h]
  <2>1. c \in Path(base) /\ Height(c) = h /\ c \in Path(tip) \cup best /\ h \in Nat
    BY <1>3, PathAt DEF IsApplied
  <2>. HIDE DEF c
  <2>2. c \in Nodes /\ Path(c) \subseteq headers
    <3>1. c \in Nodes
      BY <2>1, PathOf
    <3>2. c \in Path(tip) => Path(c) \subseteq Path(tip)
      BY <1>1, PathOf
    <3>3. c \in Path(BestTip) => Path(c) \subseteq Path(BestTip)
      BY <1>1, PathOf
    <3>. QED
      BY <1>1, <2>1, <3>1, <3>2, <3>3
  <2>3. ASSUME NEW n \in Path(base) PROVE n \in headers
    <3>1. Height(n) \in 1 .. Height(base) /\ n = Chain[base][Height(n)] /\ Height(base) \in Nat
      BY PathOf
    <3>2. CASE Height(n) <= h
      BY <2>1, <2>2, <3>2, PathOne
    <3>3. CASE Height(n) > h
      <4>1. Height(n) >= h + 1
        BY <2>1, <3>1, <3>3
      <4>. QED
        BY <1>3, <3>1, <4>1 DEF RowsDownTo
    <3>. QED
      BY <2>1, <3>1, <3>2, <3>3
  <2>4. Reaches(base)
    <3>1. CASE c \in Path(tip)
      BY <1>3, <2>1, <3>1 DEF Reaches
    <3>2. CASE c \in best
      BY <1>3, <2>1, <3>2, BestReaches
    <3>. QED
      BY <2>1, <3>1, <3>2
  <2>. QED
    BY <2>3, <2>4
<1>. QED
  BY <1>2, <1>3 DEF BaseReachable

(* The path to the last of linked headers: theirs, on the path to the base. *)
LEMMA LinkedPath ==
  ASSUME NEW s \in Seq(Blocks), s # <<>>, Linked(s)
  PROVE  /\ Last(s) \in Blocks /\ s[1] \in Blocks /\ Parent(s[1]) \in Nodes
         /\ Path(Last(s)) = Path(Parent(s[1])) \cup ToSet(s)
<1>. DEFINE base == Parent(s[1])
            upTo(i) == {s[j] : j \in 1 .. i}
            off == {i \in 1 .. Len(s) : Path(s[i]) # Path(base) \cup upTo(i)}
<1>1. Len(s) \in Nat \ {0} /\ \A j \in 1 .. Len(s) : s[j] \in Blocks
  OBVIOUS
<1>2. off = {}
  <2>. SUFFICES ASSUME off # {} PROVE FALSE
    OBVIOUS
  <2>1. off \subseteq Nat
    BY <1>1
  <2>2. PICK i \in off : \A k \in off : i <= k
    <3>. HIDE DEF off
    <3>1. Min(off) \in off /\ \A k \in off : Min(off) <= k
      BY <2>1, MinOfNaturals
    <3>. QED
      BY <3>1
  <2>3. i \in 1 .. Len(s) /\ s[i] \in Blocks /\ Path(s[i]) # Path(base) \cup upTo(i)
    BY <1>1, <2>2
  <2>4. Path(s[i]) = Path(Parent(s[i])) \cup {s[i]}
    <3>. DEFINE b == s[i]
    <3>1. b \in Blocks
      BY <2>3
    <3>. HIDE DEF b
    <3>2. Path(b) = Path(Parent(b)) \cup {b}
      BY <3>1, PathEnd
    <3>. QED
      BY <3>2 DEF b
  <2>5. CASE i = 1
    <3>1. upTo(1) = {s[1]}
      <4>1. 1 .. 1 = {1}
        OBVIOUS
      <4>. QED
        BY <4>1
    <3>. QED
      BY <2>3, <2>4, <2>5, <3>1
  <2>6. CASE i # 1
    <3>1. i \in 2 .. Len(s) /\ i - 1 \in 1 .. Len(s) /\ i - 1 \notin off
      BY <1>1, <2>2, <2>3, <2>6
    <3>2. Path(s[i - 1]) = Path(base) \cup upTo(i - 1) /\ Parent(s[i]) = s[i - 1]
      BY <3>1 DEF Linked
    <3>3. upTo(i) = upTo(i - 1) \cup {s[i]}
      <4>1. 1 .. i = (1 .. (i - 1)) \cup {i}
        BY <3>1
      <4>. QED
        BY <4>1
    <3>. HIDE DEF upTo, base
    <3>. QED
      BY <2>3, <2>4, <3>2, <3>3
  <2>. QED
    BY <2>5, <2>6
<1>3. Last(s) = s[Len(s)] /\ ToSet(s) = upTo(Len(s))
  <2>1. DOMAIN s = 1 .. Len(s)
    OBVIOUS
  <2>. QED
    BY <2>1 DEF Last, ToSet
<1>4. Len(s) \in 1 .. Len(s) /\ 1 \in 1 .. Len(s)
  BY <1>1
<1>5. Path(s[Len(s)]) = Path(base) \cup upTo(Len(s))
  BY <1>2, <1>4
<1>6. base \in Nodes
  <2>. DEFINE b == s[1]
  <2>1. b \in Blocks
    BY <1>1, <1>4
  <2>. HIDE DEF b
  <2>2. Parent(b) \in Nodes
    BY <2>1, PathEnd
  <2>. QED
    BY <2>2 DEF b
<1>. QED
  BY <1>1, <1>3, <1>4, <1>5, <1>6

(* The tail of an item is quiet. *)
LEMMA CloseQuiet == Close \in Seq(Entries) /\ Quiet(Close)
<1>. DEFINE p == Plain("pass")
            d == Plain("drain")
            w == Plain("switch")
<1>1. p.op \in QuietOps /\ d.op \in QuietOps /\ w.op \in QuietOps
  BY DEF Plain, Do, QuietOps
<1>. HIDE DEF p, d, w
<1>2. Quiet(<<p, d, w>>)
  <2>1. \A i \in 1 .. 3 : i = 1 \/ i = 2 \/ i = 3
    OBVIOUS
  <2>. QED
    BY <1>1, <2>1 DEF Quiet
<1>. QED
  BY <1>2, CloseType DEF Close, p, d, w

-----------------------------------------------------------------------------
(* The items. *)

\* The choice op is still to be made.
ChoiceDue(op) == \E i \in 1 .. Len(agenda) : agenda[i].op = op

\* No branch is stored by a second pass over its pages.
OnePass == \A p \in Peers : running[p] # None => running[p].mode # "storing"

(* With no choice due after an apply off the index, the chains are joined. *)
LEMMA JoinedUnlessDue ==
  ASSUME Phase, ~ChoiceDue("rechooseafter")
  PROVE  Joined
<1>1. PICK bs \in Seq(Blocks), g \in Seq(Entries) : Led(agenda, bs, g) /\ DueNext(bs, g)
  BY DEF Phase
<1>2. PICK t \in Seq(Entries) : agenda = Inserts(bs) \o (g \o t)
  BY <1>1 DEF Led
<1>3. SUFFICES ASSUME bs = <<>>, Choosing(g) PROVE FALSE
  BY <1>1 DEF DueNext
<1>4. agenda = g \o t
  <2>1. Inserts(<<>>) = <<>> /\ g \o t \in Seq(Entries)
    BY EmptyType, InsertsFront, ConcatType
  <2>. QED
    BY <1>2, <1>3, <2>1, ConcatEmptySeq
<1>. DEFINE x == Plain("prune")
            z == Plain("rechooseafter")
<1>5. x \in Entries /\ z \in Entries /\ z.op = "rechooseafter"
  BY PhaseEntries DEF StateOps
<1>6. \/ g = <<z>> \/ g = <<x>> \o <<z>>
      \/ \E b \in Blocks : g = One("unstage", b) \o (<<x>> \o <<z>>)
  BY <1>3 DEF Choosing
<1>. HIDE DEF x, z
<1>7. <<z>> \in Seq(Entries) /\ <<x>> \in Seq(Entries) /\ <<>> \in Seq(Entries)
      /\ <<>> \o <<z>> = <<z>> /\ Len(<<z>>) = 1 /\ <<z>>[1] = z
  BY <1>5, ConcatEmptySeq
<1>8. \E u \in Seq(Entries) : g = u \o <<z>>
  <2>1. ASSUME NEW b \in Blocks, g = One("unstage", b) \o (<<x>> \o <<z>>)
        PROVE  \E u \in Seq(Entries) : g = u \o <<z>>
    <3>1. One("unstage", b) \in Seq(Entries)
      BY PhaseEntries, OneType DEF One, BlockOps
    <3>. DEFINE s == One("unstage", b)
                y == <<x>>
                r == <<z>>
    <3>2. s \in Seq(Entries) /\ y \in Seq(Entries) /\ r \in Seq(Entries)
      BY <1>7, <3>1
    <3>3. g = s \o (y \o r)
      BY <2>1
    <3>. HIDE DEF s, y, r
    <3>4. (s \o y) \o r = s \o (y \o r) /\ s \o y \in Seq(Entries)
      BY <3>2, ThreeParts, ConcatType
    <3>. QED
      BY <3>3, <3>4 DEF r
  <2>. QED
    BY <1>6, <1>7, <2>1
<1>9. PICK u \in Seq(Entries) : g = u \o <<z>>
  BY <1>8
<1>10. \E i \in 1 .. Len(agenda) : agenda[i] = z
  <2>. DEFINE r == <<z>>
  <2>1. r \in Seq(Entries) /\ Len(r) = 1 /\ r[1] = z /\ g = u \o r
    BY <1>7, <1>9
  <2>. HIDE DEF r
  <2>2. /\ Len(g) = Len(u) + Len(r) /\ Len(u) \in Nat
        /\ \A i \in 1 .. Len(r) : g[Len(u) + i] = r[i]
    BY <2>1, ConcatParts
  <2>3. /\ Len(agenda) = Len(g) + Len(t) /\ Len(t) \in Nat
        /\ \A i \in 1 .. Len(g) : agenda[i] = g[i]
    BY <1>4, ConcatParts
  <2>4. 1 \in 1 .. Len(r) /\ Len(u) + 1 \in 1 .. Len(g) /\ Len(u) + 1 \in 1 .. Len(agenda)
    BY <2>1, <2>2, <2>3
  <2>5. agenda[Len(u) + 1] = z
    BY <2>1, <2>2, <2>3, <2>4
  <2>. QED
    BY <2>4, <2>5
<1>. QED
  BY <1>5, <1>10 DEF ChoiceDue

(* A page that wins at once, on a base within reach, moves the best chain to *)
(* rows that are stored or in hand; no other page stores a row.              *)
LEMMA PagePhase ==
  ASSUME Grounds, AppliedRowsKept, Joined, OnePass, NEW p \in Peers,
         NEW claim \in Blocks \cup {NoClaim}, NEW page \in Seq(Blocks),
         AdmitPage(p, claim, page, Close)
  PROVE  Phase'
<1>. DEFINE fresh == Fresh(page)
<1>1. /\ fresh \in Seq(Blocks) /\ halted' = halted
      /\ UNCHANGED <<headers, best, tip, journals>>
  BY FreshType DEF AdmitPage, storeVars
<1>2. Joined'
  BY <1>1, StoreStill
<1>3. \/ agenda' = Close
      \/ /\ fresh # <<>> /\ Linked(fresh) /\ BaseReachable(Parent(fresh[1]))
         /\ Work[Last(fresh)] > Work[BestTip]
         /\ agenda' = Inserts(fresh) \o One("move", Last(fresh)) \o Close
  <2>1. ~InPass2(p, fresh)
    BY DEF InPass2, Continues, OnePass
  <2>. HIDE DEF fresh
  <2>2. WinFirstPage(p, fresh, Close) =>
          \/ agenda' = Close
          \/ /\ BaseReachable(Parent(fresh[1])) /\ Work[Last(fresh)] > Work[BestTip]
             /\ agenda' = Inserts(fresh) \o One("move", Last(fresh)) \o Close
    BY DEF WinFirstPage, One
  <2>3. \/ agenda' = Close
        \/ fresh # <<>> /\ PageVerifies(p, fresh) /\ WinFirstPage(p, fresh, Close)
    BY <2>1 DEF AdmitPage, WinLaterPage, NotWon, fresh
  <2>. QED
    BY <2>2, <2>3 DEF PageVerifies
<1>. HIDE DEF fresh
<1>4. CASE agenda' = Close
  BY <1>2, <1>4, CloseQuiet, LedStart, ThroughPhase
<1>5. CASE /\ fresh # <<>> /\ Linked(fresh) /\ BaseReachable(Parent(fresh[1]))
           /\ Work[Last(fresh)] > Work[BestTip]
           /\ agenda' = Inserts(fresh) \o One("move", Last(fresh)) \o Close
  <2>. DEFINE base == Parent(fresh[1])
  <2>1. PICK b \in Blocks : b = Last(fresh)
    BY <1>1, <1>5, LinkedPath
  <2>2. base \in Nodes /\ Path(b) = Path(base) \cup ToSet(fresh)
    BY <1>1, <1>5, <2>1, LinkedPath
  <2>3. Path(base) \subseteq headers /\ Reaches(base)
    BY <1>5, <2>2, BaseGround
  <2>4. Path(b) \subseteq headers \cup ToSet(fresh) /\ Reaches(b)
    BY <2>2, <2>3 DEF Reaches
  <2>5. Reaches(b)'
    BY <1>1, <2>4, SameFloor DEF Reaches
  <2>6. PICK bs \in Seq(Blocks) : bs = fresh
    BY <1>1
  <2>10. Work[b] > Work[BestTip] /\ BestTip' = BestTip
    BY <1>1, <1>5, <2>1, BestTipKept DEF Grounds, MemoKept
  <2>7. DueNext(bs, One("move", b))'
    BY <1>1, <1>2, <2>4, <2>5, <2>6, <2>10 DEF DueNext, Moving
  <2>8. One("move", b) \in Seq(Entries)
    BY PhaseEntries, OneType DEF One, BlockOps
  <2>9. Led(agenda', bs, One("move", b))
    <3>. DEFINE g == One("move", b)
    <3>1. g \in Seq(Entries) /\ agenda' = (Inserts(bs) \o g) \o Close
      BY <1>5, <2>1, <2>6, <2>8
    <3>. HIDE DEF g
    <3>2. Led(agenda', bs, g)
      BY <3>1, CloseQuiet, LedStart
    <3>. QED
      BY <3>2 DEF g
  <2>. QED
    BY <2>7, <2>8, <2>9 DEF Phase
<1>. QED
  BY <1>3, <1>4, <1>5

(* Every item, and a kill that leaves no such choice undone. *)
LEMMA ItemKeepsStore ==
  ASSUME Grounds, StoreKept, OnePass, Crash => ~ChoiceDue("rechooseafter")
  PROVE  /\ \A p \in Peers : Deliver(p) => StoreKept'
         /\ \A b \in Blocks : DeliverMinedBlock(b) => StoreKept'
         /\ GateHeld \/ Crash \/ Restart => StoreKept'
<1>1. /\ Idle => Joined
      /\ Crash => Joined
      /\ ~Restart
      /\ \A t \in Seq(Entries) : Quiet(t) /\ agenda' = t /\ Joined' => Phase'
  BY IdleJoined, JoinedUnlessDue, LedStart, ThroughPhase DEF StoreKept, Idle, Restart
<1>2. ASSUME UNCHANGED storeVars, Joined
      PROVE  Joined' /\ AppliedRowsKept'
  <2>1. UNCHANGED <<headers, best, tip, journals>>
    BY <1>2 DEF storeVars
  <2>. QED
    BY <1>2, <2>1, StoreStill DEF StoreKept, AppliedRowsKept
<1>9. <<>> \in Seq(Entries) /\ Quiet(<<>>)
  BY EmptyType DEF Quiet
<1>3. ASSUME NEW p \in Peers, NEW input \in PageInputs, DeliverHeaders(p, input[1], input[2])
      PROVE  StoreKept'
  <2>. DEFINE claim == input[1]
              page == input[2]
  <2>1. /\ claim \in Blocks \cup {NoClaim} /\ page \in Seq(Blocks)
        /\ AdmitPage(p, claim, page, Close) /\ Idle
    BY <1>3, InputAssumption DEF DeliverHeaders
  <2>. HIDE DEF claim, page
  <2>2. Phase'
    BY <1>1, <2>1, PagePhase DEF StoreKept
  <2>3. UNCHANGED <<storeVars, halted>>
    BY <2>1 DEF AdmitPage
  <2>. QED
    BY <1>1, <1>2, <2>1, <2>2, <2>3 DEF StoreKept
<1>4. ASSUME NEW p \in Peers, NEW blocks \in AnswerInputs, DeliverBlocks(p, blocks)
      PROVE  StoreKept'
  <2>. DEFINE binds == [i \in 1 .. Len(blocks) |-> Do("bind", p, <<blocks[i]>>)]
  <2>1. blocks \in Seq(Blocks)
    BY InputAssumption
  <2>2. \A i \in 1 .. Len(blocks) : Do("bind", p, <<blocks[i]>>) \in Entries
    <3>1. TAKE i \in 1 .. Len(blocks)
    <3>2. blocks[i] \in Blocks
      BY <2>1
    <3>. QED
      BY <3>2, BlockEntry DEF BlockOps
  <2>3. binds \in Seq(Entries)
    BY <2>1, <2>2
  <2>4. Quiet(binds)
    BY DEF Quiet, Do, QuietOps
  <2>5. agenda' = binds \o Close /\ Idle /\ UNCHANGED <<storeVars, halted>>
    BY <1>4 DEF DeliverBlocks
  <2>. HIDE DEF binds
  <2>6. binds \o Close \in Seq(Entries) /\ Quiet(binds \o Close)
    BY <2>3, <2>4, CloseQuiet, QuietTogether, ConcatType
  <2>. QED
    BY <1>1, <1>2, <2>5, <2>6 DEF StoreKept
<1>5. ASSUME NEW p \in Peers, NEW b \in GossipInputs, DeliverGossipedBlock(p, b)
      PROVE  StoreKept'
  <2>1. /\ b \in Blocks /\ Idle /\ UNCHANGED <<storeVars, halted>>
        /\ GossipedBody(p, b, pending, Close)
    BY <1>5, InputAssumption DEF DeliverGossipedBlock
  <2>2. Phase'
    BY <1>1, <1>2, <2>1, CloseQuiet, GossipPhase
  <2>. QED
    BY <1>1, <1>2, <2>1, <2>2 DEF StoreKept
<1>6. ASSUME NEW p \in Peers, PeerDisconnected(p) PROVE StoreKept'
  <2>1. agenda' = <<>> /\ Idle /\ UNCHANGED <<storeVars, halted>>
    BY <1>6 DEF PeerDisconnected, Idle
  <2>. QED
    BY <1>1, <1>2, <1>9, <2>1 DEF StoreKept
<1>7. ASSUME NEW b \in Blocks, DeliverMinedBlock(b) PROVE StoreKept'
  <2>1. /\ Idle /\ UNCHANGED <<storeVars, halted>>
        /\ \/ agenda' = Bind(Self, b)
           \/ agenda' = StoreHeader(b, CanExtendAppliedTip(b)) \o Bind(Self, b)
    BY <1>7 DEF DeliverMinedBlock
  <2>2. Bind(Self, b) \in Seq(Entries) /\ Quiet(Bind(Self, b))
    BY BindQuiet
  <2>3. Joined' /\ AppliedRowsKept'
    BY <1>1, <1>2, <2>1
  <2>4. Phase'
    BY <1>1, <2>1, <2>2, <2>3, StoresPhase
  <2>. QED
    BY <2>1, <2>3, <2>4 DEF StoreKept
<1>8. ASSUME GateHeld \/ Crash PROVE StoreKept'
  <2>1. /\ UNCHANGED storeVars /\ halted' = "no" /\ Joined
        /\ agenda' = Close \/ agenda' = <<>>
    BY <1>1, <1>8 DEF GateHeld, Crash, LoseMemory, StoreKept
  <2>. QED
    BY <1>1, <1>2, <1>9, <2>1, CloseQuiet DEF StoreKept
<1>. QED
  BY <1>1, <1>3, <1>4, <1>5, <1>6, <1>7, <1>8 DEF Deliver

(* What is due is a matter of the store alone. *)
LEMMA DueStill ==
  ASSUME UNCHANGED <<headers, best, tip, journals>>, NEW bs, NEW g, DueNext(bs, g)
  PROVE  DueNext(bs, g)'
<1>1. /\ Joined => Joined'
      /\ NearlyJoined => NearlyJoined'
      /\ \A x : Reaches(x) => Reaches(x)'
  BY StoreStill
<1>2. Moving(bs, g) => Moving(bs, g)'
  <2>1. BestTip' = BestTip
    BY DEF BestTip
  <2>. QED
    BY <1>1, <2>1 DEF Moving
<1>3. /\ Putting(g) => Putting(g)'
      /\ InHand(g) => InHand(g)'
      /\ Extending(g) => Extending(g)'
      /\ Clearing(g) => Clearing(g)'
      /\ Choosing(g) => Choosing(g)'
      /\ Marking(g) => Marking(g)'
      /\ Rechoosing(g) => Rechoosing(g)'
  BY DEF Putting, InHand, Extending, Clearing, Choosing, Marking, Rechoosing
<1>. QED
  BY <1>1, <1>2, <1>3 DEF DueNext

(* Every step of an item. *)
LEMMA StepKeepsStore ==
  ASSUME Grounds, StoreTypeOK', JournalsUnbroken', OneChain', StoreKept, Step
  PROVE  StoreKept'
BY RowStepsKeep, PruneKeeps, RemoveKeeps, PlacedKeeps, ChoiceAfterKeeps, RechooseKeeps,
   QuietStepsKeep, ApplyStepsKeep, SwitchKeeps DEF Step

\* No kill comes between an apply off the index and the choice that follows it.
ChoicesFollow == [][ChoiceDue("rechooseafter") => ~Crash]_vars

(* The store is kept, in one pass and with no choice lost. *)
LEMMA StoreIsKept == Spec /\ []OnePass /\ ChoicesFollow => []StoreKept
<1>1. Init => StoreKept
  <2>. SUFFICES ASSUME Init PROVE StoreKept
    OBVIOUS
  <2>1. tip = Root /\ journals = {} /\ agenda = <<>> /\ halted = "no"
    BY DEF Init, StoreInit
  <2>2. AppliedRowsKept
    BY <2>1, TreeTypes, PathAt DEF AppliedRowsKept
  <2>3. Joined
    <3>1. LowestJournal = 1 /\ Height(tip) = 0
      BY <2>1, TreeTypes, PathAt DEF LowestJournal
    <3>2. ReachFloor = 0
      BY <3>1, MaxReorgDepthAssumption DEF ReachFloor
    <3>. QED
      BY <3>2 DEF Joined
  <2>4. <<>> \in Seq(Blocks) /\ <<>> \in Seq(Entries) /\ Quiet(<<>>)
    BY EmptyType DEF Quiet
  <2>5. Led(agenda, <<>>, <<>>) /\ DueNext(<<>>, <<>>)
    BY <2>1, <2>3, <2>4, LedStart DEF DueNext
  <2>6. Phase
    BY <2>4, <2>5 DEF Phase
  <2>. QED
    BY <2>1, <2>2, <2>6 DEF StoreKept
<1>2. /\ TypeOK /\ TypeOK' /\ MemoKept /\ OneChain /\ OneChain'
      /\ JournalsUnbroken /\ JournalsUnbroken' /\ OnePass
      /\ StoreKept /\ [Next]_vars /\ [ChoiceDue("rechooseafter") => ~Crash]_vars
      => StoreKept'
  <2>. SUFFICES ASSUME TypeOK, TypeOK', MemoKept, OneChain, OneChain', JournalsUnbroken,
                       JournalsUnbroken', OnePass, StoreKept, [Next]_vars,
                       [ChoiceDue("rechooseafter") => ~Crash]_vars
                PROVE  StoreKept'
    OBVIOUS
  <2>1. Grounds /\ StoreTypeOK'
    BY DEF Grounds, TypeOK
  <2>2. CASE UNCHANGED vars
    <3>1. /\ UNCHANGED <<headers, best, tip, journals>>
          /\ agenda' = agenda /\ halted' = halted
      BY <2>2 DEF vars, storeVars, pipelineVars
    <3>2. PICK bs \in Seq(Blocks), g \in Seq(Entries) : Led(agenda, bs, g) /\ DueNext(bs, g)
      BY DEF StoreKept, Phase
    <3>3. DueNext(bs, g)' /\ Led(agenda', bs, g)
      BY <3>1, <3>2, DueStill
    <3>4. Phase'
      BY <3>3 DEF Phase
    <3>. QED
      BY <3>1, <3>4 DEF StoreKept, AppliedRowsKept
  <2>3. CASE Next /\ (Crash => ~ChoiceDue("rechooseafter"))
    <3>1. CASE Step
      BY <2>1, <3>1, StepKeepsStore
    <3>2. ASSUME NEW b \in MinedInputs, DeliverMinedBlock(b) PROVE StoreKept'
      BY <2>1, <2>3, <3>2, ItemKeepsStore, InputAssumption
    <3>. QED
      BY <2>1, <2>3, <3>1, <3>2, ItemKeepsStore DEF Next
  <2>. QED
    BY <2>2, <2>3
<1>3. OnePass => NoLatePages
  BY DEF OnePass, NoLatePages
<1>. QED
  BY <1>1, <1>2, <1>3, TypeCorrect, MemoIsKept, IndexStaysChain, JournalsStayUnbroken, PTL
     DEF Spec, ChoicesFollow

(* Rows taken under a running second pass and a choice lost to a kill are   *)
(* the only causes of a fail-stop: while neither comes about, no walk, put   *)
(* or switch meets a state the code calls corruption, whatever is            *)
(* delivered and wherever else the process is killed.                        *)
THEOREM NothingElseHalts == Spec /\ []OnePass /\ ChoicesFollow => []NeverHalts
<1>1. StoreKept => NeverHalts
  BY DEF StoreKept, NeverHalts
<1>. QED
  BY <1>1, StoreIsKept, PTL

(* Nor do prunes below the floor or removals under a mark take a row of the *)
(* applied chain.                                                           *)
THEOREM AppliedRowsStay == Spec /\ []OnePass /\ ChoicesFollow => []AppliedRowsKept
<1>1. StoreKept => AppliedRowsKept
  BY DEF StoreKept
<1>. QED
  BY <1>1, StoreIsKept, PTL

(* And between items the switch's walk finds its fork point: whatever was   *)
(* applied, marked, pruned or switched, the best chain leaves the applied    *)
(* chain at or above the reach floor.                                        *)
THEOREM SwitchFindsFork == Spec /\ []OnePass /\ ChoicesFollow => []BestStaysReachable
<1>1. TypeOK /\ OneChain /\ StoreKept => BestStaysReachable
  <2>. SUFFICES ASSUME TypeOK, OneChain, StoreKept, Idle, ~NoSwitchDue PROVE SwitchReachable
    BY DEF BestStaysReachable
  <2>1. Joined
    BY IdleJoined DEF StoreKept, Idle
  <2>. QED
    BY <2>1, ForkFound DEF TypeOK
<1>2. OnePass => NoLatePages
  BY DEF OnePass, NoLatePages
<1>. QED
  BY <1>1, <1>2, TypeCorrect, IndexStaysChain, StoreIsKept, PTL

-----------------------------------------------------------------------------
(* The best chain against the applied one, by work. *)

\* The applied tip is no heavier than the best tip.
Level == Work[tip] <= Work[BestTip]

\* A choice of the best chain is still to be made.
Due == ChoiceDue("rechooseafter") \/ ChoiceDue("rechoose")

\* The best chain is heavier, or will be chosen anew.
Ahead == Due \/ Level

\* An applied tip on the index is no heavier than the tip of the index.
IndexAbove == TypeOK /\ OneChain /\ tip \in best \cup {Root} => Level

(* The tip of a path is its heaviest. *)
LEMMA IndexIsAbove == IndexAbove
<1>. SUFFICES ASSUME TypeOK, OneChain, tip \in best \cup {Root} PROVE Level
  BY DEF IndexAbove
<1>1. BestTip \in Nodes /\ best = Path(BestTip) /\ Work[Root] = 0 /\ Work[BestTip] \in Nat
  BY BestTipType, WorkAssumption DEF TypeOK, OneChain
<1>2. tip \in Path(BestTip) => Work[tip] <= Work[BestTip]
  BY <1>1, PathHeavier
<1>. QED
  BY <1>1, <1>2 DEF Level

(* So it is after a step. *)
LEMMA IndexIsAboveNext == IndexAbove'
BY IndexIsAbove, PTL

(* A choice still to be made stays so until its turn comes. *)
LEMMA DueRides ==
  ASSUME agenda \in Seq(Entries), agenda # <<>>, NEW s \in Seq(Entries), Instead(s),
         Now.op \notin {"rechooseafter", "rechoose"}, Due
  PROVE  Due'
<1>. DEFINE t == Tail(agenda)
<1>1. /\ t \in Seq(Entries) /\ Len(t) = Len(agenda) - 1 /\ Len(agenda) \in Nat \ {0}
      /\ \A i \in 1 .. Len(t) : t[i] = agenda[i + 1]
  BY HeadTailProperties
<1>2. Now = agenda[1] /\ agenda' = s \o t
  BY DEF Now, Instead
<1>. HIDE DEF t
<1>3. /\ Len(agenda') = Len(s) + Len(t) /\ Len(s) \in Nat
      /\ \A i \in 1 .. Len(t) : agenda'[Len(s) + i] = t[i]
  BY <1>1, <1>2, ConcatParts
<1>4. ASSUME NEW i \in 1 .. Len(agenda), i # 1
      PROVE  \E j \in 1 .. Len(agenda') : agenda'[j] = agenda[i]
  <2>1. i - 1 \in 1 .. Len(t) /\ Len(s) + (i - 1) \in 1 .. Len(agenda')
    BY <1>1, <1>3, <1>4
  <2>2. t[i - 1] = agenda[(i - 1) + 1] /\ (i - 1) + 1 = i
    BY <1>1, <2>1
  <2>. QED
    BY <1>3, <2>1, <2>2
<1>5. ASSUME NEW op \in {"rechooseafter", "rechoose"}, ChoiceDue(op) PROVE Due'
  <2>1. PICK i \in 1 .. Len(agenda) : agenda[i].op = op
    BY <1>5 DEF ChoiceDue
  <2>2. i # 1
    BY <1>2, <2>1
  <2>. QED
    BY <1>4, <2>1, <2>2 DEF Due, ChoiceDue
<1>. QED
  BY <1>5 DEF Due

(* A choice put on the agenda is still to be made. *)
LEMMA DuePut ==
  ASSUME agenda \in Seq(Entries), agenda # <<>>, NEW s \in Seq(Entries), Instead(s),
         NEW i \in 1 .. Len(s), s[i].op \in {"rechooseafter", "rechoose"}
  PROVE  Due'
<1>. DEFINE t == Tail(agenda)
<1>1. t \in Seq(Entries) /\ agenda' = s \o t
  BY HeadTailProperties DEF Instead
<1>. HIDE DEF t
<1>2. /\ Len(agenda') = Len(s) + Len(t) /\ Len(s) \in Nat /\ Len(t) \in Nat
      /\ \A j \in 1 .. Len(s) : agenda'[j] = s[j]
  BY <1>1, ConcatParts
<1>3. i \in 1 .. Len(agenda') /\ agenda'[i].op \in {"rechooseafter", "rechoose"}
  BY <1>2
<1>. QED
  BY <1>3 DEF Due, ChoiceDue

(* Nothing is due on a quiet agenda. *)
LEMMA QuietNotDue ==
  ASSUME Quiet(agenda)
  PROVE  ~Due
BY DEF Quiet, QuietOps, Due, ChoiceDue

(* With the index and the applied tip as they are, so is their order. *)
LEMMA LevelStays ==
  ASSUME MemoKept, MemoKept', best' = best, tip' = tip, Level
  PROVE  Level'
<1>1. BestTip' = BestTip
  BY BestTipKept DEF MemoKept
<1>. QED
  BY <1>1 DEF Level

(* A move that does not halt lands on its target. *)
LEMMA MoveLands ==
  ASSUME Grounds, MemoKept', halted' = "no", NEW t \in Nodes, MoveBestTo(t)
  PROVE  BestTip' = t /\ tip' = tip /\ Instead(<<>>)
<1>1. RewriteBestChain(MeetsBest(t), PathAbove(t, MeetsBest(t))) /\ Instead(<<>>)
  BY DEF MoveBestTo, Halt
<1>2. BestTip \in Nodes /\ best = Path(BestTip)
  BY BestTipType DEF Grounds, TypeOK, OneChain
<1>3. best' = Path(t)
  BY <1>1, <1>2, MoveLeavesPath
<1>4. BestTip' = t
  BY <1>3, TipEndsNext DEF TipEndsIndex, MemoKept
<1>. QED
  BY <1>1, <1>4 DEF RewriteBestChain

(* The two choices leave no applied tip heavier than the best tip. *)
LEMMA ChoicesLevel ==
  ASSUME Grounds, MemoKept', OneChain', TypeOK', StoreKept, halted' = "no",
         DoRechooseAfterApply \/ DoRechoose
  PROVE  Level'
<1>1. /\ agenda # <<>> /\ agenda \in Seq(Entries) /\ StepDue
      /\ tip \in Nodes /\ BestTip \in Nodes /\ best = Path(BestTip) /\ headers \subseteq Blocks
      /\ Path(tip) \subseteq headers /\ ReachFloor \in Nat
  <2>1. agenda # <<>> /\ agenda \in Seq(Entries)
    BY DEF DoRechooseAfterApply, DoRechoose, At, Grounds, TypeOK
  <2>. QED
    BY <2>1, PhaseAt, BestTipType, ReachFloorType
       DEF Grounds, TypeOK, StoreTypeOK, OneChain, StoreKept, AppliedRowsKept
<1>2. /\ Work[Root] = 0 /\ \A x \in Nodes : Work[x] \in Nat
      /\ headers \subseteq Nodes
  BY <1>1, WorkAssumption DEF Nodes
<1>3. ASSUME UNCHANGED storeVars, Level PROVE Level'
  BY <1>3, LevelStays DEF storeVars, Grounds
<1>4. ASSUME NEW t \in Nodes, MoveBestTo(t), Work[tip] <= Work[t] PROVE Level'
  BY <1>4, MoveLands DEF Level
<1>5. CASE DoRechooseAfterApply
  <2>1. RechooseAfterApply /\ best # {}
    BY <1>1, <1>5 DEF DoRechooseAfterApply, At, StepDue, ChoiceAfterDue
  <2>2. BestTip # Root
    BY <1>1, <2>1, PathAt
  <2>3. tip \in best \cup {Root} => Level
    BY IndexIsAbove DEF IndexAbove, Grounds
  <2>4. Work[tip] < Work[BestTip] => Level
    BY <1>1, <1>2 DEF Level
  <2>5. \A t \in AfterApplyCandidates : t \in Nodes /\ Work[tip] <= Work[t]
    BY <1>1, <1>2 DEF AfterApplyCandidates, HeadersHeavierThan
  <2>6. \/ UNCHANGED storeVars /\ Level
        \/ MoveBestTo(tip)
        \/ \E t \in AfterApplyCandidates : MoveBestTo(t)
    BY <2>1, <2>2, <2>3, <2>4 DEF RechooseAfterApply, Heaviest
  <2>. QED
    BY <1>1, <1>2, <1>3, <1>4, <2>5, <2>6
<1>6. CASE DoRechoose
  <2>. DEFINE candidates == {t \in HeadersHeavierThan(Work[BestTip]) : ReachableFromBest(t)}
  <2>1. Joined /\ RechooseBestChain
    BY <1>1, <1>6 DEF DoRechoose, At, StepDue
  <2>2. \/ UNCHANGED storeVars /\ candidates = {}
        \/ \E t \in Heaviest(candidates) : MoveBestTo(t)
    BY <2>1 DEF RechooseBestChain
  <2>3. ASSUME ~Level PROVE tip \in candidates
    <3>1. Work[tip] > Work[BestTip] /\ tip # Root
      BY <1>1, <1>2, <2>3 DEF Level
    <3>2. tip \in headers
      BY <1>1, <3>1, PathAt
    <3>3. MeetsBest(tip) >= ReachFloor
      <4>1. MeetsBest(tip) \in Nat /\ \A h \in 1 .. Height(tip) : Chain[tip][h] \in best => h <= MeetsBest(tip)
        BY <1>1, MeetsAt, PathAt
      <4>2. ASSUME NEW n \in best \cap Path(tip), Height(n) >= ReachFloor
            PROVE  MeetsBest(tip) >= ReachFloor
        <5>1. Height(n) \in 1 .. Height(tip) /\ n = Chain[tip][Height(n)] /\ Height(n) \in Nat
          BY <1>1, PathOf
        <5>. QED
          BY <1>1, <4>1, <4>2, <5>1
      <4>. QED
        BY <1>1, <2>1, <4>1, <4>2 DEF Joined
    <3>4. RowsDownTo(tip, MeetsBest(tip))
      BY <1>1, WalkFinds
    <3>. QED
      BY <3>1, <3>2, <3>3, <3>4 DEF HeadersHeavierThan, ReachableFromBest
  <2>4. ASSUME NEW t \in Heaviest(candidates), MoveBestTo(t) PROVE Level'
    <3>1. t \in headers /\ Work[t] > Work[BestTip] /\ \A c \in candidates : Work[c] <= Work[t]
      BY DEF Heaviest, HeadersHeavierThan
    <3>2. Work[tip] <= Work[t]
      BY <1>1, <1>2, <2>3, <3>1 DEF Level
    <3>. QED
      BY <1>2, <1>4, <2>4, <3>1, <3>2
  <2>. QED
    BY <1>3, <2>2, <2>3, <2>4
<1>. QED
  BY <1>5, <1>6

(* Inserts, unstagings, marks, prunes and removals. *)
LEMMA RowStepsLevel ==
  ASSUME Grounds, MemoKept', OneChain', TypeOK', StoreKept, Ahead,
         DoInsert \/ DoUnstage \/ DoMark \/ DoPrune \/ DoRemove
  PROVE  Ahead'
<1>1. /\ agenda # <<>> /\ agenda \in Seq(Entries) /\ Instead(<<>>) /\ tip' = tip
      /\ Now.op \in {"insert", "unstage", "mark", "prune", "remove"}
  BY DEF DoInsert, DoUnstage, DoMark, DoPrune, DoRemove, At, Grounds, TypeOK, InsertHeader,
         UnstageBlock, InsertRefusedHeader, PruneHeaderTree, PruneHeadersBelow,
         RemoveHeaderSubtree
<1>2. Due => Due'
  BY <1>1, DueRides, EmptyType
<1>3. CASE DoRemove
  <2>1. 1 \in 1 .. Len(agenda) /\ agenda[1].op = "remove"
    BY <1>1, <1>3 DEF DoRemove, At, Now
  <2>2. 2 \in 1 .. Len(agenda) /\ agenda[2].op = "rechoose"
    BY <2>1 DEF Grounds, MemoKept, ChoosesAfter
  <2>3. /\ agenda' = Tail(agenda) /\ Len(Tail(agenda)) = Len(agenda) - 1
        /\ \A i \in 1 .. Len(Tail(agenda)) : Tail(agenda)[i] = agenda[i + 1]
        /\ Len(agenda) \in Nat
    <3>1. /\ Tail(agenda) \in Seq(Entries) /\ Len(Tail(agenda)) = Len(agenda) - 1
          /\ \A i \in 1 .. Len(Tail(agenda)) : Tail(agenda)[i] = agenda[i + 1]
      BY <1>1, HeadTailProperties
    <3>2. <<>> \o Tail(agenda) = Tail(agenda)
      BY <3>1, ConcatEmptySeq
    <3>. QED
      BY <1>1, <3>1, <3>2 DEF Instead
  <2>4. 1 \in 1 .. Len(agenda') /\ agenda'[1].op = "rechoose"
    BY <2>2, <2>3
  <2>. QED
    BY <2>4 DEF Ahead, Due, ChoiceDue
<1>4. CASE ~DoRemove
  <2>1. best' = best
    BY <1>4 DEF DoInsert, DoUnstage, DoMark, DoPrune, InsertHeader,
         UnstageBlock, InsertRefusedHeader, PruneHeaderTree, PruneHeadersBelow
  <2>. QED
    BY <1>1, <1>2, <2>1, LevelStays DEF Ahead, Grounds
<1>. QED
  BY <1>3, <1>4

(* A move or a put, to a best tip that is heavier than the last. *)
LEMMA PlacedLevel ==
  ASSUME Grounds, MemoKept', OneChain', TypeOK', StoreKept, halted' = "no", Ahead,
         DoMove \/ DoPut
  PROVE  Ahead'
<1>1. /\ agenda # <<>> /\ agenda \in Seq(Entries) /\ StepDue /\ BestTip \in Nodes /\ tip \in Nodes
      /\ best = Path(BestTip) /\ \A x \in Nodes : Work[x] \in Nat
  BY PhaseAt, BestTipType, WorkAssumption
     DEF DoMove, DoPut, At, StoreKept, Grounds, TypeOK, StoreTypeOK, OneChain
<1>2. CASE DoMove
  <2>. DEFINE t == Subject
  <2>1. Now.op = "move" /\ MoveBestTo(t) /\ t \in Nodes /\ Work[t] > Work[BestTip]
    BY <1>1, <1>2, NowType DEF DoMove, At, BlockOps, Nodes, StepDue, MoveDue
  <2>. HIDE DEF t
  <2>2. BestTip' = t /\ tip' = tip /\ Instead(<<>>)
    BY <2>1, MoveLands
  <2>3. Due => Due'
    BY <1>1, <2>1, <2>2, DueRides, EmptyType
  <2>4. Level => Level'
    BY <1>1, <2>1, <2>2 DEF Level
  <2>. QED
    BY <2>3, <2>4 DEF Ahead
<1>3. CASE DoPut
  <2>1. /\ Now.op = "put" /\ RewriteBestChain(Height(Now.bs[1]) - 1, ToSet(Now.bs))
        /\ Instead(<<>>) /\ Now.bs \in Seq(Blocks) /\ Now.bs # <<>>
    BY <1>1, <1>3, NowType DEF DoPut, At, PutOnBest
  <2>2. 1 \in 1 .. Len(agenda) /\ Now = agenda[1]
    BY <1>1 DEF Now
  <2>. DEFINE b == Now.bs[1]
  <2>3. Len(Now.bs) = 1 /\ Parent(b) = BestTip
    BY <2>1, <2>2 DEF Grounds, OneChain, PutsOn
  <2>4. b \in Blocks /\ ToSet(Now.bs) = {b}
    BY <2>1, <2>3 DEF ToSet
  <2>5. best = Path(Parent(b)) /\ RewriteBestChain(Height(b) - 1, {b})
    BY <1>1, <2>1, <2>3, <2>4
  <2>. HIDE DEF b
  <2>6. best' = Path(b) /\ tip' = tip /\ b \in Nodes
    BY <2>4, <2>5, PutLeavesPath DEF RewriteBestChain, Nodes
  <2>7. BestTip' = b
    BY <2>6, TipEndsNext DEF TipEndsIndex, MemoKept
  <2>8. Work[BestTip] <= Work[b]
    <3>1. BestTip = Root \/ BestTip \in Path(b)
      BY <2>3, <2>4, PathEnd
    <3>2. Work[Root] = 0
      BY WorkAssumption
    <3>. QED
      BY <1>1, <2>6, <3>1, <3>2, PathHeavier
  <2>9. Due => Due'
    BY <1>1, <2>1, DueRides, EmptyType
  <2>10. Level => Level'
    BY <1>1, <2>6, <2>7, <2>8 DEF Level
  <2>. QED
    BY <2>9, <2>10 DEF Ahead
<1>. QED
  BY <1>2, <1>3

\* No two chains carry the same work.
NoEqualWork == \A x, y \in Nodes : Work[x] = Work[y] => x = y

(* The tip of a switch's prefix is heavier than the tip it leaves. *)
LEMMA PrefixGains ==
  ASSUME NoEqualWork, Grounds, Level, ~NoSwitchDue, SwitchReachable, NEW b \in ReorgTips
  PROVE  Work[b] > Work[tip]
<1>. DEFINE F == SwitchFork
            T == BestTip
<1>1. /\ tip \in Nodes /\ T \in Nodes /\ best = Path(T) /\ T # Root /\ tip # Root
      /\ tip \notin best /\ F \in 0 .. Height(tip) - 1
      /\ \A x \in Nodes : Work[x] \in Nat /\ Height(x) \in Nat
  BY BestTipType, SwitchForkType, TreeTypes, WorkAssumption
     DEF Grounds, TypeOK, StoreTypeOK, OneChain, NoSwitchDue
<1>2. T \in Path(T) /\ Height(T) \in Nat \ {0} /\ F \in Nat /\ Height(tip) \in Nat
  BY <1>1, PathAt
<1>3. Work[T] > Work[tip]
  BY <1>1, <1>2 DEF NoEqualWork, Level
<1>4. F > 0 => Chain[tip][F] \in best
  BY DEF SwitchReachable
<1>. HIDE DEF F, T
<1>5. F < Height(T)
  <2>. SUFFICES ASSUME F > 0 PROVE F < Height(T)
    BY <1>2
  <2>. DEFINE n == Chain[tip][F]
  <2>1. n \in Path(tip) /\ Height(n) = F /\ n \in Path(T)
    <3>1. F \in 1 .. Height(tip)
      BY <1>1, <1>2
    <3>. QED
      BY <1>1, <1>4, <3>1, PathAt
  <2>. HIDE DEF n
  <2>2. n # T
    <3>1. n = T => Work[T] <= Work[tip]
      BY <1>1, <2>1, PathHeavier
    <3>. QED
      BY <1>1, <1>3, <3>1
  <2>. QED
    BY <1>1, <2>1, <2>2, PathHeavier
<1>6. \A h : h \in PrefixHeights <=>
        /\ h \in 1 .. Height(T) /\ h > F
        /\ \A c \in best : Height(c) \in (F + 1) .. (h - 1) => Work[c] <= Work[tip]
  BY DEF PrefixHeights, F, T
<1>7. \A h \in PrefixHeights : Chain[T][h] \in Prefix /\ Height(Chain[T][h]) = h
  <2>1. \A h \in 1 .. Height(T) : Chain[T][h] \in best /\ Height(Chain[T][h]) = h
    BY <1>1, PathAt
  <2>. QED
    BY <1>6, <2>1 DEF Prefix
<1>8. F + 1 \in PrefixHeights
  <2>1. F + 1 \in 1 .. Height(T) /\ F + 1 > F /\ (F + 1) .. ((F + 1) - 1) = {}
    BY <1>2, <1>5
  <2>. QED
    BY <1>6, <2>1
<1>9. b \in Prefix /\ \A c \in Prefix : Height(c) <= Height(b)
  BY <1>7, <1>8 DEF ReorgTips
<1>10. b \in Path(T) /\ Height(b) \in PrefixHeights /\ b \in Nodes /\ Height(b) \in Nat
  BY <1>1, <1>9, PathOf DEF Prefix
<1>11. SUFFICES ASSUME Work[b] <= Work[tip] PROVE FALSE
  BY <1>1, <1>10
<1>12. b # T
  BY <1>1, <1>3, <1>11
<1>13. Height(b) < Height(T)
  BY <1>1, <1>10, <1>12, PathHeavier
<1>14. ASSUME NEW c \in best, Height(c) \in (F + 1) .. ((Height(b) + 1) - 1)
       PROVE  Work[c] <= Work[tip]
  <2>1. Height(c) \in Nat /\ c \in Path(T)
    BY <1>1, <1>14, PathOf
  <2>2. CASE Height(c) = Height(b)
    <3>1. c = b
      BY <1>1, <1>10, <2>1, <2>2, PathOne
    <3>. QED
      BY <1>11, <3>1
  <2>3. CASE Height(c) # Height(b)
    <3>1. Height(c) \in (F + 1) .. (Height(b) - 1)
      BY <1>2, <1>10, <1>14, <2>1, <2>3
    <3>. QED
      BY <1>6, <1>10, <3>1
  <2>. QED
    BY <2>2, <2>3
<1>15. Height(b) + 1 \in PrefixHeights
  <2>1. Height(b) + 1 \in 1 .. Height(T) /\ Height(b) + 1 > F
    BY <1>2, <1>6, <1>10, <1>13
  <2>. QED
    BY <1>6, <1>14, <2>1
<1>. QED
  BY <1>7, <1>9, <1>10, <1>15

(* A block that links to the applied tip is heavier than it. *)
LEMMA ChildGains ==
  ASSUME NoEqualWork, NEW b \in Blocks
  PROVE  Work[b] > Work[Parent(b)]
<1>1. b \in Nodes /\ Parent(b) \in Nodes /\ Height(b) = Height(Parent(b)) + 1 /\ b \in Path(b)
  BY PathEnd
<1>2. Work[Root] = 0 /\ Root # b /\ Work[b] \in Nat /\ Root \in Nodes
  BY <1>1, RootAssumption, WorkAssumption, TreeTypes
<1>3. CASE Parent(b) = Root
  BY <1>1, <1>2, <1>3 DEF NoEqualWork
<1>4. CASE Parent(b) # Root
  <2>1. Parent(b) \in Path(b)
    BY <1>4, PathEnd
  <2>2. Parent(b) # b
    BY <1>1, TreeTypes
  <2>. QED
    BY <1>1, <2>1, <2>2, PathHeavier
<1>. QED
  BY <1>3, <1>4

(* A block applied on the tip. *)
LEMMA ApplyStepsLevel ==
  ASSUME Grounds, MemoKept', OneChain', TypeOK', StoreKept, Ahead, DoExtend \/ DoInHand
  PROVE  Ahead'
<1>. DEFINE b == Subject
            clear == <<Do("unstage", Self, <<b>>), Plain("prune")>>
            drain == <<Plain("drain")>>
            choose == <<Plain("rechooseafter")>>
<1>1. /\ agenda # <<>> /\ agenda \in Seq(Entries) /\ Now.op \in {"extend", "inhand"}
      /\ StepDue /\ b \in Blocks
  <2>1. /\ agenda # <<>> /\ agenda \in Seq(Entries) /\ Now.op \in {"extend", "inhand"}
    BY DEF DoExtend, DoInHand, At, Grounds, TypeOK
  <2>. QED
    BY <2>1, PhaseAt, NowType DEF StoreKept, BlockOps
<1>2. \/ /\ CommitBlock(b)
         /\ \/ Now.op = "extend" /\ Instead(clear \o drain)
            \/ Now.op = "inhand" /\ Instead(clear \o choose)
      \/ Instead(MarkRefused(b)) /\ UNCHANGED storeVars
      \/ Instead(One("unstage", b)) /\ UNCHANGED storeVars
  BY DEF DoExtend, DoInHand, ApplyStagedBlock, At, One
<1>3. /\ MarkRefused(b) \in Seq(Entries) /\ One("unstage", b) \in Seq(Entries)
      /\ clear \in Seq(Entries) /\ choose \in Seq(Entries) /\ Plain("rechooseafter").op = "rechooseafter"
  BY <1>1, MarkRefusedType, AppliedParts, EmptyType, PhaseEntries, OneType
     DEF One, BlockOps, StateOps
<1>4. ASSUME UNCHANGED storeVars, NEW s \in Seq(Entries), Instead(s) PROVE Ahead'
  BY <1>1, <1>4, DueRides, LevelStays DEF Ahead, storeVars, Grounds
<1>5. CASE CommitBlock(b) /\ Now.op = "extend"
  <2>1. b \in best /\ tip' = b /\ best' = best
    BY <1>1, <1>5 DEF StepDue, ExtendDue, CommitBlock
  <2>. QED
    BY <2>1, IndexIsAboveNext DEF IndexAbove, Ahead
<1>6. CASE Instead(clear \o choose)
  <2>. DEFINE s == clear \o choose
  <2>1. Len(clear) = 2 /\ Len(choose) = 1 /\ choose[1] = Plain("rechooseafter")
    OBVIOUS
  <2>. HIDE DEF clear, choose
  <2>2. /\ s \in Seq(Entries) /\ Len(s) = Len(clear) + Len(choose)
        /\ \A i \in 1 .. Len(choose) : s[Len(clear) + i] = choose[i]
    BY <1>3, ConcatParts
  <2>. HIDE DEF s
  <2>3. 1 \in 1 .. Len(choose) /\ Len(clear) + 1 \in 1 .. Len(s)
    BY <2>1, <2>2
  <2>4. s[Len(clear) + 1].op = "rechooseafter"
    BY <1>3, <2>1, <2>2, <2>3
  <2>. QED
    BY <1>1, <1>6, <2>2, <2>3, <2>4, DuePut DEF Ahead, s
<1>. HIDE DEF b, clear, drain, choose
<1>. QED
  BY <1>2, <1>3, <1>4, <1>5, <1>6

(* Binds, drains, passes and switches start with nothing due. *)
LEMMA QuietStepsLevel ==
  ASSUME Grounds, MemoKept', OneChain', TypeOK', StoreKept, Ahead, halted' = "no",
         DoBind \/ DoDrain \/ DoPass \/ DoSwitch
  PROVE  Ahead' /\ Level /\ Joined
<1>1. agenda # <<>> /\ agenda \in Seq(Entries) /\ Now.op \in QuietOps
  BY DEF DoBind, DoDrain, DoPass, DoSwitch, At, QuietOps, Grounds, TypeOK
<1>2. Quiet(agenda) /\ Joined
  BY <1>1, PhaseAt DEF StoreKept, StepDue, QuietDue
<1>3. Level
  BY <1>2, QuietNotDue DEF Ahead
<1>4. CASE best' = best /\ tip' = tip
  BY <1>2, <1>3, <1>4, LevelStays DEF Ahead, Grounds
<1>5. CASE DoSwitch /\ ~(best' = best /\ tip' = tip)
  <2>1. SwitchReachable /\ \E b \in ReorgTips : CommitReorg(SwitchFork, Prefix, b)
    BY <1>5 DEF DoSwitch, TrySwitch, Reorg, SwitchErrors, storeVars
  <2>2. tip' \in best' \cup {Root}
    BY <2>1, ReorgEnds DEF CommitReorg
  <2>. QED
    BY <1>2, <1>3, <2>2, IndexIsAboveNext DEF IndexAbove, Ahead
<1>. QED
  BY <1>4, <1>5 DEF DoBind, DoDrain, DoPass, StageBlock, storeVars

(* Every step of an item. *)
LEMMA StepLevel ==
  ASSUME Grounds, MemoKept', OneChain', TypeOK', StoreKept, Ahead, halted' = "no", Step
  PROVE  Ahead'
BY RowStepsLevel, PlacedLevel, ChoicesLevel, QuietStepsLevel, ApplyStepsLevel DEF Step, Ahead

(* The start of an item, a kill and a restart commit nothing. *)
LEMMA ItemsCommitNothing ==
  ASSUME [Next]_vars, ~Step
  PROVE  UNCHANGED storeVars /\ (UNCHANGED vars \/ agenda = <<>> \/ Crash \/ halted # "no")
<1>1. ASSUME NEW p \in Peers, Deliver(p) PROVE UNCHANGED storeVars /\ agenda = <<>>
  BY <1>1 DEF Deliver, DeliverHeaders, AdmitPage, DeliverBlocks, DeliverGossipedBlock,
              PeerDisconnected, Idle
<1>2. ASSUME NEW b \in MinedInputs, DeliverMinedBlock(b) PROVE UNCHANGED storeVars /\ agenda = <<>>
  BY <1>2 DEF DeliverMinedBlock, Idle
<1>3. GateHeld => UNCHANGED storeVars /\ agenda = <<>>
  BY DEF GateHeld, Idle
<1>4. /\ Crash => UNCHANGED storeVars
      /\ Restart => UNCHANGED storeVars /\ halted # "no"
  BY DEF Crash, Restart, LoseMemory
<1>5. UNCHANGED vars => UNCHANGED storeVars
  BY DEF vars
<1>. QED
  BY <1>1, <1>2, <1>3, <1>4, <1>5 DEF Next

\* No kill comes before a choice of the best chain that is due.
ChoicesMade == [][Due => ~Crash]_vars

(* The best chain stays ahead. *)
LEMMA StaysAhead == Spec /\ []OnePass /\ ChoicesMade => []Ahead
<1>1. Init => Ahead
  <2>. SUFFICES ASSUME Init PROVE Level
    BY DEF Ahead
  <2>1. tip = Root /\ Work[Root] = 0 /\ BestTip \in Nodes /\ Work[BestTip] \in Nat
    <3>1. StoreTypeOK /\ tip = Root
      BY TreeTypes DEF Init, StoreInit, StoreTypeOK
    <3>. QED
      BY <3>1, BestTipType, WorkAssumption
  <2>. QED
    BY <2>1 DEF Level
<1>2. /\ TypeOK /\ TypeOK' /\ MemoKept /\ MemoKept' /\ OneChain /\ OneChain'
      /\ JournalsUnbroken /\ StoreKept /\ StoreKept' /\ Ahead /\ [Next]_vars /\ [Due => ~Crash]_vars
      => Ahead'
  <2>. SUFFICES ASSUME TypeOK, TypeOK', MemoKept, MemoKept', OneChain, OneChain',
                       JournalsUnbroken, StoreKept, StoreKept', Ahead, [Next]_vars,
                       [Due => ~Crash]_vars
                PROVE  Ahead'
    OBVIOUS
  <2>1. Grounds /\ halted = "no" /\ halted' = "no"
    BY DEF Grounds, StoreKept
  <2>2. CASE Step
    BY <2>1, <2>2, StepLevel
  <2>3. CASE ~Step
    <3>1. best' = best /\ tip' = tip
          /\ (UNCHANGED vars \/ agenda = <<>> \/ Crash)
      BY <2>1, <2>3, ItemsCommitNothing DEF storeVars
    <3>2. Level => Ahead'
      BY <3>1, LevelStays DEF Ahead
    <3>3. CASE UNCHANGED vars
      <4>1. agenda' = agenda
        BY <3>3 DEF vars, pipelineVars
      <4>. QED
        BY <3>2, <4>1 DEF Ahead, Due, ChoiceDue
    <3>4. CASE ~(UNCHANGED vars)
      <4>1. ~Due
        BY <3>1, <3>4, QuietNotDue, EmptyType DEF Quiet
      <4>. QED
        BY <3>2, <4>1 DEF Ahead
    <3>. QED
      BY <3>3, <3>4
  <2>. QED
    BY <2>2, <2>3
<1>3. [Due => ~Crash]_vars => [ChoiceDue("rechooseafter") => ~Crash]_vars
  BY DEF Due
<1>4. OnePass => NoLatePages
  BY DEF OnePass, NoLatePages
<1>. QED
  BY <1>1, <1>2, <1>3, <1>4, TypeCorrect, MemoIsKept, IndexStaysChain, JournalsStayUnbroken,
     StoreIsKept, PTL DEF Spec, ChoicesMade, ChoicesFollow

(* With no two chains of the same work, and no choice lost to a kill, the   *)
(* best chain leaves the applied chain only while strictly heavier: no      *)
(* apply, mark, removal, prune or switch leaves it behind between items.     *)
THEOREM BestStaysHeavier ==
  ASSUME NoEqualWork
  PROVE  Spec /\ []OnePass /\ ChoicesMade => []BestNotLighter
<1>1. TypeOK /\ MemoKept /\ OneChain /\ Ahead => BestNotLighter
  <2>. SUFFICES ASSUME TypeOK, OneChain, Ahead, Idle, ~NoSwitchDue
                PROVE  Work[BestTip] > Work[tip]
    BY DEF BestNotLighter
  <2>1. /\ tip \in Nodes /\ BestTip \in Nodes /\ BestTip # Root /\ tip \notin best
        /\ best = Path(BestTip) /\ Work[tip] \in Nat /\ Work[BestTip] \in Nat
    BY BestTipType, WorkAssumption DEF TypeOK, StoreTypeOK, OneChain, NoSwitchDue
  <2>2. BestTip # tip
    BY <2>1, PathAt
  <2>3. ~Due
    BY QuietNotDue, EmptyType DEF Idle, Quiet
  <2>. QED
    BY <2>1, <2>2, <2>3 DEF Ahead, Level, NoEqualWork
<1>2. [Due => ~Crash]_vars => [ChoiceDue("rechooseafter") => ~Crash]_vars
  BY DEF Due
<1>3. OnePass => NoLatePages
  BY DEF OnePass, NoLatePages
<1>. QED
  BY <1>1, <1>2, <1>3, TypeCorrect, MemoIsKept, IndexStaysChain, StaysAhead, PTL

(* Under the same conditions a step that moves the applied tip moves it to  *)
(* more work: an apply on or off the index, and the prefix a switch          *)
(* commits, which ends at the first block heavier than the tip it leaves.    *)
THEOREM TipOnlyGains ==
  ASSUME NoEqualWork
  PROVE  Spec /\ []OnePass /\ ChoicesMade => TipGainsWork
<1>1. /\ TypeOK /\ TypeOK' /\ MemoKept /\ MemoKept' /\ OneChain /\ OneChain'
      /\ JournalsUnbroken /\ StoreKept /\ StoreKept' /\ Ahead /\ [Next]_vars
      => [tip' # tip => Work[tip'] > Work[tip]]_vars
  <2>. SUFFICES ASSUME TypeOK, TypeOK', MemoKept, MemoKept', OneChain, OneChain',
                       JournalsUnbroken, StoreKept, StoreKept', Ahead, [Next]_vars, tip' # tip
                PROVE  Work[tip'] > Work[tip]
    OBVIOUS
  <2>1. Grounds /\ halted' = "no"
    BY DEF Grounds, StoreKept
  <2>2. Step
    BY ItemsCommitNothing DEF storeVars
  <2>3. ASSUME DoExtend \/ DoInHand PROVE Work[tip'] > Work[tip]
    <3>. DEFINE b == Subject
    <3>1. /\ agenda # <<>> /\ agenda \in Seq(Entries) /\ Now.op \in {"extend", "inhand"}
          /\ CommitBlock(b) /\ Parent(b) = tip
      BY <2>3 DEF DoExtend, DoInHand, At, ApplyStagedBlock, ConsensusRefused, storeVars, TypeOK
    <3>2. b \in Blocks /\ tip' = b
      BY <3>1, NowType DEF BlockOps, CommitBlock
    <3>. HIDE DEF b
    <3>. QED
      BY <3>1, <3>2, ChildGains
  <2>4. ASSUME DoSwitch PROVE Work[tip'] > Work[tip]
    <3>1. Level
      BY <2>1, <2>4, QuietStepsLevel
    <3>2. ~NoSwitchDue /\ SwitchReachable /\ \E b \in ReorgTips : CommitReorg(SwitchFork, Prefix, b)
      BY <2>4 DEF DoSwitch, TrySwitch, Reorg, SwitchErrors, storeVars
    <3>. QED
      BY <2>1, <3>1, <3>2, PrefixGains DEF CommitReorg
  <2>5. DoExtend \/ DoInHand \/ DoSwitch
    BY <2>2 DEF Step, DoInsert, DoPut, DoMove, DoUnstage, DoPrune, DoRechooseAfterApply,
                DoMark, DoRemove, DoRechoose, DoBind, DoDrain, DoPass, InsertHeader, PutOnBest,
                MoveBestTo, UnstageBlock, PruneHeaderTree, PruneHeadersBelow, RechooseAfterApply,
                RechooseBestChain, InsertRefusedHeader, RemoveHeaderSubtree, StageBlock,
                RewriteBestChain, storeVars
  <2>. QED
    BY <2>3, <2>4, <2>5
<1>2. [Due => ~Crash]_vars => [ChoiceDue("rechooseafter") => ~Crash]_vars
  BY DEF Due
<1>3. OnePass => NoLatePages
  BY DEF OnePass, NoLatePages
<1>. QED
  BY <1>1, <1>2, <1>3, TypeCorrect, MemoIsKept, IndexStaysChain, JournalsStayUnbroken,
     StoreIsKept, StaysAhead, PTL DEF Spec, ChoicesMade, ChoicesFollow, TipGainsWork

=============================================================================
