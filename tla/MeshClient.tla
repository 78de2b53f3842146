----------------------------- MODULE MeshClient -----------------------------
(***************************************************************************)
(* The extension's mesh client: a list of nodes, connections to some, and  *)
(* one chain held without applying a block.  A check dials, reads every    *)
(* candidate's tip, fills what stands above the chain, places the rest,    *)
(* and lets proofs decide what it cannot place.  It suspends at every read *)
(* and dial; gossip, connections, the reader's hand and the other nodes    *)
(* move on meanwhile.  Each action is the code between two suspensions.    *)
(*                                                                         *)
(*   c        the client: list, st, byHand (NodeList); tip (HeldChain);    *)
(*            conn, noChain (connections and relays known by now); kept    *)
(*            (keptVerdicts); shown (the state's tip and agreement);       *)
(*            armed, handle, waiters (timers, the one remembered, timer    *)
(*            callbacks waiting for the check); ck (the check); whole (no  *)
(*            check was cut short or took one tip's proof for another's)   *)
(*   nodeTip  each honest node's own tip                                   *)
(*   used     how many of the events bounded below have happened           *)
(*                                                                         *)
(* Left out: addresses and transports, speeds (a read may go to any node   *)
(* allowed), traffic counts, the node and path shown, stop.                *)
(***************************************************************************)
EXTENDS HeldChain, NodeList

CONSTANTS
  StartList,    \* the anchors and seeds, in order
  Dialable,     \* keys with an address
  Honest,       \* keys that answer with their own chain
  LyingHosts,   \* API bases whose host answers what it likes
  HonestTips,   \* what honest nodes may hold
  LiarTips,     \* what the others may name and prove
  StartTips,    \* where honest nodes may stand at the start
  HandKeys,     \* keys the reader may add and remove
  MaxEvents     \* bound on what happens besides checks: dials, reads and
                \* handshakes that fail, links closed, tips adopted, blocks
                \* gossiped, keys added and removed, checks the page asks for

ASSUME KeyAssumption ==
  /\ StartList \in Seq(Keys) /\ Anchors \subseteq ToSet(StartList)
  /\ Dialable \subseteq Keys /\ Honest \subseteq Keys
  /\ LyingHosts \subseteq Api /\ HandKeys \subseteq Keys
ASSUME TipAssumption ==
  /\ HonestTips \subseteq Blocks /\ LiarTips \subseteq Blocks
  /\ StartTips \subseteq [Keys -> Nodes]
  \* An honest node holds nothing its own validation refuses.
  /\ \A b \in HonestTips \cup {tips[k] : tips \in StartTips, k \in Honest} :
       Path(b) \cap BadHeaders = {}
ASSUME BoundAssumption == MaxEvents \in Nat

VARIABLES c, nodeTip, used
vars == <<c, nodeTip, used>>

NoKey == "nobody"
NoCheck ==
  [pc |-> "off", calm |-> FALSE, queue |-> <<>>, reads |-> <<>>,
   read |-> [k \in Keys |-> Root], route |-> [k \in Keys |-> "mesh"],
   from |-> Root, server |-> NoKey, under |-> <<>>, atTip |-> {}, on |-> {}, off |-> {},
   grp |-> {}, tried |-> {}, verified |-> {}, pass |-> <<>>, got |-> <<>>]

TypeOK ==
  /\ c.list \in Seq(Keys) /\ c.st \in [Keys -> Statuses] /\ c.byHand \subseteq Keys
  /\ \A k \in Keys : c.st[k] # "absent" <=> Contains(c.list, k)
  /\ c.conn \in [Keys -> {"none", "shaking", "passed", "failed", "nochain"}]
  /\ c.noChain \subseteq Keys
  /\ c.tip \in Nodes
  /\ c.kept \in [Blocks -> {"none", "trailing", "behind"}]
  /\ c.shown.tip \in Nodes /\ c.shown.on \subseteq Keys /\ c.shown.off \subseteq Keys
  /\ c.armed \in Nat /\ c.handle \in BOOLEAN /\ c.waiters \in Nat /\ c.whole \in BOOLEAN
  /\ c.ck.pc \in {"off", "dial", "tips", "fill", "under", "proofs", "last"}
  /\ nodeTip \in [Keys -> Nodes] /\ used \in 0..MaxEvents

Init ==
  /\ c = [list |-> StartList,
          st |-> [k \in Keys |-> IF Contains(StartList, k) THEN "new" ELSE "absent"],
          byHand |-> {}, conn |-> [k \in Keys |-> "none"], noChain |-> {}, tip |-> Root,
          kept |-> [b \in Blocks |-> "none"],
          shown |-> [tip |-> Root, on |-> {}, off |-> {}],
          armed |-> 1, handle |-> TRUE, waiters |-> 0, whole |-> TRUE, ck |-> NoCheck]
  /\ nodeTip \in StartTips
  /\ used = 0

-----------------------------------------------------------------------------
(* Events on the list.  NodeList throws for a key that has left it, and    *)
(* the exception ends the check.                                           *)

Raised(x) == x.ck.pc = "thrown"

StatusFor(ev, route) ==
  CASE ev = "success"                   -> "ok"
    [] ev \in {"trailing", "behind"}    -> ev
    [] ev = "lie" /\ route = "mesh"     -> "blacklisted"
    [] OTHER                            -> "retry"

\* Mutated form of ApplyEvent: a lie at an API base is held against the key.
ApplyEventAnyRoute(x, k, ev) ==
  IF Raised(x) THEN x
  ELSE IF x.st[k] = "absent" THEN [x EXCEPT !.ck.pc = "thrown"]
  ELSE Moved(x, k, StatusFor(ev, "mesh"))

ApplyEvent(x, k, ev) ==
  IF Raised(x) THEN x
  ELSE IF x.st[k] = "absent" THEN [x EXCEPT !.ck.pc = "thrown"]
  ELSE Moved(x, k, StatusFor(ev, x.ck.route[k]))

\* Op once for each element of a sequence, in its order.
Each(x, s, Op(_, _)) ==
  LET left[i \in 0 .. Len(s)] == IF i = 0 THEN x ELSE Op(left[i - 1], s[i])
  IN  left[Len(s)]

ApplyToAll(x, ks, ev) == Each(x, ks, LAMBDA y, k : ApplyEvent(y, k, ev))

\* The first of the candidates placed at the client's tip.
FirstNodeAtChainTip(x) ==
  LET at == Among(Candidates(x), x.ck.atTip)
  IN  IF at = <<>> THEN NoKey ELSE at[1]

\* The first element in S, and what follows it.
From(s, S) ==
  LET at == {i \in DOMAIN s : s[i] \in S}
  IN  IF at = {} THEN <<>> ELSE SubSeq(s, Min(at), Len(s))

-----------------------------------------------------------------------------
(* The end of a check: the last routed read, then what the state shows.    *)

\* The exception leaves runCheck: the state keeps what it showed.
Thrown(x) == [x EXCEPT !.ck = NoCheck, !.whole = @ /\ ~Raised(x)]

EndCheck(x) ==
  [x EXCEPT !.shown = [tip |-> x.tip, on |-> x.ck.on, off |-> x.ck.off],
            !.ck = [NoCheck EXCEPT !.calm = x.ck.calm]]

\* pickServer for a tip read: over the mesh first, then the API bases.
TipServers(x) ==
  LET ok == {k \in Keys : x.st[k] = "ok"}
      mesh == {k \in ok : x.conn[k] = "passed"}
  IN  IF mesh # {} THEN mesh ELSE ok \cap Api

\* Verdicts of tips nobody names any more are forgotten.
FinishProofs(x) ==
  LET seen == {x.ck.read[k] : k \in ToSet(x.ck.reads)}
      y == [x EXCEPT !.kept = [b \in Blocks |-> IF b \in seen THEN @[b] ELSE "none"]]
  IN  IF TipServers(y) = {} THEN EndCheck(y) ELSE [y EXCEPT !.ck.pc = "last"]

-----------------------------------------------------------------------------
(* Proofs: one for each distinct tip no rule places, from the first node   *)
(* of its group not tried yet, judged against one of a node at the tip.    *)

Index(s, k) == SelectInSeq(s, LAMBDA j : j = k)

\* One key of each group, in the order the groups were met.
GroupHeads(x) ==
  Among(x.ck.reads, {k \in x.ck.grp :
    \A j \in x.ck.grp : x.ck.read[j] = x.ck.read[k] =>
      Index(x.ck.reads, k) <= Index(x.ck.reads, j)})

GroupOf(x, b) == Among(x.ck.reads, {k \in x.ck.grp : x.ck.read[k] = b})

\* Mutated form of Untried: one refusal gives the whole group up.
UntriedOnce(x, k) ==
  LET group == GroupOf(x, x.ck.read[k])
  IN  IF ToSet(group) \cap x.ck.tried = {} THEN group ELSE <<>>

\* The nodes of k's group not asked yet.
Untried(x, k) == Among(GroupOf(x, x.ck.read[k]), Keys \ x.ck.tried)

\* The next pass, or the end when no group has a node left to ask.
ComposePass(x) ==
  LET open == Among(GroupHeads(x), {k \in Keys : x.ck.read[k] \notin x.ck.verified
                                                    /\ Untried(x, k) # <<>>})
      asked == [i \in DOMAIN open |-> Untried(x, open[i])[1]]
      first == IF x.tip = Root THEN NoKey ELSE FirstNodeAtChainTip(x)
  IN  IF Raised(x) THEN Thrown(x)
      ELSE IF open = <<>> THEN FinishProofs(x)
      ELSE [x EXCEPT !.ck.pc = "proofs", !.ck.got = <<>>, !.ck.tried = @ \cup ToSet(asked),
                     !.ck.pass = IF first = NoKey THEN asked ELSE <<first>> \o asked]

\* What a placement says of the node that names the tip.
PlacementEvent(p) ==
  CASE p = "tip" -> "success" [] p = "one-below" -> "trailing" [] OTHER -> "behind"

Placed(x, k) ==
  LET p == Place(x.tip, x.ck.read[k])
      y == ApplyEvent(x, k, PlacementEvent(p))
  IN  IF p \notin {"tip", "one-below", "below"} THEN x
      ELSE [y EXCEPT !.ck.on = @ \cup {k}, !.ck.off = @ \ {k},
                     !.ck.atTip = IF p = "tip" THEN @ \cup {k} ELSE @]

\* Mutated form of PlacedAgain: tips off the new chain keep their old status.
PlacedAgainOnly(x, k) == IF Raised(x) \/ x.ck.read[k] = Root THEN x ELSE Placed(x, k)

\* After a switch every tip read is placed on the new chain.
PlacedAgain(x, k) ==
  LET b == x.ck.read[k]
  IN  IF Raised(x) \/ b = Root THEN x
      ELSE IF Place(x.tip, b) \in {"tip", "one-below", "below"} THEN Placed(x, k)
      ELSE IF b \in x.ck.verified THEN x
      ELSE [ApplyEvent(x, k, "behind") EXCEPT !.ck.on = @ \ {k}, !.ck.off = @ \cup {k}]

\* settle, when the winner's tip is not held: the kept verdicts go.
Settled(x, b) ==
  Each([x EXCEPT !.tip = b, !.kept = [d \in Blocks |-> "none"], !.ck.atTip = {}],
       x.ck.reads, PlacedAgain)

\* tipEvent of one answer, where behind is its place on the winner's suffix.
AnswerEvent(a, behind) ==
  CASE a.kind = "proof" /\ behind = 0 -> "success"
    [] a.kind = "proof" /\ behind = 1 -> "trailing"
    [] a.kind \in {"proof", "short"}  -> "behind"
    [] a.kind = "lie"                 -> "lie"
    [] OTHER                          -> "failure"

\* One answer: its event, and for a proof of a group's tip the same event for
\* every node that names it.
Judged(x, k, a, winner) ==
  LET behind == IF a.kind = "proof" THEN BehindOnSuffix(winner, a.tip) ELSE -1
      ev == AnswerEvent(a, behind)
      b == x.ck.read[k]
      group == ToSet(GroupOf(x, b)) \cup {k}
      mates == Among(GroupOf(x, b), Keys \ {k})
      y == ApplyToAll(ApplyEvent(x, k, ev), mates, ev)
  IN  IF a.kind # "proof" \/ k \notin x.ck.tried THEN ApplyEvent(x, k, ev)
      ELSE [y EXCEPT !.ck.verified = @ \cup {b},
                     !.ck.on = IF behind >= 0 THEN @ \cup group ELSE @ \ group,
                     !.ck.off = IF behind >= 0 THEN @ \ group ELSE @ \cup group,
                     !.kept[b] = IF behind = 0 THEN @ ELSE ev]

\* The answers of the pass x ends, judged in their order.
JudgedAll(y, x, winner) ==
  Each(y, [i \in DOMAIN x.ck.got |-> i],
       LAMBDA z, i : Judged(z, x.ck.pass[i], x.ck.got[i], winner))

\* A fault of the network or another actor: the check may end astray.
Disturbed(x) == [x EXCEPT !.ck.calm = FALSE]

\* A header the clock refused, and a node at the tip that does not prove it,
\* leave a chain out of the comparison.
Compared(x) ==
  \A i \in DOMAIN x.ck.got :
    /\ x.ck.got[i].kind # "fail"
    /\ x.ck.pass[i] \notin x.ck.tried => x.ck.got[i].kind = "proof"

\* Nothing compares the tip proved with the one named, whose verdict it becomes.
AsNamed(x) ==
  \A i \in DOMAIN x.ck.got :
    x.ck.got[i].kind = "proof" => x.ck.got[i].tip = x.ck.read[x.ck.pass[i]]

\* The tail of a pass, once its last answer is in.
JudgePass(x) ==
  LET proofs == Among(x.ck.got, {a \in ToSet(x.ck.got) : a.kind = "proof"})
      tips == [i \in DOMAIN proofs |-> proofs[i].tip]
      winner == IF tips = <<>> THEN Root ELSE tips[Winner(tips)]
      seen == [x EXCEPT !.ck.calm = @ /\ Compared(x), !.whole = @ /\ AsNamed(x)]
      y == JudgedAll(seen, x, winner)
  IN  IF Raised(y) THEN Thrown(y)
      ELSE ComposePass(IF winner = Root \/ winner \in HeldBy(y.tip) THEN y ELSE Settled(y, winner))

-----------------------------------------------------------------------------
(* Placing the tips: fills first, then by hash, then the ones below the    *)
(* window against a header of a node at the tip.                           *)

\* A tip not placed goes to its group, unless its verdict is kept.
Grouped(x, k) ==
  LET b == x.ck.read[k]
  IN  IF Raised(x) \/ b = Root \/ k \in x.ck.on \/ x.st[k] = "blacklisted" THEN x
      ELSE IF x.kept[b] = "none" THEN [x EXCEPT !.ck.grp = @ \cup {k}]
      ELSE [ApplyEvent(x, k, x.kept[b]) EXCEPT !.ck.off = @ \cup {k}]

BeginProofs(x) == ComposePass(Each(x, x.ck.reads, Grouped))

\* The next tip below the window; with no node at the tip there is none to ask.
NextUnder(x) ==
  IF Raised(x) THEN Thrown(x)
  ELSE IF x.ck.under = <<>> \/ FirstNodeAtChainTip(x) = NoKey THEN BeginProofs(x)
  ELSE [x EXCEPT !.ck.pc = "under", !.ck.server = FirstNodeAtChainTip(x)]

\* A tip without a hash is a node with no chain.
PlacedFirst(x, k) ==
  IF Raised(x) THEN x
  ELSE IF x.ck.read[k] = Root THEN ApplyEvent(x, k, "behind")
  ELSE Placed(x, k)

PlaceReads(x) ==
  LET y == Each(x, x.ck.reads, PlacedFirst)
  IN  NextUnder([y EXCEPT !.ck.under =
        Among(y.ck.reads, {k \in Keys : y.ck.read[k] # Root
                                           /\ Place(y.tip, y.ck.read[k]) = "under"})])

Fillable(x, k) ==
  /\ x.tip # Root
  /\ Place(x.tip, x.ck.read[k]) = "above"
  /\ Height(x.ck.read[k]) - Height(x.tip) <= K

NextFill(x) ==
  LET rest == From(x.ck.queue, {k \in Keys : Fillable(x, k)})
  IN  IF Raised(x) THEN Thrown(x)
      ELSE IF rest = <<>> THEN PlaceReads([x EXCEPT !.ck.queue = <<>>])
      ELSE [x EXCEPT !.ck.pc = "fill", !.ck.queue = rest, !.ck.from = x.tip]

\* k among keys sorted by the height they named, behind those as high as it.
Ranked(x, q, k) ==
  LET before == {j \in Keys : Height(x.ck.read[j]) >= Height(x.ck.read[k])}
  IN  Among(q, before) \o <<k>> \o Among(q, Keys \ before)

\* The keys of s, the one that named the highest tip first.
HighestFirst(x, s) == Each(<<>>, s, LAMBDA q, k : Ranked(x, q, k))

\* The tips that carry a hash, the highest first.
BeginFills(x) ==
  LET hashed == Among(x.ck.reads, {k \in Keys : x.ck.read[k] # Root})
  IN  NextFill([x EXCEPT !.ck.queue = HighestFirst(x, hashed)])

-----------------------------------------------------------------------------
(* Dials and tip reads.                                                    *)

NextTip(x) ==
  IF Raised(x) THEN Thrown(x) ELSE IF x.ck.queue = <<>> THEN BeginFills(x) ELSE x

\* checkBase: over an open connection, else at the API base.
BaseOf(x, k) == IF x.conn[k] = "none" /\ k \in Api THEN "api" ELSE "mesh"

ChainCandidates(x) == Among(Candidates(x), Keys \ x.noChain)

BeginTips(x) ==
  NextTip([x EXCEPT !.ck.pc = "tips", !.ck.queue = ChainCandidates(x),
                    !.ck.route = [k \in Keys |-> BaseOf(x, k)]])

Dials(x, k) ==
  k \in Dialable /\ x.conn[k] = "none" /\ x.st[k] \notin {"absent", "retry"}

NextDial(x) ==
  LET rest == From(x.ck.queue, {k \in Keys : Dials(x, k)})
  IN  IF Raised(x) THEN Thrown(x)
      ELSE IF rest = <<>> THEN BeginTips(x)
      ELSE [x EXCEPT !.ck.pc = "dial", !.ck.queue = rest]

StartCheck(x) ==
  NextDial([x EXCEPT !.ck = [NoCheck EXCEPT !.pc = "dial", !.calm = TRUE,
                                            !.queue = ChainCandidates(x)]])

-----------------------------------------------------------------------------
(* The check's suspensions, one action each.                               *)

Spend == used < MaxEvents /\ used' = used + 1

\* A read is answered: its link's handshake is over and was passed, or it goes
\* to an API base.  While the handshake runs the read waits for it.
Waits(k) == c.ck.route[k] = "mesh" /\ c.conn[k] = "shaking"
Usable(k) == c.ck.route[k] = "api" \/ c.conn[k] = "passed"
ByItsOwnKey(k) == k \in Honest /\ ~(c.ck.route[k] = "api" /\ k \in LyingHosts)

Dialled ==
  /\ c.ck.pc = "dial"
  /\ LET k == Head(c.ck.queue)
         x == [c EXCEPT !.ck.queue = Tail(@)]
     IN  \/ /\ c' = NextDial([x EXCEPT !.conn[k] = "shaking"])
            /\ UNCHANGED used
         \* Every address failed.
         \/ /\ Spend
            /\ c' = NextDial(Disturbed(IF x.st[k] = "absent" THEN x ELSE Moved(x, k, "retry")))
         \* Every address answered with another key: wrongKey, which asks for the entry.
         \/ /\ Spend
            /\ c' = NextDial(Disturbed(IF x.st[k] = "absent" THEN [x EXCEPT !.ck.pc = "thrown"]
                                       ELSE x))
  /\ UNCHANGED nodeTip

TipRead ==
  /\ c.ck.pc = "tips" /\ ~Waits(Head(c.ck.queue))
  /\ LET k == Head(c.ck.queue)
         x == [c EXCEPT !.ck.queue = Tail(@)]
         took(b) == NextTip([x EXCEPT !.ck.reads = Append(@, k), !.ck.read[k] = b])
     IN  \/ /\ ~Usable(k)
            /\ c' = NextTip(IF c.conn[k] = "nochain" THEN x ELSE ApplyEvent(x, k, "failure"))
            /\ UNCHANGED used
         \/ /\ Usable(k) /\ ByItsOwnKey(k)
            /\ c' = took(nodeTip[k])
            /\ UNCHANGED used
         \/ /\ Usable(k) /\ ~ByItsOwnKey(k)
            /\ c' \in {took(b) : b \in LiarTips} \cup {NextTip(ApplyEvent(x, k, "lie"))}
            /\ UNCHANGED used
         \/ /\ Usable(k) /\ Spend
            /\ c' = NextTip(Disturbed(ApplyEvent(x, k, "failure")))
  /\ UNCHANGED nodeTip

\* A fill's reads, from the node's tip down to the client's.
FillRead ==
  /\ c.ck.pc = "fill" /\ ~Waits(Head(c.ck.queue))
  /\ LET k == Head(c.ck.queue)
         b == c.ck.read[k]
         x == [c EXCEPT !.ck.queue = Tail(@)]
         linked == IF Links(x.tip, x.ck.from, b) THEN [x EXCEPT !.tip = b] ELSE x
     IN  \/ /\ ~Usable(k)
            /\ c' = NextFill(ApplyEvent(x, k, "failure"))
            /\ UNCHANGED used
         \/ /\ Usable(k) /\ ByItsOwnKey(k)
            /\ c' = NextFill(IF b \in Path(nodeTip[k]) THEN linked ELSE x)
            /\ UNCHANGED used
         \/ /\ Usable(k) /\ ~ByItsOwnKey(k)
            /\ c' \in {NextFill(linked), NextFill(x), NextFill(ApplyEvent(x, k, "lie"))}
            /\ UNCHANGED used
         \/ /\ Usable(k) /\ Spend
            /\ c' = NextFill(Disturbed(ApplyEvent(x, k, "failure")))
  /\ UNCHANGED nodeTip

\* The header at the height of a tip below the window, read from a node at the tip.
UnderRead ==
  /\ c.ck.pc = "under" /\ ~Waits(c.ck.server)
  /\ LET f == c.ck.server
         k == Head(c.ck.under)
         b == c.ck.read[k]
         x == [c EXCEPT !.ck.under = Tail(@)]
         found == [ApplyEvent(x, k, "behind") EXCEPT !.ck.on = @ \cup {k}]
     IN  \/ /\ ~Usable(f)
            /\ c' = NextUnder(ApplyEvent(x, f, "failure"))
            /\ UNCHANGED used
         \/ /\ Usable(f) /\ ByItsOwnKey(f)
            /\ c' = NextUnder(IF b \in Path(nodeTip[f]) THEN found ELSE x)
            /\ UNCHANGED used
         \/ /\ Usable(f) /\ ~ByItsOwnKey(f)
            /\ c' \in {NextUnder(found), NextUnder(x), NextUnder(ApplyEvent(x, f, "lie"))}
            /\ UNCHANGED used
         \/ /\ Usable(f) /\ Spend
            /\ c' = NextUnder(Disturbed(ApplyEvent(x, f, "failure")))
  /\ UNCHANGED nodeTip

\* What a node's proof of b is to the verifier; a header ahead of the client's
\* clock may be refused.
ProofsOf(b) ==
  IF Height(b) < MinProved THEN {[kind |-> "short", tip |-> b]}
  ELSE IF Path(b) \cap BadHeaders # {} THEN {[kind |-> "lie", tip |-> b]}
  ELSE {[kind |-> "proof", tip |-> b]}
         \cup {[kind |-> "fail", tip |-> b] : d \in Path(b) \cap EarlyHeaders}

\* The pass goes on with one more answer, or ends.
Answer(x, a) ==
  LET y == [x EXCEPT !.ck.got = Append(@, a)]
  IN  IF Len(y.ck.got) = Len(y.ck.pass) THEN JudgePass(y) ELSE y

ProofRead ==
  /\ c.ck.pc = "proofs"
  /\ LET k == c.ck.pass[Len(c.ck.got) + 1]
         failed == [kind |-> "fail", tip |-> Root]
         lied == [kind |-> "lie", tip |-> Root]
     IN  /\ ~Waits(k)
         /\ \/ /\ ~Usable(k)
               /\ c' = Answer(c, failed)
               /\ UNCHANGED used
            \/ /\ Usable(k) /\ ByItsOwnKey(k)
               /\ \E a \in ProofsOf(nodeTip[k]) : c' = Answer(c, a)
               /\ UNCHANGED used
            \/ /\ Usable(k) /\ ~ByItsOwnKey(k)
               /\ \/ c' = Answer(c, lied)
                  \/ \E b \in LiarTips : \E a \in ProofsOf(b) : c' = Answer(c, a)
               /\ UNCHANGED used
            \/ /\ Usable(k) /\ Spend
               /\ c' = Disturbed(Answer(c, failed))
  /\ UNCHANGED nodeTip

\* The check's own routed read of the tip.  Only a mesh read's failure is
\* caught: one at an API base leaves the check by its exception.
LastRead ==
  /\ c.ck.pc = "last"
  /\ \/ /\ c' = EndCheck(c)
        /\ UNCHANGED used
     \/ \E k \in TipServers(c) :
          LET x == [c EXCEPT !.ck.route[k] = IF c.conn[k] = "passed" THEN "mesh" ELSE "api"]
          IN  \/ /\ k \notin Honest \/ (x.ck.route[k] = "api" /\ k \in LyingHosts)
                 /\ c' = EndCheck(ApplyEvent(x, k, "lie"))
                 /\ UNCHANGED used
              \/ /\ Spend
                 /\ c' = IF x.ck.route[k] = "mesh" THEN EndCheck(c) ELSE Thrown(c)
  /\ UNCHANGED nodeTip

-----------------------------------------------------------------------------
(* Timers.  A timer's callback runs or joins a check and arms the next one *)
(* when the check is over, some microtasks after it.                       *)

\* triggerImmediateCheck: nothing while a check runs; the timer remembered is
\* replaced, and none remembered means one more.
Triggered(x) ==
  IF x.ck.pc # "off" \/ x.handle THEN x
  ELSE [x EXCEPT !.armed = @ + 1, !.handle = TRUE]

Checked(x) == IF x.ck.pc = "off" THEN StartCheck(x) ELSE x

TimerFires ==
  /\ c.armed > 0
  /\ c' = Checked([c EXCEPT !.armed = @ - 1, !.handle = FALSE, !.waiters = @ + 1])
  /\ UNCHANGED <<nodeTip, used>>

\* Mutated form of Rearm: a check that threw arms no timer.
RearmOnSuccess ==
  /\ c.waiters > 0 /\ c.ck.pc = "off"
  /\ c' = [c EXCEPT !.armed = IF c.shown.tip = c.tip THEN @ + c.waiters ELSE @,
                    !.handle = TRUE, !.waiters = 0]
  /\ UNCHANGED <<nodeTip, used>>

Rearm ==
  /\ c.waiters > 0 /\ c.ck.pc = "off"
  /\ c' = [c EXCEPT !.armed = @ + c.waiters, !.handle = TRUE, !.waiters = 0]
  /\ UNCHANGED <<nodeTip, used>>

\* The page's own check.
CheckAsked ==
  /\ c.ck.pc = "off" /\ Spend
  /\ c' = StartCheck(c)
  /\ UNCHANGED nodeTip

RoutedReadFails ==
  /\ Spend
  /\ c' = Triggered(c)
  /\ UNCHANGED nodeTip

-----------------------------------------------------------------------------
(* Links, gossip, discovery and the reader's hand.                         *)

Handshake(k) ==
  /\ c.conn[k] = "shaking"
  /\ \/ /\ c' = [c EXCEPT !.conn[k] = "passed"]
        /\ UNCHANGED used
     \* Its capabilities name no chain.
     \/ /\ k \notin Honest
        /\ c' = [c EXCEPT !.conn[k] = "nochain", !.noChain = @ \cup {k}]
        /\ UNCHANGED used
     \/ /\ Spend
        /\ c' = Disturbed([c EXCEPT !.conn[k] = "failed"])
  /\ UNCHANGED nodeTip

LinkCloses(k) ==
  /\ c.conn[k] # "none" /\ Spend
  /\ c' = Disturbed([c EXCEPT !.conn[k] = "none"])
  /\ UNCHANGED nodeTip

\* A retry's time comes.
WaitEnds(k) ==
  /\ c.st[k] = "retry"
  /\ c' = [c EXCEPT !.st[k] = "due"]
  /\ UNCHANGED <<nodeTip, used>>

\* An honest node switches or grows, to more work only.
Adopts(k, b) ==
  /\ Spend
  /\ Work[b] > Work[nodeTip[k]]
  /\ nodeTip' = [nodeTip EXCEPT ![k] = b]
  /\ c' = Disturbed(c)

\* validateGossipMessage and handleGossipMessage of one block from k: a lie is
\* its sender's, if listed; a header off its schedule is refused without blame; a
\* block that does not extend the tip asks for a check.
Gossip(k, b, forged) ==
  /\ c.conn[k] # "none" /\ Spend
  /\ k \in Honest => b \notin BadHeaders /\ ~forged
  /\ forged => b \in ForgedBodies
  /\ LET verdict == BlockVerdict(c.tip, b, forged)
     IN  \/ /\ verdict \in {"ignore", "refuse"} /\ c' = c
         \/ /\ verdict = "lie"
            /\ c' = IF c.st[k] = "absent" THEN c ELSE Disturbed(Moved(c, k, "blacklisted"))
         \/ /\ verdict = "accept" /\ Extends(c.tip, b)
            /\ c' = Disturbed([c EXCEPT !.tip = b, !.shown.tip = b])
         \/ /\ verdict = "accept" /\ ~Extends(c.tip, b)
            /\ c' = IF c.tip = Root THEN c ELSE Triggered(c)
  /\ UNCHANGED nodeTip

Discovered(k) ==
  /\ c.st[k] = "absent"
  /\ c' = Added(c, k)
  /\ UNCHANGED <<nodeTip, used>>

HandAdds(k) ==
  /\ Spend
  /\ c' = Triggered(AddedByHand(c, k))
  /\ UNCHANGED nodeTip

HandRemoves(k) ==
  /\ Spend /\ k \in c.byHand
  /\ c' = RemovedByHand(c, k)
  /\ UNCHANGED nodeTip

Next ==
  \/ Dialled \/ TipRead \/ FillRead \/ UnderRead \/ ProofRead \/ LastRead
  \/ TimerFires \/ Rearm \/ CheckAsked \/ RoutedReadFails
  \/ \E k \in Keys : Handshake(k) \/ LinkCloses(k) \/ WaitEnds(k) \/ Discovered(k)
  \/ \E k \in Honest, b \in HonestTips : Adopts(k, b)
  \/ \E k \in Keys, b \in Blocks, forged \in BOOLEAN : Gossip(k, b, forged)
  \/ \E k \in HandKeys : HandAdds(k) \/ HandRemoves(k)

Spec == Init /\ [][Next]_vars

-----------------------------------------------------------------------------
(* Properties. *)

\* The last check ran to its end, compared every chain, and nothing has moved
\* since it began; and the verdicts kept are sound: no check before it was cut
\* short by a key that left the list, none took a proof for another tip's.
Calm == c.ck.pc = "off" /\ c.ck.calm /\ c.whole

\* The honest keys whose tip the last check read from the key itself, not from
\* a host that answers in its name.
ReadByKey == {k \in Honest : /\ c.st[k] \in {"ok", "trailing", "behind"}
                             /\ k \in LyingHosts => c.conn[k] = "passed"}

\* No key is blacklisted for what it did not do: another node's answer, an
\* API host's, an old verdict or a block it only forwarded.
HonestKept == TypeOK /\ \A k \in Honest : c.st[k] # "blacklisted"

\* After a calm check every status tells where the node stands against the
\* chain held, and so do the counts shown: a tip read goes to nodes at the tip.
StatusTellsTip ==
  Calm =>
    /\ c.shown.tip = c.tip
    /\ \A k \in ReadByKey :
         /\ c.st[k] = "ok" <=> nodeTip[k] = c.tip
         /\ c.st[k] = "trailing" => nodeTip[k] = Parent(c.tip)
         /\ k \in c.shown.on => nodeTip[k] \in Path(c.tip)
         /\ k \in c.shown.off => nodeTip[k] \notin Window(c.tip)

\* The chain held carries its work, whoever it came from.
TipCarriesWork == Path(c.tip) \cap BadHeaders = {}

\* The chain held carries its work, and a calm check leaves the client on one
\* no honest node it read has more work than, whatever the others named,
\* proved and refused.
CheckFindsHeaviest ==
  /\ TipCarriesWork
  /\ Calm => \A k \in ReadByKey :
               Height(nodeTip[k]) >= MinProved => Work[nodeTip[k]] <= Work[c.tip]

\* A check is always to come: whatever a check throws, a timer is armed again.
ChecksGoOn == c.armed > 0 \/ c.waiters > 0 \/ c.ck.pc # "off"
=============================================================================
