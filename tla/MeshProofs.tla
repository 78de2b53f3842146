----------------------------- MODULE MeshProofs -----------------------------
(***************************************************************************)
(* The mesh client for every block tree, every set of nodes and every      *)
(* split of them into honest and lying ones: no honest node is ever        *)
(* blacklisted, the chain held carries its work, and a timer is always to  *)
(* fire.  The invariant is a predicate of one client (Well), kept by every *)
(* function a check is composed of; a check that suspends also keeps what  *)
(* its next read needs (Posed).                                            *)
(***************************************************************************)
EXTENDS MeshClient, SumProofs, SequenceTheorems

-----------------------------------------------------------------------------
(* The invariant. *)

Conns == {"none", "shaking", "passed", "failed", "nochain"}
Pcs == {"off", "dial", "tips", "fill", "under", "proofs", "last", "thrown"}
Answers == [kind : {"proof", "short", "lie", "fail"}, tip : Nodes]

\* A check's record, whole or cut short.
Checks ==
  [pc : Pcs, calm : BOOLEAN, queue : Seq(Keys), reads : Seq(Keys),
   read : [Keys -> Nodes], route : [Keys -> {"mesh", "api"}], from : Nodes,
   server : Keys \cup {NoKey}, under : Seq(Keys), atTip : SUBSET Keys, on : SUBSET Keys,
   off : SUBSET Keys, grp : SUBSET Keys, tried : SUBSET Keys, verified : SUBSET Nodes,
   pass : Seq(Keys), got : Seq(Answers)]

Verdicts == {"none", "trailing", "behind"}
Showns == [tip : Nodes, on : SUBSET Keys, off : SUBSET Keys]

\* A client's record.
Clients ==
  [list : Seq(Keys), st : [Keys -> Statuses], byHand : SUBSET Keys, conn : [Keys -> Conns],
   noChain : SUBSET Keys, tip : Nodes, kept : [Blocks -> Verdicts], shown : Showns,
   armed : Nat, handle : BOOLEAN, waiters : Nat, whole : BOOLEAN, ck : Checks]

\* The path to b has every header its work.
Clean(b) == Path(b) \cap BadHeaders = {}

\* A key has a status exactly while it is listed.
Listed(x) == \A k \in Keys : x.st[k] # "absent" <=> Contains(x.list, k)

Unblamed(x) == \A k \in Honest : x.st[k] # "blacklisted"

Timed(x) == x.armed > 0 \/ x.waiters > 0

\* A proof got is of a clean tip, and a lie got of an honest key came by its host.
Answered(x) ==
  /\ Len(x.ck.got) <= Len(x.ck.pass)
  /\ \A i \in DOMAIN x.ck.got :
       /\ x.ck.got[i].kind = "proof" => Clean(x.ck.got[i].tip)
       /\ x.ck.got[i].kind = "lie" /\ x.ck.pass[i] \in Honest => x.ck.route[x.ck.pass[i]] = "api"

Sound(x) == x \in Clients /\ Listed(x) /\ Unblamed(x) /\ Timed(x) /\ Clean(x.tip)

Well(x) == Sound(x) /\ Answered(x)

\* A check waits where there is something to wait for, and never with its exception.
Posed(x) ==
  /\ x.ck.pc # "thrown"
  /\ x.ck.pc \in {"dial", "tips", "fill"} => x.ck.queue # <<>>
  /\ x.ck.pc = "dial" => x.ck.got = <<>>
  /\ x.ck.pc = "under" => x.ck.under # <<>> /\ x.ck.server \in Keys
  /\ x.ck.pc = "proofs" => Len(x.ck.got) < Len(x.ck.pass)

\* The honest nodes' own chains carry their work too.
Surroundings ==
  /\ nodeTip \in [Keys -> Nodes] /\ \A k \in Honest : Clean(nodeTip[k])
  /\ used \in 0 .. MaxEvents

IInv == Well(c) /\ Posed(c) /\ Surroundings

\* y is well, and its reads take the routes of x.
Along(x, y) == Well(y) /\ y.ck.route = x.ck.route

-----------------------------------------------------------------------------
(* Sequences: what follows an element, and the parts of two put together. *)

(* What follows the first element in S is a sequence of the same elements. *)
LEMMA FromIs ==
  ASSUME NEW T, NEW s \in Seq(T), NEW S
  PROVE  From(s, S) \in Seq(T)
<1> DEFINE at == {i \in DOMAIN s : s[i] \in S}
<1>1. CASE at = {}
  BY <1>1 DEF From
<1>2. CASE at # {}
  <2>1. at \subseteq Nat /\ at \subseteq 1 .. Len(s)
    OBVIOUS
  <2> HIDE DEF at
  <2>2. Min(at) \in 1 .. Len(s)
    BY <1>2, <2>1, MinOf
  <2>3. From(s, S) = SubSeq(s, Min(at), Len(s))
    BY <1>2 DEF From, at
  <2> QED BY <2>2, <2>3
<1> QED BY <1>1, <1>2

(* The first key asked is one of those asked in the tail. *)
LEMMA TailIs ==
  ASSUME NEW T, NEW s \in Seq(T), s # <<>>
  PROVE  Head(s) \in T /\ Tail(s) \in Seq(T)
  OBVIOUS
-----------------------------------------------------------------------------
(* The block tree. *)

(* A node's path consists of blocks, and a block on it is the end of its part. *)
LEMMA OnPath ==
  ASSUME NEW x \in Nodes, NEW h \in 1 .. Height(x)
  PROVE  Chain[x][h] \in Blocks /\ Height(Chain[x][h]) = h
         /\ \A i \in 1 .. h : Chain[Chain[x][h]][i] = Chain[x][i]
<1>1. Chain[x] \in Seq(Blocks) /\ Height(x) = Len(Chain[x])
  BY ChainAssumption DEF Height
<1>2. x # Root
  BY <1>1, ChainAssumption
<1>3. x \in Blocks
  BY <1>2 DEF Nodes
<1>4. Chain[Chain[x][h]] = SubSeq(Chain[x], 1, h)
  BY <1>1, <1>3, ChainAssumption
<1>5. h \in 1 .. Len(Chain[x])
  BY <1>1
<1> DEFINE s == Chain[x]
<1> HIDE DEF s
<1>6. Len(SubSeq(s, 1, h)) = h /\ \A i \in 1 .. h : SubSeq(s, 1, h)[i] = s[i]
  BY <1>1, <1>5 DEF s
<1> QED BY <1>1, <1>4, <1>5, <1>6 DEF Height, s

(* Heights are naturals, a block's at least 1; Root has no path. *)
LEMMA Heights ==
  /\ \A x \in Nodes : Height(x) \in Nat
  /\ \A b \in Blocks : Height(b) >= 1 /\ Chain[b][Height(b)] = b /\ Parent(b) \in Nodes
  /\ Root \in Nodes /\ Clean(Root)
<1>1. \A x \in Nodes : Chain[x] \in Seq(Blocks)
  BY ChainAssumption
<1>2. \A x \in Nodes : Height(x) \in Nat
  BY <1>1 DEF Height
<1>3. Root \in Nodes /\ Height(Root) = 0
  BY ChainAssumption DEF Nodes, Height
<1>4. Clean(Root)
  BY <1>3 DEF Clean, Path
<1>5. ASSUME NEW b \in Blocks PROVE Height(b) >= 1 /\ Chain[b][Height(b)] = b /\ Parent(b) \in Nodes
  <2>1. b \in Nodes /\ Height(b) >= 1 /\ Chain[b][Height(b)] = b
    BY ChainAssumption DEF Height, Nodes
  <2>2. CASE Height(b) = 1
    BY <1>3, <2>1, <2>2 DEF Parent
  <2>3. CASE Height(b) # 1
    <3>1. Height(b) - 1 \in 1 .. Height(b)
      BY <1>2, <2>1, <2>3
    <3>2. Chain[b][Height(b) - 1] \in Blocks
      BY <2>1, <3>1, OnPath
    <3> QED BY <2>1, <2>3, <3>2 DEF Parent, Nodes
  <2> QED BY <2>1, <2>2, <2>3
<1> QED BY <1>2, <1>3, <1>4, <1>5

(* A path is clean when it is up to a block on it and above that block. *)
LEMMA CleanAbove ==
  ASSUME NEW b \in Nodes, NEW from \in Path(b), Clean(from),
         PathAbove(b, Height(from)) \cap BadHeaders = {}
  PROVE  Clean(b)
<1>1. PICK h \in 1 .. Height(b) : from = Chain[b][h]
  BY DEF Path
<1>2. Height(from) = h /\ \A i \in 1 .. h : Chain[from][i] = Chain[b][i]
  BY <1>1, OnPath
<1>3. ASSUME NEW i \in 1 .. Height(b) PROVE Chain[b][i] \notin BadHeaders
  <2>0. Height(b) \in Nat
    BY Heights
  <2>1. CASE i <= h
    <3>1. i \in 1 .. Height(from) /\ Chain[b][i] = Chain[from][i]
      BY <1>2, <2>0, <2>1
    <3> QED BY <3>1 DEF Clean, Path
  <2>2. CASE ~(i <= h)
    <3>1. i \in (Height(from) + 1) .. Height(b)
      BY <1>2, <2>0, <2>2
    <3> QED BY <3>1 DEF PathAbove
  <2> QED BY <2>1, <2>2
<1> QED BY <1>3 DEF Clean, Path

(* A block with its work on a clean chain leaves it clean. *)
LEMMA CleanChild ==
  ASSUME NEW b \in Blocks, b \notin BadHeaders, Clean(Parent(b))
  PROVE  Clean(b)
<1>1. b \in Nodes /\ Height(b) \in Nat /\ Height(b) >= 1 /\ Chain[b][Height(b)] = b
  BY Heights DEF Nodes
<1>2. ASSUME NEW i \in 1 .. Height(b) PROVE Chain[b][i] \notin BadHeaders
  <2>1. CASE i = Height(b)
    BY <1>1, <2>1
  <2>2. CASE i # Height(b)
    <3>1. Height(b) # 1 /\ Height(b) - 1 \in 1 .. Height(b) /\ i \in 1 .. Height(b) - 1
      BY <1>1, <2>2
    <3>2. Height(Parent(b)) = Height(b) - 1 /\ Chain[Parent(b)][i] = Chain[b][i]
      BY <1>1, <3>1, OnPath DEF Parent
    <3> QED BY <3>1, <3>2 DEF Clean, Path
  <2> QED BY <2>1, <2>2
<1> QED BY <1>2 DEF Clean, Path

\* What Winner chooses among the first n of the tips.
Leads(tips, n, i) ==
  /\ \A j \in 1 .. n : Work[tips[j]] <= Work[tips[i]]
  /\ \A j \in 1 .. n : Work[tips[j]] = Work[tips[i]] => i <= j

(* Among tips proved one leads: the first of those with most work. *)
LEMMA WinnerIs ==
  ASSUME NEW tips \in Seq(Nodes), tips # <<>>
  PROVE  Winner(tips) \in DOMAIN tips
<1> DEFINE n == Len(tips)
           Led(k) == \E i \in 1 .. k : Leads(tips, k, i)
           G == {k \in 0 .. n : k = 0 \/ Led(k)}
<1>0. n \in Nat /\ n >= 1 /\ DOMAIN tips = 1 .. n
  OBVIOUS
<1>1. \A j \in 1 .. n : Work[tips[j]] \in Nat
  BY <1>0, WorkAssumption
<1> HIDE DEF n
<1>2. 0 \in G
  BY <1>0
<1>3. ASSUME NEW k \in 1 .. n, k - 1 \in G PROVE k \in G
  <2>0. k \in 1 .. k /\ k \in 0 .. n /\ \A j \in 1 .. k : j \in 1 .. n /\ (j = k \/ j \in 1 .. k - 1)
    BY <1>0
  <2>1. CASE k = 1
    <3>1. Leads(tips, 1, 1)
      BY <1>0, <1>1 DEF Leads
    <3> QED BY <2>0, <2>1, <3>1
  <2>2. CASE k # 1
    <3>1. PICK i \in 1 .. k - 1 : Leads(tips, k - 1, i)
      BY <1>3, <2>2
    <3>2. i \in 1 .. k /\ i < k /\ i \in 1 .. n
      BY <1>0
    <3>3. CASE Work[tips[k]] > Work[tips[i]]
      <4>1. \A j \in 1 .. k - 1 : Work[tips[j]] < Work[tips[k]]
        <5> TAKE j \in 1 .. k - 1
        <5>1. Work[tips[j]] <= Work[tips[i]] /\ j \in 1 .. n
          BY <1>0, <3>1 DEF Leads
        <5> QED BY <1>1, <2>0, <3>2, <3>3, <5>1
      <4>2. \A j \in 1 .. k : Work[tips[j]] <= Work[tips[k]]
                              /\ (Work[tips[j]] = Work[tips[k]] => k <= j)
        <5> TAKE j \in 1 .. k
        <5>1. Work[tips[j]] \in Nat /\ Work[tips[k]] \in Nat
          BY <1>1, <2>0
        <5> QED BY <2>0, <4>1, <5>1
      <4> QED BY <2>0, <4>2 DEF Leads
    <3>4. CASE ~(Work[tips[k]] > Work[tips[i]])
      <4>1. \A j \in 1 .. k : Work[tips[j]] <= Work[tips[i]]
                              /\ (Work[tips[j]] = Work[tips[i]] => i <= j)
        <5> TAKE j \in 1 .. k
        <5>1. Work[tips[j]] \in Nat /\ Work[tips[i]] \in Nat
          BY <1>1, <2>0, <3>2
        <5>2. CASE j = k
          BY <3>2, <3>4, <5>1, <5>2
        <5>3. CASE j # k
          BY <2>0, <3>1, <5>3 DEF Leads
        <5> QED BY <5>2, <5>3
      <4> QED BY <2>0, <3>2, <4>1 DEF Leads
    <3> QED BY <3>3, <3>4
  <2> QED BY <2>1, <2>2
<1>4. 0 .. n \subseteq G
  <2> HIDE DEF G
  <2> QED BY <1>0, <1>2, <1>3, Upto
<1>5. PICK i \in 1 .. n : Leads(tips, n, i)
  BY <1>0, <1>4
<1>6. \E i_1 \in DOMAIN tips :
        /\ \A j \in DOMAIN tips : Work[tips[j]] <= Work[tips[i_1]]
        /\ \A j \in DOMAIN tips : Work[tips[j]] = Work[tips[i_1]] => i_1 <= j
  BY <1>0, <1>5 DEF Leads
<1> QED BY <1>6 DEF Winner
-----------------------------------------------------------------------------
(* One client's record, and the events on its list. *)

\* z differs from x in nothing the invariant is about but its type.
Same(x, z) ==
  /\ z.list = x.list /\ z.st = x.st /\ z.tip = x.tip
  /\ z.armed = x.armed /\ z.waiters = x.waiters
  /\ z.ck.pass = x.ck.pass /\ z.ck.got = x.ck.got /\ z.ck.route = x.ck.route

(* A step that moves none of that is along. *)
LEMMA SameAlong ==
  ASSUME NEW x, Well(x), NEW z \in Clients, Same(x, z)
  PROVE  Along(x, z)
  BY DEF Along, Well, Sound, Same, Listed, Unblamed, Timed, Answered

(* Steps along follow one another. *)
LEMMA AlongTrans ==
  ASSUME NEW x, NEW y, NEW z, Along(x, y), Along(y, z)
  PROVE  Along(x, z)
  BY DEF Along

(* A client with another check, and that check with its progress set. *)
LEMMA WithCheck ==
  ASSUME NEW x \in Clients, NEW ck \in Checks
  PROVE  /\ [x EXCEPT !.ck = ck] \in Clients
         /\ [x EXCEPT !.ck = ck].ck = ck
         /\ [x EXCEPT !.ck = ck].list = x.list /\ [x EXCEPT !.ck = ck].st = x.st
         /\ [x EXCEPT !.ck = ck].tip = x.tip /\ [x EXCEPT !.ck = ck].armed = x.armed
         /\ [x EXCEPT !.ck = ck].waiters = x.waiters /\ [x EXCEPT !.ck = ck].conn = x.conn
  BY DEF Clients

(* The types of a check's parts. *)
LEMMA CheckParts ==
  ASSUME NEW x \in Clients
  PROVE  /\ x.ck \in Checks /\ x.ck.pc \in Pcs
         /\ x.ck.queue \in Seq(Keys) /\ x.ck.reads \in Seq(Keys) /\ x.ck.under \in Seq(Keys)
         /\ x.ck.read \in [Keys -> Nodes] /\ x.ck.route \in [Keys -> {"mesh", "api"}]
         /\ x.ck.pass \in Seq(Keys) /\ x.ck.got \in Seq(Answers) /\ x.ck.from \in Nodes
         /\ x.ck.server \in Keys \cup {NoKey}
         /\ x.ck.on \subseteq Keys /\ x.ck.off \subseteq Keys /\ x.ck.grp \subseteq Keys
         /\ x.ck.tried \subseteq Keys /\ x.ck.atTip \subseteq Keys /\ x.ck.verified \subseteq Nodes
         /\ x.ck.calm \in BOOLEAN
<1>1. x.ck \in Checks
  BY DEF Clients
<1> QED BY <1>1 DEF Checks

(* An exception only marks the check. *)
LEMMA ThrowSound ==
  ASSUME NEW x, Sound(x)
  PROVE  LET z == [x EXCEPT !.ck.pc = "thrown"]
         IN  Sound(z) /\ z.ck = [x.ck EXCEPT !.pc = "thrown"]
<1> DEFINE ck == [x.ck EXCEPT !.pc = "thrown"]
<1>1. x \in Clients
  BY DEF Sound
<1>2. ck \in Checks
  <2>1. x.ck \in Checks
    BY <1>1, CheckParts
  <2> QED BY <2>1 DEF Checks, Pcs
<1> DEFINE z == [x EXCEPT !.ck.pc = "thrown"]
<1>3. z = [x EXCEPT !.ck = ck]
  BY <1>1 DEF Clients
<1> HIDE DEF ck, z
<1>4. z \in Clients /\ z.ck = ck /\ z.list = x.list /\ z.st = x.st /\ z.tip = x.tip
      /\ z.armed = x.armed /\ z.waiters = x.waiters
  BY <1>1, <1>2, <1>3, WithCheck
<1>5. Sound(z)
  BY <1>4 DEF Sound, Listed, Unblamed, Timed
<1> QED BY <1>4, <1>5 DEF z, ck

(* A listed key changes its status, and only a liar's to blacklisted. *)
LEMMA MovedSound ==
  ASSUME NEW x, Sound(x), NEW k \in Keys, x.st[k] # "absent",
         NEW status \in Statuses \ {"absent"}, k \in Honest => status # "blacklisted"
  PROVE  LET z == Moved(x, k, status)
         IN  Sound(z) /\ z.ck = x.ck /\ z.conn = x.conn
<1>1. CASE x.st[k] = "blacklisted"
  BY <1>1 DEF Moved
<1>2. CASE x.st[k] # "blacklisted"
  <2> DEFINE z == [x EXCEPT !.st[k] = status]
  <2>1. x \in Clients /\ x.st \in [Keys -> Statuses]
    BY DEF Sound, Clients
  <2>2. z \in Clients /\ z.st = [x.st EXCEPT ![k] = status] /\ z.ck = x.ck /\ z.list = x.list
        /\ z.tip = x.tip /\ z.armed = x.armed /\ z.waiters = x.waiters /\ z.conn = x.conn
    BY <2>1 DEF Clients
  <2>3. Moved(x, k, status) = z
    BY <1>2 DEF Moved
  <2> HIDE DEF z
  <2>4. \A j \in Keys : z.st[j] = IF j = k THEN status ELSE x.st[j]
    BY <2>1, <2>2
  <2>5. Listed(z)
    BY <2>2, <2>4 DEF Sound, Listed
  <2>6. Unblamed(z)
    BY <2>4, KeyAssumption DEF Sound, Unblamed
  <2>7. Timed(z) /\ Clean(z.tip)
    BY <2>2 DEF Sound, Timed
  <2> QED BY <2>2, <2>3, <2>5, <2>6, <2>7 DEF Sound
<1> QED BY <1>1, <1>2

\* What may be held against k: a lie only of a liar, or at k's API base.
Fair(x, k, ev) == ev = "lie" /\ k \in Honest => x.ck.route[k] = "api"

(* An event blames no honest key; it moves k's status or ends the check. *)
LEMMA EventSound ==
  ASSUME NEW x, Sound(x), NEW k \in Keys, NEW ev, Fair(x, k, ev)
  PROVE  LET z == ApplyEvent(x, k, ev)
         IN  /\ Sound(z)
             /\ z.ck = x.ck \/ z.ck = [x.ck EXCEPT !.pc = "thrown"]
             /\ x.st[k] # "absent" => z.ck = x.ck
<1> DEFINE status == StatusFor(ev, x.ck.route[k])
<1>1. status \in Statuses \ {"absent"}
  BY DEF StatusFor, Statuses
<1>2. k \in Honest => status # "blacklisted"
  BY DEF StatusFor, Fair
<1>3. CASE Raised(x)
  BY <1>3 DEF ApplyEvent
<1>4. CASE ~Raised(x) /\ x.st[k] = "absent"
  BY <1>4, ThrowSound DEF ApplyEvent
<1>5. CASE ~Raised(x) /\ x.st[k] # "absent"
  <2>1. ApplyEvent(x, k, ev) = Moved(x, k, status)
    BY <1>5 DEF ApplyEvent
  <2> HIDE DEF status
  <2> QED BY <1>1, <1>2, <1>5, <2>1, MovedSound
<1> QED BY <1>3, <1>4, <1>5

\* The check z has, against the one x has: the same, or ended by an exception.
Kept(x, z) == z.ck = x.ck \/ z.ck = [x.ck EXCEPT !.pc = "thrown"]

(* So an event is a step along. *)
LEMMA EventAlong ==
  ASSUME NEW x, Well(x), NEW k \in Keys, NEW ev, Fair(x, k, ev)
  PROVE  Along(x, ApplyEvent(x, k, ev)) /\ Kept(x, ApplyEvent(x, k, ev))
<1> DEFINE z == ApplyEvent(x, k, ev)
<1>1. Sound(z) /\ Kept(x, z)
  BY EventSound DEF Well, Kept
<1> HIDE DEF z
<1>2. x.ck \in Checks
  BY CheckParts DEF Well, Sound
<1>3. z.ck.pass = x.ck.pass /\ z.ck.got = x.ck.got /\ z.ck.route = x.ck.route
  BY <1>1, <1>2 DEF Kept, Checks
<1> QED BY <1>1, <1>3 DEF z, Along, Well, Answered
-----------------------------------------------------------------------------
(* The end of a check. *)

\* A client that waits, its check over or at a read.
Waiting(x) == Well(x) /\ Posed(x)

(* Another progress of the check is a step along. *)
LEMMA CheckAlong ==
  ASSUME NEW x, Well(x), NEW ck \in Checks,
         ck.pass = x.ck.pass, ck.got = x.ck.got, ck.route = x.ck.route
  PROVE  Along(x, [x EXCEPT !.ck = ck])
<1> DEFINE z == [x EXCEPT !.ck = ck]
<1>1. x \in Clients
  BY DEF Well, Sound
<1>2. z \in Clients /\ Same(x, z)
  BY <1>1, WithCheck DEF Same
<1> HIDE DEF z
<1>3. Along(x, z)
  BY <1>2, SameAlong
<1> QED BY <1>3 DEF z

(* With no answer got yet, the answers are sound. *)
LEMMA FreshWell ==
  ASSUME NEW x, Sound(x), NEW z \in Clients,
         z.list = x.list, z.st = x.st, z.tip = x.tip, z.armed = x.armed, z.waiters = x.waiters,
         z.ck.got = <<>>
  PROVE  Well(z)
<1>1. z.ck.pass \in Seq(Keys)
  BY CheckParts
<1>2. Answered(z)
  BY <1>1 DEF Answered
<1> QED BY <1>2 DEF Well, Sound, Listed, Unblamed, Timed

(* The record of no check. *)
LEMMA NoCheckIs ==
  /\ NoCheck \in Checks /\ NoCheck.pc = "off" /\ NoCheck.got = <<>> /\ NoCheck.pass = <<>>
  /\ NoCheck.reads = <<>> /\ NoCheck.under = <<>> /\ NoCheck.queue = <<>>
  /\ \A calm \in BOOLEAN :
       /\ [NoCheck EXCEPT !.calm = calm] \in Checks
       /\ [NoCheck EXCEPT !.calm = calm].pc = "off" /\ [NoCheck EXCEPT !.calm = calm].got = <<>>
<1> DEFINE read == [k \in Keys |-> Root]
           route == [k \in Keys |-> "mesh"]
<1>1. read \in [Keys -> Nodes] /\ route \in [Keys -> {"mesh", "api"}] /\ Root \in Nodes
  BY Heights
<1>2. NoCheck =
        [pc |-> "off", calm |-> FALSE, queue |-> <<>>, reads |-> <<>>, read |-> read, route |-> route,
         from |-> Root, server |-> NoKey, under |-> <<>>, atTip |-> {}, on |-> {}, off |-> {},
         grp |-> {}, tried |-> {}, verified |-> {}, pass |-> <<>>, got |-> <<>>]
  BY DEF NoCheck
<1> HIDE DEF read, route
<1>3. <<>> \in Seq(Keys) /\ <<>> \in Seq(Answers) /\ NoKey \in Keys \cup {NoKey}
  OBVIOUS
<1>4. NoCheck \in Checks
  BY <1>1, <1>2, <1>3 DEF Checks, Pcs
<1>5. \A calm \in BOOLEAN : [NoCheck EXCEPT !.calm = calm] \in Checks
  BY <1>4 DEF Checks
<1> QED BY <1>2, <1>4, <1>5

(* A check that ends, whole or not, leaves the client waiting for none. *)
LEMMA EndWaiting ==
  ASSUME NEW x, Sound(x)
  PROVE  Waiting(EndCheck(x)) /\ Waiting(Thrown(x))
<1>1. x \in Clients /\ x.ck \in Checks
  BY CheckParts DEF Well, Sound
<1>2. x.ck.on \subseteq Keys /\ x.ck.off \subseteq Keys /\ x.ck.calm \in BOOLEAN
  BY <1>1, CheckParts
<1>3. Waiting(EndCheck(x))
  <2> DEFINE ck == [NoCheck EXCEPT !.calm = x.ck.calm]
             shown == [tip |-> x.tip, on |-> x.ck.on, off |-> x.ck.off]
             z == EndCheck(x)
  <2>1. ck \in Checks /\ ck.pc = "off" /\ ck.got = <<>>
    BY <1>2, NoCheckIs
  <2>2. shown \in Showns
    BY <1>1, <1>2 DEF Clients, Showns
  <2>3. z = [x EXCEPT !.shown = shown, !.ck = ck]
    BY <1>1 DEF EndCheck
  <2> HIDE DEF ck, shown, z
  <2>4. z \in Clients /\ z.ck = ck /\ z.list = x.list /\ z.st = x.st /\ z.tip = x.tip
        /\ z.armed = x.armed /\ z.waiters = x.waiters
    BY <1>1, <2>1, <2>2, <2>3 DEF Clients
  <2>5. Well(z)
    BY <2>1, <2>4, FreshWell DEF Well
  <2> QED BY <2>1, <2>4, <2>5 DEF Waiting, Posed, z
<1>4. Waiting(Thrown(x))
  <2> DEFINE z == Thrown(x)
  <2>1. (x.whole /\ ~Raised(x)) \in BOOLEAN
    OBVIOUS
  <2>2. z \in Clients /\ z.ck = NoCheck /\ z.list = x.list /\ z.st = x.st /\ z.tip = x.tip
        /\ z.armed = x.armed /\ z.waiters = x.waiters
    BY <1>1, <2>1, NoCheckIs DEF Clients, Thrown
  <2> HIDE DEF z
  <2>3. Well(z)
    BY <2>2, NoCheckIs, FreshWell DEF Well
  <2> QED BY <2>2, <2>3, NoCheckIs DEF Waiting, Posed, z
<1> QED BY <1>3, <1>4

(* Forgetting verdicts, a pass with nobody left to ask ends at the last read. *)
LEMMA FinishWaiting ==
  ASSUME NEW x, Well(x)
  PROVE  Waiting(FinishProofs(x))
<1> DEFINE seen == {x.ck.read[k] : k \in ToSet(x.ck.reads)}
           kept == [b \in Blocks |-> IF b \in seen THEN x.kept[b] ELSE "none"]
           y == [x EXCEPT !.kept = kept]
           ck == [x.ck EXCEPT !.pc = "last"]
           z == [y EXCEPT !.ck = ck]
<1>1. x \in Clients /\ x.ck \in Checks
  BY CheckParts DEF Well, Sound
<1>2. kept \in [Blocks -> Verdicts]
  BY <1>1 DEF Clients, Verdicts
<1>3. FinishProofs(x) = IF TipServers(y) = {} THEN EndCheck(y) ELSE z
  BY <1>1 DEF FinishProofs, Clients
<1> HIDE DEF kept
<1>4. y \in Clients /\ y.ck = x.ck /\ Same(x, y)
  BY <1>1, <1>2 DEF Clients, Same
<1> HIDE DEF y
<1>5. Well(y)
  BY <1>4, SameAlong DEF Along
<1>6. ck \in Checks /\ ck.pc = "last" /\ ck.pass = y.ck.pass /\ ck.got = y.ck.got /\ ck.route = y.ck.route
  BY <1>1, <1>4 DEF Checks, Pcs
<1> HIDE DEF ck
<1>7. Well(z) /\ z.ck = ck
  BY <1>4, <1>5, <1>6, CheckAlong, WithCheck DEF Along
<1> HIDE DEF z
<1>8. Waiting(z)
  BY <1>6, <1>7 DEF Waiting, Posed
<1> QED BY <1>3, <1>5, <1>8, EndWaiting DEF Well

-----------------------------------------------------------------------------
(* The passes of proofs. *)

(* A node's candidates, and those of them at the tip. *)
LEMMA CandidatesAre ==
  ASSUME NEW x \in Clients
  PROVE  Candidates(x) \in Seq(Keys) /\ FirstNodeAtChainTip(x) \in Keys \cup {NoKey}
<1>1. x.list \in Seq(Keys)
  BY DEF Clients
<1>2. \A S : Among(x.list, S) \in Seq(Keys)
  BY <1>1, AmongIs
<1>3. \A status : Having(x, status) \in Seq(Keys)
  BY <1>2 DEF Having
<1>4. Candidates(x) \in Seq(Keys)
  <2> DEFINE w == Among(x.list, {k \in Keys : x.st[k] = "due" \/ (x.st[k] = "retry" /\ k \in Api)})
             h1 == Having(x, "ok")
             h2 == Having(x, "trailing")
             h3 == Having(x, "behind")
             h4 == Having(x, "new")
  <2>1. w \in Seq(Keys) /\ h1 \in Seq(Keys) /\ h2 \in Seq(Keys) /\ h3 \in Seq(Keys) /\ h4 \in Seq(Keys)
    BY <1>2, <1>3
  <2>2. Candidates(x) = h1 \o h2 \o h3 \o h4 \o w
    BY DEF Candidates
  <2> HIDE DEF w, h1, h2, h3, h4
  <2> QED BY <2>1, <2>2
<1>5. Among(Candidates(x), x.ck.atTip) \in Seq(Keys)
  BY <1>4, AmongIs
<1> DEFINE at == Among(Candidates(x), x.ck.atTip)
<1>6. at # <<>> => at[1] \in Keys
  BY <1>5
<1> QED BY <1>4, <1>6 DEF FirstNodeAtChainTip

(* A next pass asks somebody. *)
LEMMA ComposeWaiting ==
  ASSUME NEW x, Well(x)
  PROVE  Waiting(ComposePass(x))
<1> DEFINE open == Among(GroupHeads(x), {k \in Keys : x.ck.read[k] \notin x.ck.verified
                                                         /\ Untried(x, k) # <<>>})
           asked == [i \in DOMAIN open |-> Untried(x, open[i])[1]]
           first == IF x.tip = Root THEN NoKey ELSE FirstNodeAtChainTip(x)
           pass == IF first = NoKey THEN asked ELSE <<first>> \o asked
           tried == x.ck.tried \cup ToSet(asked)
           ck == [x.ck EXCEPT !.pc = "proofs", !.got = <<>>, !.tried = tried, !.pass = pass]
           z == [x EXCEPT !.ck = ck]
<1>1. x \in Clients /\ x.ck \in Checks /\ x.ck.reads \in Seq(Keys) /\ x.ck.tried \subseteq Keys
  BY CheckParts DEF Well, Sound
<1>2. \A S : Among(x.ck.reads, S) \in Seq(Keys)
  BY <1>1, AmongIs
<1>3. \A k \in Keys : Untried(x, k) \in Seq(Keys)
  <2> TAKE k \in Keys
  <2>1. GroupOf(x, x.ck.read[k]) \in Seq(Keys)
    BY <1>2 DEF GroupOf
  <2> QED BY <2>1, AmongIs DEF Untried
<1>4. GroupHeads(x) \in Seq(Keys)
  BY <1>2 DEF GroupHeads
<1>5. open \in Seq(Keys) /\ \A i \in DOMAIN open : open[i] \in Keys /\ Untried(x, open[i]) # <<>>
  <2> DEFINE S == {k \in Keys : x.ck.read[k] \notin x.ck.verified /\ Untried(x, k) # <<>>}
  <2> HIDE DEF S
  <2>1. open \in Seq(Keys) /\ Picks(open, GroupHeads(x), S)
    BY <1>4, AmongIs DEF S
  <2>2. \A i \in DOMAIN open : open[i] \in S
    BY <2>1 DEF Picks
  <2> QED BY <2>1, <2>2 DEF S
<1> HIDE DEF open
<1>6. asked \in Seq(Keys) /\ Len(asked) = Len(open)
  <2>1. \A i \in DOMAIN open : Untried(x, open[i])[1] \in Keys
    BY <1>3, <1>5
  <2> QED BY <1>5, <2>1
<1> HIDE DEF asked
<1>7. first \in Keys \cup {NoKey}
  BY <1>1, CandidatesAre
<1> HIDE DEF first
<1>8. pass \in Seq(Keys) /\ Len(pass) >= Len(asked)
  BY <1>6, <1>7
<1> HIDE DEF pass
<1>9. ck \in Checks /\ ck.pc = "proofs" /\ ck.got = <<>> /\ ck.pass = pass
  <2>1. tried \in SUBSET Keys
    BY <1>1, <1>6 DEF ToSet
  <2>2. <<>> \in Seq(Answers)
    OBVIOUS
  <2> HIDE DEF tried
  <2> QED BY <1>1, <1>8, <2>1, <2>2 DEF Checks, Pcs
<1>10. ComposePass(x) = IF Raised(x) THEN Thrown(x) ELSE IF open = <<>> THEN FinishProofs(x) ELSE z
  BY <1>1 DEF ComposePass, Clients, open, asked, first, pass
<1> HIDE DEF ck
<1>11. z \in Clients /\ z.ck = ck /\ z.list = x.list /\ z.st = x.st /\ z.tip = x.tip
      /\ z.armed = x.armed /\ z.waiters = x.waiters
  BY <1>1, <1>9, WithCheck
<1> HIDE DEF z
<1>12. Well(z)
  BY <1>9, <1>11, FreshWell DEF Well
<1>13. open # <<>> => Waiting(z)
  <2>1. open # <<>> => Len(pass) > 0
    BY <1>5, <1>6, <1>8
  <2> QED BY <1>9, <1>11, <1>12, <2>1 DEF Waiting, Posed
<1> QED BY <1>10, <1>13, EndWaiting, FinishWaiting DEF Well
-----------------------------------------------------------------------------
(* Placements, groups and judgements: one by one, then in a sequence. *)

(* One event after another is a step along. *)
LEMMA ApplyToAllAlong ==
  ASSUME NEW x, Well(x), NEW s \in Seq(Keys), NEW ev, ev # "lie"
  PROVE  Along(x, ApplyToAll(x, s, ev))
<1> DEFINE n == Len(s)
           D == {t \in Clients : Along(x, t)}
           F == [i \in 1 .. n |-> [t \in D |-> ApplyEvent(t, s[i], ev)]]
           Is(g) == g = [i \in 0 .. n |-> IF i = 0 THEN x ELSE ApplyEvent(g[i - 1], s[i], ev)]
           left == CHOOSE g : Is(g)
<1>0. n \in Nat /\ \A i \in 1 .. n : s[i] \in Keys
  OBVIOUS
<1>1. x \in D
  BY DEF Along, Well, Sound
<1>2. ASSUME NEW t \in D, NEW i \in 1 .. n PROVE ApplyEvent(t, s[i], ev) \in D
  <2>1. Along(x, t) /\ t \in Clients /\ s[i] \in Keys
    BY <1>0
  <2>2. Along(t, ApplyEvent(t, s[i], ev))
    BY <2>1, EventAlong DEF Along, Fair
  <2> DEFINE u == ApplyEvent(t, s[i], ev)
  <2> HIDE DEF u
  <2>3. Along(x, u) /\ u \in Clients
    BY <2>1, <2>2, AlongTrans DEF u, Along, Well, Sound
  <2> QED BY <2>3 DEF u
<1>3. F \in [1 .. n -> [D -> D]] /\ \A i \in 1 .. n : \A t \in D : F[i][t] = ApplyEvent(t, s[i], ev)
  <2> HIDE DEF D, n
  <2> QED BY <1>2
<1> HIDE DEF F, D, n
<1>4. PICK g \in [0 .. n -> D] : g[0] = x /\ \A i \in 1 .. n : g[i] = F[i][g[i - 1]]
  <2>1. Defined(n, D, x, F)
    BY <1>0, <1>1, <1>3, Recursion
  <2> QED BY <2>1 DEF Defined
<1>5. \A i \in 0 .. n : g[i] = IF i = 0 THEN x ELSE ApplyEvent(g[i - 1], s[i], ev)
  <2> TAKE i \in 0 .. n
  <2>1. CASE i = 0
    BY <1>4, <2>1
  <2>2. CASE i # 0
    <3>1. i \in 1 .. n /\ i - 1 \in 0 .. n
      BY <1>0, <2>2
    <3>2. g[i] = ApplyEvent(g[i - 1], s[i], ev)
      BY <1>3, <1>4, <3>1
    <3> QED BY <2>2, <3>2
  <2> QED BY <2>1, <2>2
<1>6. Is(g)
  BY <1>4, <1>5
<1>7. ApplyToAll(x, s, ev) = left[n]
  BY <1>0 DEF ApplyToAll, Each, n
<1> HIDE DEF Is
<1>8. Is(left)
  BY <1>6
<1>9. Is(left) => \A i \in 0 .. n : left[i] = IF i = 0 THEN x ELSE ApplyEvent(left[i - 1], s[i], ev)
  <2> HIDE DEF left
  <2> QED BY DEF Is
<1> HIDE DEF left
<1>10. \A i \in 0 .. n : left[i] = IF i = 0 THEN x ELSE ApplyEvent(left[i - 1], s[i], ev)
  BY <1>8, <1>9
<1> DEFINE T == {i \in 0 .. n : left[i] \in D}
<1>11. 0 \in T /\ \A i \in 1 .. n : i - 1 \in T => i \in T
  <2>1. 0 \in T
    BY <1>0, <1>1, <1>10
  <2>2. ASSUME NEW i \in 1 .. n, i - 1 \in T PROVE i \in T
    <3>1. left[i] = ApplyEvent(left[i - 1], s[i], ev) /\ left[i - 1] \in D
      BY <1>0, <1>10, <2>2
    <3> QED BY <1>2, <3>1
  <2> QED BY <2>1, <2>2
<1>12. 0 .. n \subseteq T
  <2> HIDE DEF T
  <2> QED BY <1>0, <1>11, Upto
<1>13. left[n] \in D
  BY <1>0, <1>12
<1> QED BY <1>7, <1>13 DEF D

(* A placement speaks well of its node, and counts it on the chain. *)
LEMMA PlacedAlong ==
  ASSUME NEW x, Well(x), NEW k \in Keys
  PROVE  Along(x, Placed(x, k))
<1> DEFINE p == Place(x.tip, x.ck.read[k])
           y == ApplyEvent(x, k, PlacementEvent(p))
           on == y.ck.on \cup {k}
           off == y.ck.off \ {k}
           at == IF p = "tip" THEN y.ck.atTip \cup {k} ELSE y.ck.atTip
           ck == [y.ck EXCEPT !.on = on, !.off = off, !.atTip = at]
           z == [y EXCEPT !.ck = ck]
<1>1. Fair(x, k, PlacementEvent(p))
  BY DEF Fair, PlacementEvent
<1>2. Along(x, y)
  <2> HIDE DEF p
  <2> QED BY <1>1, EventAlong
<1>3. y \in Clients
  BY <1>2 DEF Along, Well, Sound
<1>4. Placed(x, k) = IF p \notin {"tip", "one-below", "below"} THEN x ELSE z
  BY <1>3 DEF Placed, Clients
<1> HIDE DEF y
<1>5. on \in SUBSET Keys /\ off \in SUBSET Keys /\ at \in SUBSET Keys /\ y.ck \in Checks
  BY <1>3, CheckParts
<1> HIDE DEF on, off, at, p
<1>6. ck \in Checks /\ ck.pass = y.ck.pass /\ ck.got = y.ck.got /\ ck.route = y.ck.route
  BY <1>5 DEF Checks
<1> HIDE DEF ck
<1>7. Along(y, z)
  BY <1>2, <1>6, CheckAlong DEF Along
<1> HIDE DEF z
<1>8. Along(x, z) /\ Along(x, x)
  BY <1>2, <1>7, AlongTrans DEF Along
<1> QED BY <1>4, <1>8

(* A tip is counted on or off the chain, after an event that is no lie. *)
LEMMA CountedAlong ==
  ASSUME NEW x, Well(x), NEW k \in Keys, NEW ev, ev # "lie", NEW on, on \in SUBSET Keys,
         NEW off, off \in SUBSET Keys
  PROVE  LET y == ApplyEvent(x, k, ev)
         IN  /\ Along(x, y) /\ y \in Clients /\ y.ck.on \subseteq Keys /\ y.ck.off \subseteq Keys
             /\ Along(x, [y EXCEPT !.ck.on = on, !.ck.off = off])
<1> DEFINE y == ApplyEvent(x, k, ev)
           ck == [y.ck EXCEPT !.on = on, !.off = off]
           z == [y EXCEPT !.ck = ck]
<1>1. Along(x, y)
  BY EventAlong DEF Fair
<1> HIDE DEF y
<1>2. y \in Clients /\ y.ck \in Checks /\ y.ck.on \subseteq Keys /\ y.ck.off \subseteq Keys
  BY <1>1, CheckParts DEF Along, Well, Sound
<1>3. [y EXCEPT !.ck.on = on, !.ck.off = off] = z
  BY <1>2 DEF Clients
<1>4. ck \in Checks /\ ck.pass = y.ck.pass /\ ck.got = y.ck.got /\ ck.route = y.ck.route
  BY <1>2 DEF Checks
<1> HIDE DEF ck
<1>5. Along(y, z)
  BY <1>1, <1>4, CheckAlong DEF Along
<1> HIDE DEF z
<1>6. Along(x, z)
  BY <1>1, <1>5, AlongTrans
<1> QED BY <1>1, <1>2, <1>3, <1>6 DEF y

(* The first placement of one tip. *)
LEMMA PlacedFirstAlong ==
  ASSUME NEW x, Well(x), NEW k \in Keys
  PROVE  Along(x, PlacedFirst(x, k))
<1>1. Along(x, x)
  BY DEF Along
<1>2. Along(x, ApplyEvent(x, k, "behind"))
  BY EventAlong DEF Fair
<1> QED BY <1>1, <1>2, PlacedAlong DEF PlacedFirst

(* A placement after a switch. *)
LEMMA PlacedAgainAlong ==
  ASSUME NEW x, Well(x), NEW k \in Keys
  PROVE  Along(x, PlacedAgain(x, k))
<1> DEFINE b == x.ck.read[k]
           y == ApplyEvent(x, k, "behind")
           on == y.ck.on \ {k}
           off == y.ck.off \cup {k}
           z == [y EXCEPT !.ck.on = on, !.ck.off = off]
<1>1. Along(x, x)
  BY DEF Along
<1>2. y \in Clients /\ y.ck.on \subseteq Keys /\ y.ck.off \subseteq Keys
  <2>1. Along(x, y)
    BY EventAlong DEF Fair
  <2> HIDE DEF y
  <2> QED BY <2>1, CheckParts DEF Along, Well, Sound
<1>3. PlacedAgain(x, k) =
        IF Raised(x) \/ b = Root THEN x
        ELSE IF Place(x.tip, b) \in {"tip", "one-below", "below"} THEN Placed(x, k)
        ELSE IF b \in x.ck.verified THEN x ELSE z
  BY <1>2 DEF PlacedAgain, Clients
<1>4. on \in SUBSET Keys /\ off \in SUBSET Keys
  BY <1>2
<1> HIDE DEF on, off
<1>5. Along(x, z)
  BY <1>4, CountedAlong
<1> HIDE DEF z
<1> QED BY <1>1, <1>3, <1>5, PlacedAlong

(* A tip not placed goes to its group or is off the chain by a kept verdict. *)
LEMMA GroupedAlong ==
  ASSUME NEW x, Well(x), NEW k \in Keys
  PROVE  Along(x, Grouped(x, k))
<1> DEFINE b == x.ck.read[k]
           ev == x.kept[b]
           y == ApplyEvent(x, k, ev)
           on == y.ck.on
           off == y.ck.off \cup {k}
           z == [y EXCEPT !.ck.off = off]
           grp == x.ck.grp \cup {k}
           ck == [x.ck EXCEPT !.grp = grp]
           g == [x EXCEPT !.ck = ck]
<1>1. Along(x, x) /\ x \in Clients /\ x.ck \in Checks /\ x.ck.grp \subseteq Keys /\ b \in Nodes
  BY CheckParts DEF Along, Well, Sound
<1>2. b # Root => ev # "lie"
  <2>1. x.kept \in [Blocks -> Verdicts]
    BY <1>1 DEF Clients
  <2> QED BY <1>1, <2>1 DEF Nodes, Verdicts
<1>3. Along(x, g)
  <2>1. grp \in SUBSET Keys
    BY <1>1
  <2> HIDE DEF grp
  <2>2. ck \in Checks /\ ck.pass = x.ck.pass /\ ck.got = x.ck.got /\ ck.route = x.ck.route
    BY <1>1, <2>1 DEF Checks
  <2> HIDE DEF ck
  <2> QED BY <2>2, CheckAlong
<1>4. b # Root => Along(x, z)
  <2> SUFFICES ASSUME b # Root PROVE Along(x, z)
    OBVIOUS
  <2> HIDE DEF ev
  <2>1. Along(x, y)
    BY <1>2, EventAlong DEF Fair
  <2>2. y \in Clients /\ y.ck \in Checks /\ y.ck.off \subseteq Keys
    <3> HIDE DEF y
    <3> QED BY <2>1, CheckParts DEF Along, Well, Sound
  <2> DEFINE k2 == [y.ck EXCEPT !.off = off]
  <2>3. off \in SUBSET Keys
    BY <2>2
  <2> HIDE DEF y, off
  <2>4. z = [y EXCEPT !.ck = k2]
    BY <2>2 DEF Clients
  <2>5. k2 \in Checks /\ k2.pass = y.ck.pass /\ k2.got = y.ck.got /\ k2.route = y.ck.route
    BY <2>2, <2>3 DEF Checks
  <2> HIDE DEF k2, z
  <2>6. Along(y, z)
    BY <2>1, <2>4, <2>5, CheckAlong DEF Along
  <2> QED BY <2>1, <2>6, AlongTrans
<1>5. Grouped(x, k) =
        IF Raised(x) \/ b = Root \/ k \in x.ck.on \/ x.st[k] = "blacklisted" THEN x
        ELSE IF ev = "none" THEN g ELSE z
  BY <1>1 DEF Grouped, Clients
<1> HIDE DEF g, z
<1> QED BY <1>1, <1>3, <1>4, <1>5

(* A judgement is fair: only a lie is held against the one that told it, a
   verdict that reaches the others of a group is none. *)
LEMMA JudgedAlong ==
  ASSUME NEW x, Well(x), NEW k \in Keys, NEW a \in Answers, NEW winner,
         a.kind = "lie" /\ k \in Honest => x.ck.route[k] = "api"
  PROVE  Along(x, Judged(x, k, a, winner))
<1> DEFINE behind == IF a.kind = "proof" THEN BehindOnSuffix(winner, a.tip) ELSE -1
           ev == AnswerEvent(a, behind)
           b == x.ck.read[k]
           group == ToSet(GroupOf(x, b)) \cup {k}
           mates == Among(GroupOf(x, b), Keys \ {k})
           w == ApplyEvent(x, k, ev)
           y == ApplyToAll(w, mates, ev)
           verified == y.ck.verified \cup {b}
           on == IF behind >= 0 THEN y.ck.on \cup group ELSE y.ck.on \ group
           off == IF behind >= 0 THEN y.ck.off \ group ELSE y.ck.off \cup group
           verdict == IF behind = 0 THEN y.kept[b] ELSE ev
           kept == [y.kept EXCEPT ![b] = verdict]
           ck == [y.ck EXCEPT !.verified = verified, !.on = on, !.off = off]
           z == [y EXCEPT !.ck = ck, !.kept = kept]
<1>1. Fair(x, k, ev)
  BY DEF Fair, AnswerEvent
<1>2. a.kind = "proof" => ev # "lie" /\ (behind # 0 => ev \in {"trailing", "behind"})
  BY DEF AnswerEvent
<1>3. Along(x, w)
  <2> HIDE DEF ev
  <2> QED BY <1>1, EventAlong
<1>4. CASE a.kind # "proof" \/ k \notin x.ck.tried
  BY <1>3, <1>4 DEF Judged
<1>5. CASE ~(a.kind # "proof" \/ k \notin x.ck.tried)
  <2>1. x \in Clients /\ x.ck.reads \in Seq(Keys) /\ b \in Nodes
    BY CheckParts DEF Well, Sound
  <2>2. GroupOf(x, b) \in Seq(Keys) /\ mates \in Seq(Keys)
    <3>1. GroupOf(x, b) \in Seq(Keys)
      BY <2>1, AmongIs DEF GroupOf
    <3> QED BY <3>1, AmongIs
  <2>3. group \in SUBSET Keys
    BY <2>2 DEF ToSet
  <2> HIDE DEF ev, w, mates, group
  <2>4. Along(w, y)
    BY <1>2, <1>3, <1>5, <2>2, ApplyToAllAlong DEF Along
  <2>5. Along(x, y)
    BY <1>3, <2>4, AlongTrans
  <2>6. y \in Clients
    BY <2>4 DEF Along, Well, Sound
  <2> DEFINE v == [y EXCEPT !.ck.verified = @ \cup {b},
                            !.ck.on = IF behind >= 0 THEN @ \cup group ELSE @ \ group,
                            !.ck.off = IF behind >= 0 THEN @ \ group ELSE @ \cup group,
                            !.kept[b] = IF behind = 0 THEN @ ELSE ev]
  <2>20. Judged(x, k, a, winner) = v
    BY <1>5 DEF Judged, ev, w, mates, group
  <2> HIDE DEF y, b, behind
  <2>7. Judged(x, k, a, winner) = z
    <3>1. v = z
      BY <2>6 DEF Clients, Checks
    <3> QED BY <2>20, <3>1
  <2>8. y.ck \in Checks /\ y.ck.verified \subseteq Nodes /\ y.ck.on \subseteq Keys /\ y.ck.off \subseteq Keys
        /\ y.kept \in [Blocks -> Verdicts]
    BY <2>6, CheckParts DEF Clients
  <2>9. verified \in SUBSET Nodes /\ on \in SUBSET Keys /\ off \in SUBSET Keys
    BY <2>1, <2>3, <2>8
  <2>10. b \in Blocks => verdict \in Verdicts
    BY <1>2, <1>5, <2>8 DEF Verdicts
  <2>11. kept \in [Blocks -> Verdicts]
    <3> HIDE DEF verdict
    <3>1. CASE b \in Blocks
      BY <2>8, <2>10, <3>1
    <3>2. CASE b \notin Blocks
      BY <2>8, <3>2
    <3> QED BY <3>1, <3>2
  <2> HIDE DEF verified, on, off, kept
  <2>12. ck \in Checks /\ ck.pass = y.ck.pass /\ ck.got = y.ck.got /\ ck.route = y.ck.route
    BY <2>8, <2>9 DEF Checks
  <2> HIDE DEF ck
  <2>13. z \in Clients /\ Same(y, z)
    BY <2>6, <2>11, <2>12 DEF Clients, Same
  <2> HIDE DEF z
  <2>14. Along(y, z)
    BY <2>5, <2>13, SameAlong DEF Along
  <2> QED BY <2>5, <2>7, <2>14, AlongTrans
<1> QED BY <1>4, <1>5

(* Placing every tip read is a step along. *)
LEMMA AllPlacedFirst ==
  ASSUME NEW x, Well(x), NEW s \in Seq(Keys)
  PROVE  Along(x, Each(x, s, PlacedFirst))
<1> DEFINE n == Len(s)
           D == {t \in Clients : Along(x, t)}
           F == [i \in 1 .. n |-> [t \in D |-> PlacedFirst(t, s[i])]]
           Is(g) == g = [i \in 0 .. n |-> IF i = 0 THEN x ELSE PlacedFirst(g[i - 1], s[i])]
           left == CHOOSE g : Is(g)
<1>0. n \in Nat /\ \A i \in 1 .. n : s[i] \in Keys
  OBVIOUS
<1>1. x \in D
  BY DEF Along, Well, Sound
<1>2. ASSUME NEW t \in D, NEW i \in 1 .. n PROVE PlacedFirst(t, s[i]) \in D
  <2>1. Along(x, t) /\ t \in Clients /\ s[i] \in Keys
    BY <1>0
  <2>2. Along(t, PlacedFirst(t, s[i]))
    BY <2>1, PlacedFirstAlong DEF Along
  <2> DEFINE u == PlacedFirst(t, s[i])
  <2> HIDE DEF u
  <2>3. Along(x, u) /\ u \in Clients
    BY <2>1, <2>2, AlongTrans DEF u, Along, Well, Sound
  <2> QED BY <2>3 DEF u
<1>3. F \in [1 .. n -> [D -> D]] /\ \A i \in 1 .. n : \A t \in D : F[i][t] = PlacedFirst(t, s[i])
  <2> HIDE DEF D, n
  <2> QED BY <1>2
<1> HIDE DEF F, D, n
<1>4. PICK g \in [0 .. n -> D] : g[0] = x /\ \A i \in 1 .. n : g[i] = F[i][g[i - 1]]
  <2>1. Defined(n, D, x, F)
    BY <1>0, <1>1, <1>3, Recursion
  <2> QED BY <2>1 DEF Defined
<1>5. \A i \in 0 .. n : g[i] = IF i = 0 THEN x ELSE PlacedFirst(g[i - 1], s[i])
  <2> TAKE i \in 0 .. n
  <2>1. CASE i = 0
    BY <1>4, <2>1
  <2>2. CASE i # 0
    <3>1. i \in 1 .. n /\ i - 1 \in 0 .. n
      BY <1>0, <2>2
    <3>2. g[i] = PlacedFirst(g[i - 1], s[i])
      BY <1>3, <1>4, <3>1
    <3> QED BY <2>2, <3>2
  <2> QED BY <2>1, <2>2
<1>6. Is(g)
  BY <1>4, <1>5
<1>7. Each(x, s, PlacedFirst) = left[n]
  BY <1>0 DEF Each, n
<1> HIDE DEF Is
<1>8. Is(left)
  BY <1>6
<1>9. Is(left) => \A i \in 0 .. n : left[i] = IF i = 0 THEN x ELSE PlacedFirst(left[i - 1], s[i])
  <2> HIDE DEF left
  <2> QED BY DEF Is
<1> HIDE DEF left
<1>10. \A i \in 0 .. n : left[i] = IF i = 0 THEN x ELSE PlacedFirst(left[i - 1], s[i])
  BY <1>8, <1>9
<1> DEFINE T == {i \in 0 .. n : left[i] \in D}
<1>11. 0 \in T /\ \A i \in 1 .. n : i - 1 \in T => i \in T
  <2>1. 0 \in T
    BY <1>0, <1>1, <1>10
  <2>2. ASSUME NEW i \in 1 .. n, i - 1 \in T PROVE i \in T
    <3>1. left[i] = PlacedFirst(left[i - 1], s[i]) /\ left[i - 1] \in D
      BY <1>0, <1>10, <2>2
    <3> QED BY <1>2, <3>1
  <2> QED BY <2>1, <2>2
<1>12. 0 .. n \subseteq T
  <2> HIDE DEF T
  <2> QED BY <1>0, <1>11, Upto
<1>13. left[n] \in D
  BY <1>0, <1>12
<1> QED BY <1>7, <1>13 DEF D

(* So is placing all of them again after a switch. *)
LEMMA AllPlacedAgain ==
  ASSUME NEW x, Well(x), NEW s \in Seq(Keys)
  PROVE  Along(x, Each(x, s, PlacedAgain))
<1> DEFINE n == Len(s)
           D == {t \in Clients : Along(x, t)}
           F == [i \in 1 .. n |-> [t \in D |-> PlacedAgain(t, s[i])]]
           Is(g) == g = [i \in 0 .. n |-> IF i = 0 THEN x ELSE PlacedAgain(g[i - 1], s[i])]
           left == CHOOSE g : Is(g)
<1>0. n \in Nat /\ \A i \in 1 .. n : s[i] \in Keys
  OBVIOUS
<1>1. x \in D
  BY DEF Along, Well, Sound
<1>2. ASSUME NEW t \in D, NEW i \in 1 .. n PROVE PlacedAgain(t, s[i]) \in D
  <2>1. Along(x, t) /\ t \in Clients /\ s[i] \in Keys
    BY <1>0
  <2>2. Along(t, PlacedAgain(t, s[i]))
    BY <2>1, PlacedAgainAlong DEF Along
  <2> DEFINE u == PlacedAgain(t, s[i])
  <2> HIDE DEF u
  <2>3. Along(x, u) /\ u \in Clients
    BY <2>1, <2>2, AlongTrans DEF u, Along, Well, Sound
  <2> QED BY <2>3 DEF u
<1>3. F \in [1 .. n -> [D -> D]] /\ \A i \in 1 .. n : \A t \in D : F[i][t] = PlacedAgain(t, s[i])
  <2> HIDE DEF D, n
  <2> QED BY <1>2
<1> HIDE DEF F, D, n
<1>4. PICK g \in [0 .. n -> D] : g[0] = x /\ \A i \in 1 .. n : g[i] = F[i][g[i - 1]]
  <2>1. Defined(n, D, x, F)
    BY <1>0, <1>1, <1>3, Recursion
  <2> QED BY <2>1 DEF Defined
<1>5. \A i \in 0 .. n : g[i] = IF i = 0 THEN x ELSE PlacedAgain(g[i - 1], s[i])
  <2> TAKE i \in 0 .. n
  <2>1. CASE i = 0
    BY <1>4, <2>1
  <2>2. CASE i # 0
    <3>1. i \in 1 .. n /\ i - 1 \in 0 .. n
      BY <1>0, <2>2
    <3>2. g[i] = PlacedAgain(g[i - 1], s[i])
      BY <1>3, <1>4, <3>1
    <3> QED BY <2>2, <3>2
  <2> QED BY <2>1, <2>2
<1>6. Is(g)
  BY <1>4, <1>5
<1>7. Each(x, s, PlacedAgain) = left[n]
  BY <1>0 DEF Each, n
<1> HIDE DEF Is
<1>8. Is(left)
  BY <1>6
<1>9. Is(left) => \A i \in 0 .. n : left[i] = IF i = 0 THEN x ELSE PlacedAgain(left[i - 1], s[i])
  <2> HIDE DEF left
  <2> QED BY DEF Is
<1> HIDE DEF left
<1>10. \A i \in 0 .. n : left[i] = IF i = 0 THEN x ELSE PlacedAgain(left[i - 1], s[i])
  BY <1>8, <1>9
<1> DEFINE T == {i \in 0 .. n : left[i] \in D}
<1>11. 0 \in T /\ \A i \in 1 .. n : i - 1 \in T => i \in T
  <2>1. 0 \in T
    BY <1>0, <1>1, <1>10
  <2>2. ASSUME NEW i \in 1 .. n, i - 1 \in T PROVE i \in T
    <3>1. left[i] = PlacedAgain(left[i - 1], s[i]) /\ left[i - 1] \in D
      BY <1>0, <1>10, <2>2
    <3> QED BY <1>2, <3>1
  <2> QED BY <2>1, <2>2
<1>12. 0 .. n \subseteq T
  <2> HIDE DEF T
  <2> QED BY <1>0, <1>11, Upto
<1>13. left[n] \in D
  BY <1>0, <1>12
<1> QED BY <1>7, <1>13 DEF D

(* So is grouping those not placed. *)
LEMMA AllGrouped ==
  ASSUME NEW x, Well(x), NEW s \in Seq(Keys)
  PROVE  Along(x, Each(x, s, Grouped))
<1> DEFINE n == Len(s)
           D == {t \in Clients : Along(x, t)}
           F == [i \in 1 .. n |-> [t \in D |-> Grouped(t, s[i])]]
           Is(g) == g = [i \in 0 .. n |-> IF i = 0 THEN x ELSE Grouped(g[i - 1], s[i])]
           left == CHOOSE g : Is(g)
<1>0. n \in Nat /\ \A i \in 1 .. n : s[i] \in Keys
  OBVIOUS
<1>1. x \in D
  BY DEF Along, Well, Sound
<1>2. ASSUME NEW t \in D, NEW i \in 1 .. n PROVE Grouped(t, s[i]) \in D
  <2>1. Along(x, t) /\ t \in Clients /\ s[i] \in Keys
    BY <1>0
  <2>2. Along(t, Grouped(t, s[i]))
    BY <2>1, GroupedAlong DEF Along
  <2> DEFINE u == Grouped(t, s[i])
  <2> HIDE DEF u
  <2>3. Along(x, u) /\ u \in Clients
    BY <2>1, <2>2, AlongTrans DEF u, Along, Well, Sound
  <2> QED BY <2>3 DEF u
<1>3. F \in [1 .. n -> [D -> D]] /\ \A i \in 1 .. n : \A t \in D : F[i][t] = Grouped(t, s[i])
  <2> HIDE DEF D, n
  <2> QED BY <1>2
<1> HIDE DEF F, D, n
<1>4. PICK g \in [0 .. n -> D] : g[0] = x /\ \A i \in 1 .. n : g[i] = F[i][g[i - 1]]
  <2>1. Defined(n, D, x, F)
    BY <1>0, <1>1, <1>3, Recursion
  <2> QED BY <2>1 DEF Defined
<1>5. \A i \in 0 .. n : g[i] = IF i = 0 THEN x ELSE Grouped(g[i - 1], s[i])
  <2> TAKE i \in 0 .. n
  <2>1. CASE i = 0
    BY <1>4, <2>1
  <2>2. CASE i # 0
    <3>1. i \in 1 .. n /\ i - 1 \in 0 .. n
      BY <1>0, <2>2
    <3>2. g[i] = Grouped(g[i - 1], s[i])
      BY <1>3, <1>4, <3>1
    <3> QED BY <2>2, <3>2
  <2> QED BY <2>1, <2>2
<1>6. Is(g)
  BY <1>4, <1>5
<1>7. Each(x, s, Grouped) = left[n]
  BY <1>0 DEF Each, n
<1> HIDE DEF Is
<1>8. Is(left)
  BY <1>6
<1>9. Is(left) => \A i \in 0 .. n : left[i] = IF i = 0 THEN x ELSE Grouped(left[i - 1], s[i])
  <2> HIDE DEF left
  <2> QED BY DEF Is
<1> HIDE DEF left
<1>10. \A i \in 0 .. n : left[i] = IF i = 0 THEN x ELSE Grouped(left[i - 1], s[i])
  BY <1>8, <1>9
<1> DEFINE T == {i \in 0 .. n : left[i] \in D}
<1>11. 0 \in T /\ \A i \in 1 .. n : i - 1 \in T => i \in T
  <2>1. 0 \in T
    BY <1>0, <1>1, <1>10
  <2>2. ASSUME NEW i \in 1 .. n, i - 1 \in T PROVE i \in T
    <3>1. left[i] = Grouped(left[i - 1], s[i]) /\ left[i - 1] \in D
      BY <1>0, <1>10, <2>2
    <3> QED BY <1>2, <3>1
  <2> QED BY <2>1, <2>2
<1>12. 0 .. n \subseteq T
  <2> HIDE DEF T
  <2> QED BY <1>0, <1>11, Upto
<1>13. left[n] \in D
  BY <1>0, <1>12
<1> QED BY <1>7, <1>13 DEF D

(* Judging the answers of x one after the other, in a client whose reads
   took the same routes, is a step along. *)
LEMMA JudgedAllAlong ==
  ASSUME NEW x, Well(x), NEW y, Well(y), y.ck.route = x.ck.route, NEW winner
  PROVE  Along(y, JudgedAll(y, x, winner))
<1> DEFINE is == [i \in DOMAIN x.ck.got |-> i]
<1> DEFINE n == Len(is)
           D == {t \in Clients : Along(y, t)}
           F == [i \in 1 .. n |-> [t \in D |-> Judged(t, x.ck.pass[is[i]], x.ck.got[is[i]], winner)]]
           Is(g) == g = [i \in 0 .. n |-> IF i = 0 THEN y ELSE Judged(g[i - 1], x.ck.pass[is[i]], x.ck.got[is[i]], winner)]
           left == CHOOSE g : Is(g)
<1>0. /\ n \in Nat
      /\ \A i \in 1 .. n :
           /\ is[i] = i /\ x.ck.pass[i] \in Keys /\ x.ck.got[i] \in Answers
           /\ x.ck.got[i].kind = "lie" /\ x.ck.pass[i] \in Honest => x.ck.route[x.ck.pass[i]] = "api"
  <2>1. x.ck.pass \in Seq(Keys) /\ x.ck.got \in Seq(Answers)
    BY CheckParts DEF Well, Sound
  <2>2. Len(x.ck.got) <= Len(x.ck.pass)
    BY DEF Well, Answered
  <2>3. DOMAIN x.ck.got = 1 .. Len(x.ck.got) /\ Len(x.ck.got) \in Nat
    BY <2>1
  <2>4. Len(is) = Len(x.ck.got) /\ \A i \in 1 .. Len(x.ck.got) : is[i] = i
    BY <2>3
  <2>5. \A i \in 1 .. Len(x.ck.got) : x.ck.pass[i] \in Keys /\ x.ck.got[i] \in Answers
    BY <2>1, <2>2
  <2> QED BY <2>3, <2>4, <2>5 DEF Well, Answered
<1> HIDE DEF is
<1>1. y \in D
  BY DEF Along, Well, Sound
<1>2. ASSUME NEW t \in D, NEW i \in 1 .. n PROVE Judged(t, x.ck.pass[is[i]], x.ck.got[is[i]], winner) \in D
  <2>1. Along(y, t) /\ t \in Clients /\ Well(t) /\ t.ck.route = x.ck.route
    BY <1>0 DEF Along
  <2>2. x.ck.pass[is[i]] \in Keys /\ x.ck.got[is[i]] \in Answers
        /\ (x.ck.got[is[i]].kind = "lie" /\ x.ck.pass[is[i]] \in Honest => t.ck.route[x.ck.pass[is[i]]] = "api")
    BY <1>0, <2>1
  <2>3. Along(t, Judged(t, x.ck.pass[is[i]], x.ck.got[is[i]], winner))
    BY <2>1, <2>2, JudgedAlong
  <2> DEFINE u == Judged(t, x.ck.pass[is[i]], x.ck.got[is[i]], winner)
  <2> HIDE DEF u
  <2>4. Along(y, u) /\ u \in Clients
    BY <2>1, <2>3, AlongTrans DEF u, Along, Well, Sound
  <2> QED BY <2>4 DEF u
<1>3. F \in [1 .. n -> [D -> D]] /\ \A i \in 1 .. n : \A t \in D : F[i][t] = Judged(t, x.ck.pass[is[i]], x.ck.got[is[i]], winner)
  <2> HIDE DEF D, n
  <2> QED BY <1>2
<1> HIDE DEF F, D, n
<1>4. PICK g \in [0 .. n -> D] : g[0] = y /\ \A i \in 1 .. n : g[i] = F[i][g[i - 1]]
  <2>1. Defined(n, D, y, F)
    BY <1>0, <1>1, <1>3, Recursion
  <2> QED BY <2>1 DEF Defined
<1>5. \A i \in 0 .. n : g[i] = IF i = 0 THEN y ELSE Judged(g[i - 1], x.ck.pass[is[i]], x.ck.got[is[i]], winner)
  <2> TAKE i \in 0 .. n
  <2>1. CASE i = 0
    BY <1>4, <2>1
  <2>2. CASE i # 0
    <3>1. i \in 1 .. n /\ i - 1 \in 0 .. n
      BY <1>0, <2>2
    <3>2. g[i] = Judged(g[i - 1], x.ck.pass[is[i]], x.ck.got[is[i]], winner)
      BY <1>3, <1>4, <3>1
    <3> QED BY <2>2, <3>2
  <2> QED BY <2>1, <2>2
<1>6. Is(g)
  BY <1>4, <1>5
<1>7. JudgedAll(y, x, winner) = left[n]
  BY <1>0 DEF Each, JudgedAll, is, n
<1> HIDE DEF Is
<1>8. Is(left)
  BY <1>6
<1>9. Is(left) => \A i \in 0 .. n : left[i] = IF i = 0 THEN y ELSE Judged(left[i - 1], x.ck.pass[is[i]], x.ck.got[is[i]], winner)
  <2> HIDE DEF left
  <2> QED BY DEF Is
<1> HIDE DEF left
<1>10. \A i \in 0 .. n : left[i] = IF i = 0 THEN y ELSE Judged(left[i - 1], x.ck.pass[is[i]], x.ck.got[is[i]], winner)
  BY <1>8, <1>9
<1> DEFINE T == {i \in 0 .. n : left[i] \in D}
<1>11. 0 \in T /\ \A i \in 1 .. n : i - 1 \in T => i \in T
  <2>1. 0 \in T
    BY <1>0, <1>1, <1>10
  <2>2. ASSUME NEW i \in 1 .. n, i - 1 \in T PROVE i \in T
    <3>1. left[i] = Judged(left[i - 1], x.ck.pass[is[i]], x.ck.got[is[i]], winner) /\ left[i - 1] \in D
      BY <1>0, <1>10, <2>2
    <3> QED BY <1>2, <3>1
  <2> QED BY <2>1, <2>2
<1>12. 0 .. n \subseteq T
  <2> HIDE DEF T
  <2> QED BY <1>0, <1>11, Upto
<1>13. left[n] \in D
  BY <1>0, <1>12
<1> QED BY <1>7, <1>13 DEF D

(* Ranking a sequence of keys gives a sequence of keys. *)
LEMMA HighestFirstIs ==
  ASSUME NEW x \in Clients, NEW s \in Seq(Keys)
  PROVE  HighestFirst(x, s) \in Seq(Keys)
<1> DEFINE n == Len(s)
           D == Seq(Keys)
           F == [i \in 1 .. n |-> [t \in D |-> Ranked(x, t, s[i])]]
           Is(g) == g = [i \in 0 .. n |-> IF i = 0 THEN <<>> ELSE Ranked(x, g[i - 1], s[i])]
           left == CHOOSE g : Is(g)
<1>0. n \in Nat /\ \A i \in 1 .. n : s[i] \in Keys
  OBVIOUS
<1>1. <<>> \in D
  OBVIOUS
<1>2. ASSUME NEW t \in D, NEW i \in 1 .. n PROVE Ranked(x, t, s[i]) \in D
  <2>1. t \in Seq(Keys) /\ s[i] \in Keys
    BY <1>0
  <2> DEFINE before == {j \in Keys : Height(x.ck.read[j]) >= Height(x.ck.read[s[i]])}
             p == Among(t, before)
             q == Among(t, Keys \ before)
  <2>2. p \in Seq(Keys) /\ q \in Seq(Keys)
    <3> HIDE DEF before
    <3> QED BY <2>1, AmongIs
  <2>3. Ranked(x, t, s[i]) = p \o <<s[i]>> \o q
    BY DEF Ranked
  <2> HIDE DEF p, q
  <2> QED BY <2>1, <2>2, <2>3
<1>3. F \in [1 .. n -> [D -> D]] /\ \A i \in 1 .. n : \A t \in D : F[i][t] = Ranked(x, t, s[i])
  <2> HIDE DEF D, n
  <2> QED BY <1>2
<1> HIDE DEF F, D, n
<1>4. PICK g \in [0 .. n -> D] : g[0] = <<>> /\ \A i \in 1 .. n : g[i] = F[i][g[i - 1]]
  <2>1. Defined(n, D, <<>>, F)
    BY <1>0, <1>1, <1>3, Recursion
  <2> QED BY <2>1 DEF Defined
<1>5. \A i \in 0 .. n : g[i] = IF i = 0 THEN <<>> ELSE Ranked(x, g[i - 1], s[i])
  <2> TAKE i \in 0 .. n
  <2>1. CASE i = 0
    BY <1>4, <2>1
  <2>2. CASE i # 0
    <3>1. i \in 1 .. n /\ i - 1 \in 0 .. n
      BY <1>0, <2>2
    <3>2. g[i] = Ranked(x, g[i - 1], s[i])
      BY <1>3, <1>4, <3>1
    <3> QED BY <2>2, <3>2
  <2> QED BY <2>1, <2>2
<1>6. Is(g)
  BY <1>4, <1>5
<1>7. HighestFirst(x, s) = left[n]
  BY <1>0 DEF HighestFirst, Each, n
<1> HIDE DEF Is
<1>8. Is(left)
  BY <1>6
<1>9. Is(left) => \A i \in 0 .. n : left[i] = IF i = 0 THEN <<>> ELSE Ranked(x, left[i - 1], s[i])
  <2> HIDE DEF left
  <2> QED BY DEF Is
<1> HIDE DEF left
<1>10. \A i \in 0 .. n : left[i] = IF i = 0 THEN <<>> ELSE Ranked(x, left[i - 1], s[i])
  BY <1>8, <1>9
<1> DEFINE T == {i \in 0 .. n : left[i] \in D}
<1>11. 0 \in T /\ \A i \in 1 .. n : i - 1 \in T => i \in T
  <2>1. 0 \in T
    BY <1>0, <1>1, <1>10
  <2>2. ASSUME NEW i \in 1 .. n, i - 1 \in T PROVE i \in T
    <3>1. left[i] = Ranked(x, left[i - 1], s[i]) /\ left[i - 1] \in D
      BY <1>0, <1>10, <2>2
    <3> QED BY <1>2, <3>1
  <2> QED BY <2>1, <2>2
<1>12. 0 .. n \subseteq T
  <2> HIDE DEF T
  <2> QED BY <1>0, <1>11, Upto
<1>13. left[n] \in D
  BY <1>0, <1>12
<1> QED BY <1>7, <1>13 DEF D

-----------------------------------------------------------------------------
(* From one read of a check to the next. *)

(* A switch to a clean chain is a step along. *)
LEMMA SettledAlong ==
  ASSUME NEW x, Well(x), NEW b \in Nodes, Clean(b)
  PROVE  Along(x, Settled(x, b))
<1> DEFINE kept == [d \in Blocks |-> "none"]
           ck == [x.ck EXCEPT !.atTip = {}]
           y == [x EXCEPT !.tip = b, !.kept = kept, !.ck = ck]
<1>1. x \in Clients /\ x.ck \in Checks /\ x.ck.reads \in Seq(Keys)
  BY CheckParts DEF Well, Sound
<1>2. Settled(x, b) = Each(y, x.ck.reads, PlacedAgain)
  <2>1. [x EXCEPT !.tip = b, !.kept = [d \in Blocks |-> "none"], !.ck.atTip = {}] = y
    BY <1>1 DEF Clients
  <2> HIDE DEF y
  <2> QED BY <2>1 DEF Settled
<1>3. kept \in [Blocks -> Verdicts]
  BY DEF Verdicts
<1>4. ck \in Checks /\ ck.pass = x.ck.pass /\ ck.got = x.ck.got /\ ck.route = x.ck.route
  BY <1>1 DEF Checks
<1> HIDE DEF kept, ck
<1>5. y \in Clients /\ y.ck = ck /\ y.list = x.list /\ y.st = x.st /\ y.tip = b
      /\ y.armed = x.armed /\ y.waiters = x.waiters
  BY <1>1, <1>3, <1>4 DEF Clients
<1> HIDE DEF y
<1>6. Along(x, y)
  BY <1>4, <1>5 DEF Along, Well, Sound, Listed, Unblamed, Timed, Answered
<1>7. Along(y, Each(y, x.ck.reads, PlacedAgain))
  BY <1>1, <1>6, AllPlacedAgain DEF Along
<1> QED BY <1>2, <1>6, <1>7, AlongTrans

(* The chain that wins a pass has its work, so the client may settle on it. *)
LEMMA JudgeWaiting ==
  ASSUME NEW x, Well(x)
  PROVE  Waiting(JudgePass(x))
<1> DEFINE got == x.ck.got
           proofs == Among(got, {a \in ToSet(got) : a.kind = "proof"})
           tips == [i \in DOMAIN proofs |-> proofs[i].tip]
           winner == IF tips = <<>> THEN Root ELSE tips[Winner(tips)]
           calm == x.ck.calm /\ Compared(x)
           whole == x.whole /\ AsNamed(x)
           ck == [x.ck EXCEPT !.calm = calm]
           w == [x EXCEPT !.ck = ck, !.whole = whole]
           y == JudgedAll(w, x, winner)
           z == IF winner = Root \/ winner \in HeldBy(y.tip) THEN y ELSE Settled(y, winner)
<1>1. x \in Clients /\ x.ck \in Checks /\ got \in Seq(Answers)
  BY CheckParts DEF Well, Sound
<1>2. JudgePass(x) = IF Raised(y) THEN Thrown(y) ELSE ComposePass(z)
  <2> DEFINE seen == [x EXCEPT !.ck.calm = @ /\ Compared(x), !.whole = @ /\ AsNamed(x)]
             v == JudgedAll(seen, x, winner)
  <2>1. seen = w
    BY <1>1 DEF Clients
  <2>2. JudgePass(x) = IF Raised(v) THEN Thrown(v)
                       ELSE ComposePass(IF winner = Root \/ winner \in HeldBy(v.tip) THEN v
                                        ELSE Settled(v, winner))
    BY DEF JudgePass
  <2> HIDE DEF w, seen, winner
  <2>3. v = y
    BY <2>1
  <2> HIDE DEF v, y
  <2> QED BY <2>2, <2>3
<1>3. winner \in Nodes /\ Clean(winner)
  <2> DEFINE S == {a \in ToSet(got) : a.kind = "proof"}
  <2>1. proofs \in Seq(Answers) /\ Picks(proofs, got, S)
    <3> HIDE DEF S
    <3> QED BY <1>1, AmongIs DEF S
  <2>2. \A i \in DOMAIN proofs : proofs[i] \in Answers /\ Clean(proofs[i].tip)
    <3> TAKE i \in DOMAIN proofs
    <3>1. proofs[i].kind = "proof" /\ \E j \in DOMAIN got : got[j] = proofs[i]
      BY <2>1 DEF Picks
    <3>2. proofs[i] \in Answers
      BY <2>1
    <3> QED BY <3>1, <3>2 DEF Well, Answered
  <2>3. \A i \in DOMAIN proofs : proofs[i].tip \in Nodes
    BY <2>2 DEF Answers
  <2> HIDE DEF proofs
  <2>4. tips \in Seq(Nodes) /\ DOMAIN tips = DOMAIN proofs /\ \A i \in DOMAIN tips : tips[i] = proofs[i].tip
    BY <2>1, <2>3
  <2> HIDE DEF tips
  <2>5. tips # <<>> => tips[Winner(tips)] \in Nodes /\ Clean(tips[Winner(tips)])
    BY <2>2, <2>4, WinnerIs
  <2> QED BY <2>5, Heights
<1> HIDE DEF winner
<1>4. calm \in BOOLEAN /\ whole \in BOOLEAN
  OBVIOUS
<1> HIDE DEF calm, whole
<1>5. ck \in Checks /\ ck.pass = x.ck.pass /\ ck.got = x.ck.got /\ ck.route = x.ck.route
  BY <1>1, <1>4 DEF Checks
<1> HIDE DEF ck
<1>6. w \in Clients /\ Same(x, w) /\ w.ck = ck
  BY <1>1, <1>4, <1>5 DEF Clients, Same
<1> HIDE DEF w
<1>7. Along(x, w)
  BY <1>6, SameAlong
<1>8. Along(w, y)
  BY <1>7, JudgedAllAlong DEF Along
<1> HIDE DEF y
<1>9. Well(y) /\ Well(z)
  BY <1>3, <1>8, SettledAlong DEF Along
<1> HIDE DEF z
<1> QED BY <1>2, <1>9, EndWaiting, ComposeWaiting DEF Well

(* The tips are grouped and the first pass is composed. *)
LEMMA BeginProofsWaiting ==
  ASSUME NEW x, Well(x)
  PROVE  Waiting(BeginProofs(x))
<1> DEFINE y == Each(x, x.ck.reads, Grouped)
<1>1. x.ck.reads \in Seq(Keys)
  BY CheckParts DEF Well, Sound
<1>2. BeginProofs(x) = ComposePass(y)
  BY DEF BeginProofs
<1>3. Along(x, y)
  BY <1>1, AllGrouped
<1> HIDE DEF y
<1> QED BY <1>2, <1>3, ComposeWaiting DEF Along

(* The next tip below the window, or the proofs. *)
LEMMA NextUnderWaiting ==
  ASSUME NEW x, Well(x)
  PROVE  Waiting(NextUnder(x))
<1> DEFINE f == FirstNodeAtChainTip(x)
           ck == [x.ck EXCEPT !.pc = "under", !.server = f]
           z == [x EXCEPT !.ck = ck]
<1>1. x \in Clients /\ x.ck \in Checks
  BY CheckParts DEF Well, Sound
<1>2. f \in Keys \cup {NoKey}
  BY <1>1, CandidatesAre
<1>3. NextUnder(x) = IF Raised(x) THEN Thrown(x)
                     ELSE IF x.ck.under = <<>> \/ f = NoKey THEN BeginProofs(x) ELSE z
  BY <1>1 DEF NextUnder, Clients
<1> HIDE DEF f
<1>4. /\ ck \in Checks /\ ck.pass = x.ck.pass /\ ck.got = x.ck.got /\ ck.route = x.ck.route
      /\ ck.pc = "under" /\ ck.server = f /\ ck.under = x.ck.under
  BY <1>1, <1>2 DEF Checks, Pcs
<1> HIDE DEF ck
<1>5. Well(z) /\ z.ck = ck
  BY <1>1, <1>4, CheckAlong, WithCheck DEF Along
<1> HIDE DEF z
<1>6. x.ck.under # <<>> /\ f # NoKey => Waiting(z)
  BY <1>2, <1>4, <1>5 DEF Waiting, Posed
<1> QED BY <1>3, <1>6, EndWaiting, BeginProofsWaiting DEF Well

(* The tips read are placed. *)
LEMMA PlaceReadsWaiting ==
  ASSUME NEW x, Well(x)
  PROVE  Waiting(PlaceReads(x))
<1> DEFINE y == Each(x, x.ck.reads, PlacedFirst)
           under == Among(y.ck.reads, {k \in Keys : y.ck.read[k] # Root
                                           /\ Place(y.tip, y.ck.read[k]) = "under"})
           ck == [y.ck EXCEPT !.under = under]
           z == [y EXCEPT !.ck = ck]
<1>1. x.ck.reads \in Seq(Keys)
  BY CheckParts DEF Well, Sound
<1>2. Along(x, y)
  BY <1>1, AllPlacedFirst
<1>3. PlaceReads(x) = NextUnder([y EXCEPT !.ck.under = under])
  BY DEF PlaceReads
<1> HIDE DEF y
<1>4. y \in Clients /\ y.ck \in Checks /\ y.ck.reads \in Seq(Keys)
  BY <1>2, CheckParts DEF Along, Well, Sound
<1>5. under \in Seq(Keys)
  BY <1>4, AmongIs
<1> HIDE DEF under
<1>6. [y EXCEPT !.ck.under = under] = z
  BY <1>4 DEF Clients
<1>7. ck \in Checks /\ ck.pass = y.ck.pass /\ ck.got = y.ck.got /\ ck.route = y.ck.route
  BY <1>4, <1>5 DEF Checks
<1> HIDE DEF ck
<1>8. Well(z)
  BY <1>2, <1>7, CheckAlong DEF Along
<1> HIDE DEF z
<1> QED BY <1>3, <1>6, <1>8, NextUnderWaiting

(* The next fill, or the placements. *)
LEMMA NextFillWaiting ==
  ASSUME NEW x, Well(x)
  PROVE  Waiting(NextFill(x))
<1> DEFINE rest == From(x.ck.queue, {k \in Keys : Fillable(x, k)})
           none == [x.ck EXCEPT !.queue = <<>>]
           ck == [x.ck EXCEPT !.pc = "fill", !.queue = rest, !.from = x.tip]
           e == [x EXCEPT !.ck = none]
           z == [x EXCEPT !.ck = ck]
<1>1. x \in Clients /\ x.ck \in Checks /\ x.ck.queue \in Seq(Keys) /\ x.tip \in Nodes
  BY CheckParts DEF Well, Sound, Clients
<1>2. rest \in Seq(Keys)
  BY <1>1, FromIs
<1>3. NextFill(x) = IF Raised(x) THEN Thrown(x) ELSE IF rest = <<>> THEN PlaceReads(e) ELSE z
  BY <1>1 DEF NextFill, Clients
<1> HIDE DEF rest
<1>4. none \in Checks /\ none.pass = x.ck.pass /\ none.got = x.ck.got /\ none.route = x.ck.route
  <2>1. <<>> \in Seq(Keys)
    OBVIOUS
  <2> QED BY <1>1, <2>1 DEF Checks
<1>5. /\ ck \in Checks /\ ck.pass = x.ck.pass /\ ck.got = x.ck.got /\ ck.route = x.ck.route
      /\ ck.pc = "fill" /\ ck.queue = rest
  BY <1>1, <1>2 DEF Checks, Pcs
<1> HIDE DEF none, ck
<1>6. Well(e)
  BY <1>4, CheckAlong DEF Along
<1>7. Well(z) /\ z.ck = ck
  BY <1>1, <1>5, CheckAlong, WithCheck DEF Along
<1> HIDE DEF e, z
<1>8. rest # <<>> => Waiting(z)
  BY <1>5, <1>7 DEF Waiting, Posed
<1> QED BY <1>3, <1>6, <1>8, EndWaiting, PlaceReadsWaiting DEF Well

(* The fills begin. *)
LEMMA BeginFillsWaiting ==
  ASSUME NEW x, Well(x)
  PROVE  Waiting(BeginFills(x))
<1> DEFINE hashed == Among(x.ck.reads, {k \in Keys : x.ck.read[k] # Root})
           queue == HighestFirst(x, hashed)
           ck == [x.ck EXCEPT !.queue = queue]
           z == [x EXCEPT !.ck = ck]
<1>1. x \in Clients /\ x.ck \in Checks /\ x.ck.reads \in Seq(Keys)
  BY CheckParts DEF Well, Sound
<1>2. BeginFills(x) = NextFill([x EXCEPT !.ck.queue = queue])
  BY DEF BeginFills
<1>3. hashed \in Seq(Keys)
  BY <1>1, AmongIs
<1> HIDE DEF hashed
<1>4. queue \in Seq(Keys)
  BY <1>1, <1>3, HighestFirstIs
<1> HIDE DEF queue
<1>5. [x EXCEPT !.ck.queue = queue] = z
  BY <1>1 DEF Clients
<1>6. ck \in Checks /\ ck.pass = x.ck.pass /\ ck.got = x.ck.got /\ ck.route = x.ck.route
  BY <1>1, <1>4 DEF Checks
<1> HIDE DEF ck
<1>7. Well(z)
  BY <1>6, CheckAlong DEF Along
<1> HIDE DEF z
<1> QED BY <1>2, <1>5, <1>7, NextFillWaiting

(* The next tip to read, or the fills. *)
LEMMA NextTipWaiting ==
  ASSUME NEW x, Well(x), x.ck.pc \in {"tips", "thrown"}
  PROVE  Waiting(NextTip(x))
<1>1. CASE Raised(x)
  BY <1>1, EndWaiting DEF NextTip, Well
<1>2. CASE ~Raised(x) /\ x.ck.queue = <<>>
  BY <1>2, BeginFillsWaiting DEF NextTip
<1>3. CASE ~Raised(x) /\ x.ck.queue # <<>>
  BY <1>3 DEF NextTip, Raised, Waiting, Posed
<1> QED BY <1>1, <1>2, <1>3

(* The keys a check begins with. *)
LEMMA ChainCandidatesAre ==
  ASSUME NEW x \in Clients
  PROVE  ChainCandidates(x) \in Seq(Keys)
  BY CandidatesAre, AmongIs DEF ChainCandidates

(* The routes are chosen and the tips are read, before any answer is in. *)
LEMMA BeginTipsWaiting ==
  ASSUME NEW x, Well(x), x.ck.got = <<>>
  PROVE  Waiting(BeginTips(x))
<1> DEFINE queue == ChainCandidates(x)
           route == [k \in Keys |-> BaseOf(x, k)]
           ck == [x.ck EXCEPT !.pc = "tips", !.queue = queue, !.route = route]
           z == [x EXCEPT !.ck = ck]
<1>1. x \in Clients /\ x.ck \in Checks
  BY CheckParts DEF Well, Sound
<1>2. queue \in Seq(Keys) /\ route \in [Keys -> {"mesh", "api"}]
  BY <1>1, ChainCandidatesAre DEF BaseOf
<1>3. BeginTips(x) = NextTip(z)
  <2>1. [x EXCEPT !.ck.pc = "tips", !.ck.queue = queue, !.ck.route = route] = z
    BY <1>1 DEF Clients
  <2> HIDE DEF z
  <2> QED BY <2>1 DEF BeginTips
<1> HIDE DEF queue, route
<1>4. ck \in Checks /\ ck.pc = "tips" /\ ck.got = <<>>
  BY <1>1, <1>2 DEF Checks, Pcs
<1> HIDE DEF ck
<1>5. z \in Clients /\ z.ck = ck /\ z.list = x.list /\ z.st = x.st /\ z.tip = x.tip
      /\ z.armed = x.armed /\ z.waiters = x.waiters
  BY <1>1, <1>4, WithCheck
<1> HIDE DEF z
<1>6. Well(z)
  BY <1>4, <1>5, FreshWell DEF Well
<1> QED BY <1>3, <1>4, <1>5, <1>6, NextTipWaiting

(* The next dial, or the tips. *)
LEMMA NextDialWaiting ==
  ASSUME NEW x, Well(x), x.ck.got = <<>>
  PROVE  Waiting(NextDial(x))
<1> DEFINE rest == From(x.ck.queue, {k \in Keys : Dials(x, k)})
           ck == [x.ck EXCEPT !.pc = "dial", !.queue = rest]
           z == [x EXCEPT !.ck = ck]
<1>1. x \in Clients /\ x.ck \in Checks /\ x.ck.queue \in Seq(Keys)
  BY CheckParts DEF Well, Sound
<1>2. rest \in Seq(Keys)
  BY <1>1, FromIs
<1>3. NextDial(x) = IF Raised(x) THEN Thrown(x) ELSE IF rest = <<>> THEN BeginTips(x) ELSE z
  BY <1>1 DEF NextDial, Clients
<1> HIDE DEF rest
<1>4. /\ ck \in Checks /\ ck.pass = x.ck.pass /\ ck.got = x.ck.got /\ ck.route = x.ck.route
      /\ ck.pc = "dial" /\ ck.queue = rest
  BY <1>1, <1>2 DEF Checks, Pcs
<1> HIDE DEF ck
<1>5. Well(z) /\ z.ck = ck
  BY <1>1, <1>4, CheckAlong, WithCheck DEF Along
<1> HIDE DEF z
<1>6. rest # <<>> => Waiting(z)
  BY <1>4, <1>5 DEF Waiting, Posed
<1> QED BY <1>3, <1>6, EndWaiting, BeginTipsWaiting DEF Well

(* A check starts from no progress. *)
LEMMA StartWaiting ==
  ASSUME NEW x, Sound(x)
  PROVE  Waiting(StartCheck(x))
<1> DEFINE queue == ChainCandidates(x)
           ck == [NoCheck EXCEPT !.pc = "dial", !.calm = TRUE, !.queue = queue]
           z == [x EXCEPT !.ck = ck]
<1>1. x \in Clients
  BY DEF Sound
<1>2. queue \in Seq(Keys)
  BY <1>1, ChainCandidatesAre
<1>3. StartCheck(x) = NextDial(z)
  BY DEF StartCheck
<1> HIDE DEF queue
<1>4. ck \in Checks /\ ck.got = <<>>
  BY <1>2, NoCheckIs DEF Checks, Pcs
<1> HIDE DEF ck
<1>5. z \in Clients /\ z.ck = ck /\ z.list = x.list /\ z.st = x.st /\ z.tip = x.tip
      /\ z.armed = x.armed /\ z.waiters = x.waiters
  BY <1>1, <1>4, WithCheck
<1> HIDE DEF z
<1>6. Well(z)
  BY <1>4, <1>5, FreshWell
<1> QED BY <1>3, <1>4, <1>5, <1>6, NextDialWaiting

-----------------------------------------------------------------------------
(* What a read or another actor does to the client. *)

(* Only the check's progress and answers say what it waits for. *)
LEMMA SameCheck ==
  ASSUME NEW x, Waiting(x), NEW z, Sound(z), z.ck = x.ck
  PROVE  Waiting(z)
  BY DEF Waiting, Well, Answered, Posed

(* A disturbance is noted with the check and moves nothing else. *)
LEMMA DisturbedAlong ==
  ASSUME NEW x, Well(x)
  PROVE  Along(x, Disturbed(x)) /\ Disturbed(x).ck = [x.ck EXCEPT !.calm = FALSE]
<1> DEFINE ck == [x.ck EXCEPT !.calm = FALSE]
           z == [x EXCEPT !.ck = ck]
<1>1. x \in Clients /\ x.ck \in Checks
  BY CheckParts DEF Well, Sound
<1>2. Disturbed(x) = z
  BY <1>1 DEF Disturbed, Clients
<1>3. ck \in Checks /\ ck.pass = x.ck.pass /\ ck.got = x.ck.got /\ ck.route = x.ck.route
  BY <1>1 DEF Checks
<1> HIDE DEF ck
<1>4. z.ck = ck /\ Along(x, z)
  BY <1>1, <1>3, CheckAlong, WithCheck
<1> QED BY <1>2, <1>4 DEF ck

(* So a client that waits still waits. *)
LEMMA DisturbedWaiting ==
  ASSUME NEW x, Waiting(x)
  PROVE  Waiting(Disturbed(x))
<1>1. x.ck \in Checks
  BY CheckParts DEF Waiting, Well, Sound
<1> DEFINE z == Disturbed(x)
<1>2. Well(z) /\ z.ck = [x.ck EXCEPT !.calm = FALSE]
  BY DisturbedAlong DEF Waiting, Along
<1> HIDE DEF z
<1>3. /\ z.ck.pc = x.ck.pc /\ z.ck.queue = x.ck.queue /\ z.ck.got = x.ck.got
      /\ z.ck.under = x.ck.under /\ z.ck.server = x.ck.server /\ z.ck.pass = x.ck.pass
  BY <1>1, <1>2 DEF Checks
<1>4. Posed(z)
  BY <1>3 DEF Waiting, Posed
<1> QED BY <1>2, <1>4 DEF Waiting, z

\* The client with the first key it asks taken off.
Rest(x) == [x EXCEPT !.ck.queue = Tail(@)]

(* Taking it off is a step along. *)
LEMMA RestAlong ==
  ASSUME NEW x, Well(x), x.ck.queue # <<>>
  PROVE  /\ Head(x.ck.queue) \in Keys /\ Along(x, Rest(x))
         /\ Rest(x).ck = [x.ck EXCEPT !.queue = Tail(x.ck.queue)]
         /\ Rest(x).tip = x.tip /\ Rest(x).st = x.st /\ Rest(x).conn = x.conn
<1> DEFINE tail == Tail(x.ck.queue)
           ck == [x.ck EXCEPT !.queue = tail]
           z == [x EXCEPT !.ck = ck]
<1>1. x \in Clients /\ x.ck \in Checks /\ x.ck.queue \in Seq(Keys)
  BY CheckParts DEF Well, Sound
<1>2. Head(x.ck.queue) \in Keys /\ tail \in Seq(Keys)
  BY <1>1, TailIs
<1>3. Rest(x) = z
  BY <1>1 DEF Rest, Clients
<1> HIDE DEF tail
<1>4. ck \in Checks /\ ck.pass = x.ck.pass /\ ck.got = x.ck.got /\ ck.route = x.ck.route
  BY <1>1, <1>2 DEF Checks
<1> HIDE DEF ck
<1>5. z.ck = ck /\ Along(x, z) /\ z.tip = x.tip /\ z.st = x.st /\ z.conn = x.conn
  BY <1>1, <1>4, CheckAlong, WithCheck
<1> QED BY <1>2, <1>3, <1>5 DEF ck, tail

(* An event moves the progress of a check only by an exception. *)
LEMMA KeptParts ==
  ASSUME NEW x, NEW z, x.ck \in Checks, Kept(x, z)
  PROVE  /\ z.ck.got = x.ck.got /\ z.ck.pass = x.ck.pass /\ z.ck.route = x.ck.route
         /\ z.ck.pc = x.ck.pc \/ z.ck.pc = "thrown"
  BY DEF Kept, Checks

(* The honest nodes' tips are moved by nothing but their own adoption. *)
LEMMA Beside ==
  ASSUME Surroundings, UNCHANGED nodeTip, Spend \/ UNCHANGED used
  PROVE  Surroundings'
  BY BoundAssumption DEF Surroundings, Spend

-----------------------------------------------------------------------------
(* The check's suspensions. *)

(* A dial: its handshake begins, its addresses fail, or they answer wrongly. *)
LEMMA DialledSafe ==
  ASSUME IInv, Dialled
  PROVE  IInv'
<1> DEFINE k == Head(c.ck.queue)
           x == Rest(c)
           far == IF x.st[k] = "absent" THEN x ELSE Moved(x, k, "retry")
           wrong == IF x.st[k] = "absent" THEN [x EXCEPT !.ck.pc = "thrown"] ELSE x
           shaken == [x EXCEPT !.conn[k] = "shaking"]
<1>1. Well(c) /\ c.ck \in Checks /\ c.ck.pc = "dial" /\ c.ck.queue # <<>> /\ c.ck.got = <<>>
  BY CheckParts DEF IInv, Posed, Well, Sound, Dialled
<1>2. k \in Keys /\ Well(x) /\ x.ck.got = <<>>
  BY <1>1, RestAlong DEF Along, Checks
<1>3. \/ c' = NextDial(shaken) \/ c' = NextDial(Disturbed(far)) \/ c' = NextDial(Disturbed(wrong))
  BY DEF Dialled, Rest
<1>4. UNCHANGED nodeTip /\ (Spend \/ UNCHANGED used)
  BY DEF Dialled
<1> HIDE DEF k, x
<1>5. x \in Clients /\ x.ck \in Checks /\ Sound(x)
  BY <1>2, CheckParts DEF Well, Sound
<1>6. Well(shaken) /\ shaken.ck.got = <<>>
  <2>1. shaken \in Clients /\ Same(x, shaken) /\ shaken.ck = x.ck
    BY <1>2, <1>5 DEF Clients, Conns, Same
  <2> HIDE DEF shaken
  <2> QED BY <1>2, <2>1, SameAlong DEF Along
<1>7. Well(far) /\ far.ck.got = <<>>
  <2>1. CASE x.st[k] = "absent"
    BY <1>2, <2>1
  <2>2. CASE x.st[k] # "absent"
    <3>1. Sound(Moved(x, k, "retry")) /\ Moved(x, k, "retry").ck = x.ck
      BY <1>2, <1>5, <2>2, MovedSound DEF Statuses
    <3> QED BY <1>2, <2>2, <3>1 DEF Well, Answered
  <2> QED BY <2>1, <2>2
<1>8. Well(wrong) /\ wrong.ck.got = <<>>
  <2>1. CASE x.st[k] = "absent"
    <3> DEFINE z == [x EXCEPT !.ck.pc = "thrown"]
    <3>1. Sound(z) /\ z.ck = [x.ck EXCEPT !.pc = "thrown"]
      BY <1>5, ThrowSound
    <3> HIDE DEF z
    <3>2. z.ck.got = x.ck.got /\ z.ck.pass = x.ck.pass /\ z.ck.route = x.ck.route
      BY <1>5, <3>1 DEF Checks
    <3>3. wrong = z
      BY <2>1 DEF z
    <3> HIDE DEF wrong
    <3>4. Answered(z)
      BY <1>2, <3>2 DEF Well, Answered
    <3> QED BY <1>2, <3>1, <3>2, <3>3, <3>4 DEF Well
  <2>2. CASE x.st[k] # "absent"
    BY <1>2, <2>2
  <2> QED BY <2>1, <2>2
<1> HIDE DEF far, wrong, shaken
<1>9. ASSUME NEW y, Well(y), y.ck.got = <<>>
      PROVE  Waiting(NextDial(y)) /\ Waiting(NextDial(Disturbed(y)))
  <2>1. y.ck \in Checks
    BY <1>9, CheckParts DEF Well, Sound
  <2>2. Well(Disturbed(y)) /\ Disturbed(y).ck = [y.ck EXCEPT !.calm = FALSE]
    BY <1>9, DisturbedAlong DEF Along
  <2>3. Disturbed(y).ck.got = <<>>
    BY <1>9, <2>1, <2>2 DEF Checks
  <2> QED BY <1>9, <2>2, <2>3, NextDialWaiting
<1>10. Waiting(c')
  BY <1>3, <1>6, <1>7, <1>8, <1>9
<1> QED BY <1>4, <1>10, Beside DEF IInv, Waiting

(* A tip is taken from its own key or its host, or an event ends the read. *)
LEMMA TipReadSafe ==
  ASSUME IInv, TipRead
  PROVE  IInv'
<1> DEFINE k == Head(c.ck.queue)
           x == Rest(c)
           Took(b) == [x EXCEPT !.ck.reads = Append(@, k), !.ck.read[k] = b]
<1>1. Well(c) /\ c.ck \in Checks /\ c.ck.pc = "tips" /\ c.ck.queue # <<>>
  BY CheckParts DEF IInv, Posed, Well, Sound, TipRead
<1>2. k \in Keys /\ Well(x) /\ x.ck.pc = "tips" /\ x.ck.route = c.ck.route
  BY <1>1, RestAlong DEF Along, Checks
<1>3. \/ c' = NextTip(x) \/ c' = NextTip(ApplyEvent(x, k, "failure"))
      \/ c' = NextTip(Took(nodeTip[k]))
      \/ ~ByItsOwnKey(k) /\ \E b \in LiarTips : c' = NextTip(Took(b))
      \/ ~ByItsOwnKey(k) /\ c' = NextTip(ApplyEvent(x, k, "lie"))
      \/ c' = NextTip(Disturbed(ApplyEvent(x, k, "failure")))
  BY DEF TipRead, Rest
<1>4. UNCHANGED nodeTip /\ (Spend \/ UNCHANGED used)
  BY DEF TipRead
<1>5. ~ByItsOwnKey(k) => Fair(x, k, "lie")
  BY <1>2 DEF ByItsOwnKey, Fair
<1> HIDE DEF k, x
<1>6. x \in Clients /\ x.ck \in Checks /\ x.ck.reads \in Seq(Keys) /\ x.ck.read \in [Keys -> Nodes]
  BY <1>2, CheckParts DEF Well, Sound
<1>7. ASSUME NEW b \in Nodes PROVE Waiting(NextTip(Took(b)))
  <2> DEFINE reads == Append(x.ck.reads, k)
             read == [x.ck.read EXCEPT ![k] = b]
             ck == [x.ck EXCEPT !.reads = reads, !.read = read]
  <2>1. reads \in Seq(Keys) /\ read \in [Keys -> Nodes]
    BY <1>2, <1>6, <1>7
  <2>2. Took(b) = [x EXCEPT !.ck = ck]
    BY <1>6 DEF Clients, Checks
  <2> HIDE DEF reads, read
  <2>3. /\ ck \in Checks /\ ck.pass = x.ck.pass /\ ck.got = x.ck.got /\ ck.route = x.ck.route
        /\ ck.pc = "tips"
    BY <1>2, <1>6, <2>1 DEF Checks
  <2> HIDE DEF ck, Took
  <2>4. Well(Took(b)) /\ Took(b).ck = ck
    BY <1>2, <1>6, <2>2, <2>3, CheckAlong, WithCheck DEF Along
  <2> QED BY <2>3, <2>4, NextTipWaiting
<1>8. ASSUME NEW ev, Fair(x, k, ev)
      PROVE  LET y == ApplyEvent(x, k, ev)
             IN  Waiting(NextTip(y)) /\ Waiting(NextTip(Disturbed(y)))
  <2> DEFINE y == ApplyEvent(x, k, ev)
  <2>1. Well(y) /\ Kept(x, y)
    BY <1>2, <1>8, EventAlong DEF Along
  <2> HIDE DEF y
  <2>2. y.ck \in Checks /\ y.ck.pc \in {"tips", "thrown"}
    BY <1>2, <1>6, <2>1, KeptParts, CheckParts DEF Well, Sound
  <2>3. Well(Disturbed(y)) /\ Disturbed(y).ck.pc = y.ck.pc
    BY <2>1, <2>2, DisturbedAlong DEF Along, Checks
  <2> QED BY <2>1, <2>2, <2>3, NextTipWaiting DEF y
<1>9. Fair(x, k, "failure")
  BY DEF Fair
<1>10. nodeTip[k] \in Nodes /\ LiarTips \subseteq Nodes
  BY <1>2, TipAssumption DEF IInv, Surroundings, Nodes
<1> HIDE DEF Took
<1>11. Waiting(NextTip(x))
  BY <1>2, NextTipWaiting
<1>12. Waiting(c')
  BY <1>3, <1>5, <1>7, <1>8, <1>9, <1>10, <1>11
<1> QED BY <1>4, <1>12, Beside DEF IInv, Waiting

(* A client with the headers of a fill linked has their work. *)
LEMMA LinkedWell ==
  ASSUME NEW x, Well(x), NEW b \in Nodes, Links(x.tip, x.ck.from, b)
  PROVE  Well([x EXCEPT !.tip = b])
<1> DEFINE z == [x EXCEPT !.tip = b]
<1>1. x \in Clients /\ Clean(x.tip)
  BY DEF Well, Sound
<1>2. Clean(b)
  BY <1>1, CleanAbove DEF Links
<1>3. z \in Clients /\ z.ck = x.ck /\ z.list = x.list /\ z.st = x.st /\ z.tip = b
      /\ z.armed = x.armed /\ z.waiters = x.waiters
  BY <1>1 DEF Clients
<1> HIDE DEF z
<1>4. Well(z)
  BY <1>2, <1>3 DEF Well, Sound, Listed, Unblamed, Timed, Answered
<1> QED BY <1>4 DEF z

(* A fill links headers that carry their work, or leaves the chain. *)
LEMMA FillReadSafe ==
  ASSUME IInv, FillRead
  PROVE  IInv'
<1> DEFINE k == Head(c.ck.queue)
           b == c.ck.read[k]
           x == Rest(c)
           linked == IF Links(x.tip, x.ck.from, b) THEN [x EXCEPT !.tip = b] ELSE x
<1>1. Well(c) /\ c.ck \in Checks /\ c.ck.queue # <<>> /\ c.ck.read \in [Keys -> Nodes]
  BY CheckParts DEF IInv, Posed, Well, Sound, FillRead
<1>2. k \in Keys /\ b \in Nodes /\ Well(x) /\ x.ck.route = c.ck.route
  BY <1>1, RestAlong DEF Along, Checks
<1>3. \/ c' = NextFill(linked) \/ c' = NextFill(x)
      \/ c' = NextFill(ApplyEvent(x, k, "failure"))
      \/ ~ByItsOwnKey(k) /\ c' = NextFill(ApplyEvent(x, k, "lie"))
      \/ c' = NextFill(Disturbed(ApplyEvent(x, k, "failure")))
  BY DEF FillRead, Rest
<1>4. UNCHANGED nodeTip /\ (Spend \/ UNCHANGED used)
  BY DEF FillRead
<1>5. ~ByItsOwnKey(k) => Fair(x, k, "lie")
  BY <1>2 DEF ByItsOwnKey, Fair
<1> HIDE DEF k, x, b
<1>6. Well(linked)
  BY <1>2, LinkedWell
<1>7. ASSUME NEW ev, Fair(x, k, ev)
      PROVE  Well(ApplyEvent(x, k, ev)) /\ Well(Disturbed(ApplyEvent(x, k, ev)))
  BY <1>2, <1>7, EventAlong, DisturbedAlong DEF Along
<1>8. Fair(x, k, "failure")
  BY DEF Fair
<1> HIDE DEF linked
<1>9. Waiting(c')
  BY <1>2, <1>3, <1>5, <1>6, <1>7, <1>8, NextFillWaiting
<1> QED BY <1>4, <1>9, Beside DEF IInv, Waiting

(* A header of a node at the tip tells where a tip below the window stands. *)
LEMMA UnderReadSafe ==
  ASSUME IInv, UnderRead
  PROVE  IInv'
<1> DEFINE f == c.ck.server
           k == Head(c.ck.under)
           under == Tail(c.ck.under)
           x == [c EXCEPT !.ck.under = Tail(@)]
           y == ApplyEvent(x, k, "behind")
           found == [y EXCEPT !.ck.on = @ \cup {k}]
<1>1. /\ Well(c) /\ c \in Clients /\ c.ck \in Checks /\ c.ck.under # <<>>
      /\ c.ck.under \in Seq(Keys) /\ f \in Keys
  BY CheckParts DEF IInv, Posed, Well, Sound, UnderRead
<1>2. k \in Keys /\ under \in Seq(Keys)
  BY <1>1, TailIs
<1>3. Well(x) /\ x.ck.route = c.ck.route
  <2> DEFINE ck == [c.ck EXCEPT !.under = under]
  <2>1. x = [c EXCEPT !.ck = ck]
    BY <1>1 DEF Clients
  <2> HIDE DEF x, under
  <2>2. ck \in Checks /\ ck.pass = c.ck.pass /\ ck.got = c.ck.got /\ ck.route = c.ck.route
    BY <1>1, <1>2 DEF Checks
  <2> HIDE DEF ck
  <2> QED BY <1>1, <2>1, <2>2, CheckAlong DEF Along
<1>4. \/ c' = NextUnder(found) \/ c' = NextUnder(x)
      \/ c' = NextUnder(ApplyEvent(x, f, "failure"))
      \/ ~ByItsOwnKey(f) /\ c' = NextUnder(ApplyEvent(x, f, "lie"))
      \/ c' = NextUnder(Disturbed(ApplyEvent(x, f, "failure")))
  BY DEF UnderRead
<1>5. UNCHANGED nodeTip /\ (Spend \/ UNCHANGED used)
  BY DEF UnderRead
<1>6. ~ByItsOwnKey(f) => Fair(x, f, "lie")
  BY <1>3 DEF ByItsOwnKey, Fair
<1> HIDE DEF f, k, under, x
<1>7. ASSUME NEW j \in Keys, NEW ev, Fair(x, j, ev)
      PROVE  Well(ApplyEvent(x, j, ev)) /\ Well(Disturbed(ApplyEvent(x, j, ev)))
  BY <1>3, <1>7, EventAlong, DisturbedAlong DEF Along
<1>8. \A j \in Keys : Fair(x, j, "failure") /\ Fair(x, j, "behind")
  BY DEF Fair
<1>9. Well(found)
  <2>1. Well(y)
    BY <1>2, <1>7, <1>8
  <2> HIDE DEF y
  <2> DEFINE on == y.ck.on \cup {k}
             ck == [y.ck EXCEPT !.on = on]
  <2>2. y \in Clients /\ y.ck \in Checks /\ on \in SUBSET Keys
    BY <1>2, <2>1, CheckParts DEF Well, Sound
  <2>3. found = [y EXCEPT !.ck = ck]
    BY <2>2 DEF Clients
  <2> HIDE DEF on, found
  <2>4. ck \in Checks /\ ck.pass = y.ck.pass /\ ck.got = y.ck.got /\ ck.route = y.ck.route
    BY <2>2 DEF Checks
  <2> HIDE DEF ck
  <2> QED BY <2>1, <2>3, <2>4, CheckAlong DEF Along
<1> HIDE DEF found, y
<1>10. Waiting(c')
  BY <1>1, <1>3, <1>4, <1>6, <1>7, <1>8, <1>9, NextUnderWaiting
<1> QED BY <1>5, <1>10, Beside DEF IInv, Waiting

\* What an answer of k may be.
FairAnswer(x, k, a) ==
  /\ a \in Answers
  /\ a.kind = "proof" => Clean(a.tip)
  /\ a.kind = "lie" /\ k \in Honest => x.ck.route[k] = "api"

(* A pass goes on to its next answer, or is judged. *)
LEMMA AnswerWaiting ==
  ASSUME NEW x, Waiting(x), x.ck.pc = "proofs",
         NEW a, FairAnswer(x, x.ck.pass[Len(x.ck.got) + 1], a)
  PROVE  Waiting(Answer(x, a))
<1> DEFINE got == Append(x.ck.got, a)
           ck == [x.ck EXCEPT !.got = got]
           z == [x EXCEPT !.ck = ck]
<1>1. /\ Sound(x) /\ Answered(x) /\ x \in Clients /\ x.ck \in Checks
      /\ x.ck.got \in Seq(Answers) /\ x.ck.pass \in Seq(Keys) /\ Len(x.ck.got) < Len(x.ck.pass)
  BY CheckParts DEF Waiting, Posed, Well, Sound
<1>2. got \in Seq(Answers) /\ Len(got) = Len(x.ck.got) + 1
      /\ \A i \in DOMAIN got : IF i \in DOMAIN x.ck.got THEN got[i] = x.ck.got[i]
                               ELSE i = Len(x.ck.got) + 1 /\ got[i] = a
  BY <1>1 DEF FairAnswer
<1>3. Answer(x, a) = IF Len(z.ck.got) = Len(z.ck.pass) THEN JudgePass(z) ELSE z
  <2> DEFINE y == [x EXCEPT !.ck.got = Append(@, a)]
  <2>1. y = z
    BY <1>1 DEF Clients
  <2>2. Answer(x, a) = IF Len(y.ck.got) = Len(y.ck.pass) THEN JudgePass(y) ELSE y
    BY DEF Answer
  <2> HIDE DEF y, z
  <2> QED BY <2>1, <2>2
<1> HIDE DEF got
<1>4. ck \in Checks /\ ck.got = got /\ ck.pass = x.ck.pass /\ ck.route = x.ck.route /\ ck.pc = "proofs"
  BY <1>1, <1>2 DEF Checks
<1> HIDE DEF ck, z
<1>5. z \in Clients /\ z.ck = ck /\ z.list = x.list /\ z.st = x.st /\ z.tip = x.tip
      /\ z.armed = x.armed /\ z.waiters = x.waiters
  BY <1>1, <1>4, WithCheck DEF z
<1>6. Sound(z)
  BY <1>1, <1>5 DEF Sound, Listed, Unblamed, Timed
<1>7. Len(got) <= Len(x.ck.pass)
  BY <1>1, <1>2
<1>8. \A i \in DOMAIN got :
        /\ got[i].kind = "proof" => Clean(got[i].tip)
        /\ got[i].kind = "lie" /\ x.ck.pass[i] \in Honest => x.ck.route[x.ck.pass[i]] = "api"
  <2> TAKE i \in DOMAIN got
  <2>1. CASE i \in DOMAIN x.ck.got
    BY <1>1, <1>2, <2>1 DEF Answered
  <2>2. CASE i \notin DOMAIN x.ck.got
    BY <1>2, <2>2 DEF FairAnswer
  <2> QED BY <2>1, <2>2
<1>9. Answered(z)
  BY <1>4, <1>5, <1>7, <1>8 DEF Answered
<1>10. Well(z)
  BY <1>6, <1>9 DEF Well
<1>11. CASE Len(z.ck.got) = Len(z.ck.pass)
  BY <1>3, <1>10, <1>11, JudgeWaiting
<1>12. CASE Len(z.ck.got) # Len(z.ck.pass)
  <2>1. Len(z.ck.got) < Len(z.ck.pass)
    BY <1>1, <1>2, <1>4, <1>5, <1>12
  <2>2. Waiting(z)
    BY <1>4, <1>5, <1>10, <2>1 DEF Waiting, Posed
  <2> QED BY <1>3, <1>12, <2>2
<1> QED BY <1>11, <1>12

(* What a node proves of a tip is fair: a proof has its work, and a tip that  *)
(* has its work is not a lie.                                                 *)
LEMMA ProofsAreFair ==
  ASSUME NEW x, NEW k, NEW b \in Nodes, NEW a \in ProofsOf(b),
         Clean(b) \/ (k \in Honest => x.ck.route[k] = "api")
  PROVE  FairAnswer(x, k, a)
<1>1. a.tip = b /\ a \in Answers
  BY DEF ProofsOf, Answers
<1>2. (a.kind = "proof" => Clean(b)) /\ (a.kind = "lie" => ~Clean(b))
  BY DEF ProofsOf, Clean
<1> QED BY <1>1, <1>2 DEF FairAnswer

(* An answer of a pass comes in, from its own key or its host. *)
LEMMA ProofReadSafe ==
  ASSUME IInv, ProofRead
  PROVE  IInv'
<1> DEFINE k == c.ck.pass[Len(c.ck.got) + 1]
           failed == [kind |-> "fail", tip |-> Root]
           lied == [kind |-> "lie", tip |-> Root]
<1>1. Waiting(c) /\ c.ck.pc = "proofs" /\ c.ck.pass \in Seq(Keys) /\ c.ck.got \in Seq(Answers)
      /\ Len(c.ck.got) < Len(c.ck.pass)
  BY CheckParts DEF IInv, Waiting, Posed, Well, Sound, ProofRead
<1>2. k \in Keys
  BY <1>1
<1>3. \/ c' = Answer(c, failed) \/ c' = Disturbed(Answer(c, failed))
      \/ ByItsOwnKey(k) /\ \E a \in ProofsOf(nodeTip[k]) : c' = Answer(c, a)
      \/ ~ByItsOwnKey(k) /\ \E b \in LiarTips : \E a \in ProofsOf(b) : c' = Answer(c, a)
      \/ ~ByItsOwnKey(k) /\ c' = Answer(c, lied)
  BY DEF ProofRead
<1>4. UNCHANGED nodeTip /\ (Spend \/ UNCHANGED used)
  BY DEF ProofRead
<1>5. \A a : FairAnswer(c, k, a) => Waiting(Answer(c, a))
  BY <1>1, AnswerWaiting
<1>6. FairAnswer(c, k, failed)
  BY Heights DEF FairAnswer, Answers
<1>7. ~ByItsOwnKey(k) => (k \in Honest => c.ck.route[k] = "api")
  BY DEF ByItsOwnKey
<1>8. ~ByItsOwnKey(k) => FairAnswer(c, k, lied)
  BY <1>7, Heights DEF FairAnswer, Answers
<1>9. nodeTip[k] \in Nodes /\ (k \in Honest => Clean(nodeTip[k])) /\ LiarTips \subseteq Nodes
  BY <1>2, TipAssumption DEF IInv, Surroundings, Nodes
<1> HIDE DEF k, failed, lied
<1>10. ByItsOwnKey(k) => \A a \in ProofsOf(nodeTip[k]) : FairAnswer(c, k, a)
  BY <1>9, ProofsAreFair DEF ByItsOwnKey
<1>11. ~ByItsOwnKey(k) => \A b \in LiarTips : \A a \in ProofsOf(b) : FairAnswer(c, k, a)
  BY <1>7, <1>9, ProofsAreFair
<1>12. Waiting(c')
  BY <1>3, <1>5, <1>6, <1>8, <1>10, <1>11, DisturbedWaiting
<1> QED BY <1>4, <1>12, Beside DEF IInv, Waiting

(* The last read ends the check, with a lie held only against a liar. *)
LEMMA LastReadSafe ==
  ASSUME IInv, LastRead
  PROVE  IInv'
<1>1. Sound(c) /\ c \in Clients /\ c.ck \in Checks /\ c.ck.route \in [Keys -> {"mesh", "api"}]
  BY CheckParts DEF IInv, Well, Sound
<1>2. UNCHANGED nodeTip /\ (Spend \/ UNCHANGED used)
  BY DEF LastRead
<1>3. CASE c' = EndCheck(c) \/ c' = Thrown(c)
  BY <1>1, <1>2, <1>3, EndWaiting, Beside DEF IInv, Waiting
<1>4. ASSUME NEW k \in Keys,
             LET x == [c EXCEPT !.ck.route[k] = IF c.conn[k] = "passed" THEN "mesh" ELSE "api"]
             IN  /\ k \notin Honest \/ (x.ck.route[k] = "api" /\ k \in LyingHosts)
                 /\ c' = EndCheck(ApplyEvent(x, k, "lie"))
      PROVE  Waiting(c')
  <2> DEFINE way == IF c.conn[k] = "passed" THEN "mesh" ELSE "api"
             route == [c.ck.route EXCEPT ![k] = way]
             ck == [c.ck EXCEPT !.route = route]
             x == [c EXCEPT !.ck = ck]
  <2>1. [c EXCEPT !.ck.route[k] = IF c.conn[k] = "passed" THEN "mesh" ELSE "api"] = x
    BY <1>1 DEF Clients, Checks
  <2> HIDE DEF x
  <2>2. /\ k \notin Honest \/ x.ck.route[k] = "api"
        /\ c' = EndCheck(ApplyEvent(x, k, "lie"))
    BY <1>4, <2>1
  <2>3. way \in {"mesh", "api"}
    OBVIOUS
  <2> HIDE DEF way
  <2>4. route \in [Keys -> {"mesh", "api"}]
    BY <1>1, <2>3
  <2> HIDE DEF route
  <2>5. ck \in Checks
    BY <1>1, <2>4 DEF Checks
  <2> HIDE DEF ck
  <2>6. x \in Clients /\ x.list = c.list /\ x.st = c.st /\ x.tip = c.tip
        /\ x.armed = c.armed /\ x.waiters = c.waiters
    BY <1>1, <2>5, WithCheck DEF x
  <2>7. Sound(x)
    BY <1>1, <2>6 DEF Sound, Listed, Unblamed, Timed
  <2>8. Sound(ApplyEvent(x, k, "lie"))
    BY <2>2, <2>7, EventSound DEF Fair
  <2> QED BY <2>2, <2>8, EndWaiting
<1>5. TipServers(c) \subseteq Keys
  BY DEF TipServers
<1>6. CASE \E k \in TipServers(c) :
             LET x == [c EXCEPT !.ck.route[k] = IF c.conn[k] = "passed" THEN "mesh" ELSE "api"]
             IN  /\ k \notin Honest \/ (x.ck.route[k] = "api" /\ k \in LyingHosts)
                 /\ c' = EndCheck(ApplyEvent(x, k, "lie"))
  BY <1>2, <1>4, <1>5, <1>6, Beside DEF IInv, Waiting
<1>7. \/ c' = EndCheck(c) \/ c' = Thrown(c)
      \/ \E k \in TipServers(c) :
           LET x == [c EXCEPT !.ck.route[k] = IF c.conn[k] = "passed" THEN "mesh" ELSE "api"]
           IN  /\ k \notin Honest \/ (x.ck.route[k] = "api" /\ k \in LyingHosts)
               /\ c' = EndCheck(ApplyEvent(x, k, "lie"))
  BY DEF LastRead
<1> QED BY <1>3, <1>6, <1>7

-----------------------------------------------------------------------------
(* Timers. *)

(* A trigger arms one timer more, or none. *)
LEMMA TriggeredSound ==
  ASSUME NEW x, Sound(x)
  PROVE  Sound(Triggered(x)) /\ Triggered(x).ck = x.ck
<1> DEFINE armed == x.armed + 1
           z == [x EXCEPT !.armed = armed, !.handle = TRUE]
<1>1. x \in Clients /\ armed \in Nat /\ armed > 0
  BY DEF Sound, Clients
<1>3. Triggered(x) = x \/ Triggered(x) = z
  BY DEF Triggered
<1> HIDE DEF armed
<1>2. z \in Clients /\ z.ck = x.ck /\ z.list = x.list /\ z.st = x.st /\ z.tip = x.tip
      /\ z.armed > 0
  BY <1>1 DEF Clients
<1> HIDE DEF z
<1>4. Sound(z)
  BY <1>2 DEF Sound, Listed, Unblamed, Timed
<1> QED BY <1>2, <1>3, <1>4

(* A timer that fires leaves a callback waiting, and every callback arms one. *)
LEMMA TimersSafe ==
  ASSUME IInv, TimerFires \/ Rearm \/ CheckAsked \/ RoutedReadFails
  PROVE  IInv'
<1>1. /\ Waiting(c) /\ Sound(c) /\ c \in Clients /\ c.armed \in Nat /\ c.waiters \in Nat
  BY DEF IInv, Waiting, Well, Sound, Clients
<1>2. UNCHANGED nodeTip /\ (Spend \/ UNCHANGED used)
  BY DEF TimerFires, Rearm, CheckAsked, RoutedReadFails
<1>3. CASE TimerFires
  <2> DEFINE armed == c.armed - 1
             waiters == c.waiters + 1
             z == [c EXCEPT !.armed = armed, !.handle = FALSE, !.waiters = waiters]
  <2>1. c' = Checked(z) /\ armed \in Nat /\ waiters \in Nat /\ waiters > 0
    BY <1>1, <1>3 DEF TimerFires
  <2> HIDE DEF armed, waiters
  <2>2. z \in Clients /\ z.ck = c.ck /\ z.list = c.list /\ z.st = c.st /\ z.tip = c.tip
        /\ z.waiters > 0
    BY <1>1, <2>1 DEF Clients
  <2> HIDE DEF z
  <2>3. Sound(z)
    BY <1>1, <2>2 DEF Sound, Listed, Unblamed, Timed
  <2>4. Waiting(z)
    BY <1>1, <2>2, <2>3, SameCheck
  <2>5. Waiting(c')
    BY <2>1, <2>3, <2>4, StartWaiting DEF Checked
  <2> QED BY <1>2, <2>5, Beside DEF IInv, Waiting
<1>4. CASE Rearm
  <2> DEFINE armed == c.armed + c.waiters
             z == [c EXCEPT !.armed = armed, !.handle = TRUE, !.waiters = 0]
  <2>1. c' = z /\ armed \in Nat /\ armed > 0
    BY <1>1, <1>4 DEF Rearm
  <2> HIDE DEF armed
  <2>2. z \in Clients /\ z.ck = c.ck /\ z.list = c.list /\ z.st = c.st /\ z.tip = c.tip
        /\ z.armed > 0
    BY <1>1, <2>1 DEF Clients
  <2> HIDE DEF z
  <2>3. Sound(z)
    BY <1>1, <2>2 DEF Sound, Listed, Unblamed, Timed
  <2>4. Waiting(z)
    BY <1>1, <2>2, <2>3, SameCheck
  <2> QED BY <1>2, <2>1, <2>4, Beside DEF IInv, Waiting
<1>5. CASE CheckAsked
  <2>1. Waiting(c')
    BY <1>1, <1>5, StartWaiting DEF CheckAsked
  <2> QED BY <1>2, <2>1, Beside DEF IInv, Waiting
<1>6. CASE RoutedReadFails
  <2>1. Waiting(c')
    BY <1>1, <1>6, TriggeredSound, SameCheck DEF RoutedReadFails
  <2> QED BY <1>2, <2>1, Beside DEF IInv, Waiting
<1> QED BY <1>3, <1>4, <1>5, <1>6

-----------------------------------------------------------------------------
(* Links, gossip, discovery and the reader's hand. *)

(* A link that opens, fails or closes moves nothing else. *)
LEMMA LinkSafe ==
  ASSUME IInv, NEW k \in Keys, Handshake(k) \/ LinkCloses(k)
  PROVE  IInv'
<1> DEFINE At(s) == [c EXCEPT !.conn[k] = s]
           relay == [c EXCEPT !.conn[k] = "nochain", !.noChain = @ \cup {k}]
<1>1. Waiting(c) /\ Sound(c) /\ c \in Clients
  BY DEF IInv, Waiting, Well, Sound
<1>2. UNCHANGED nodeTip /\ (Spend \/ UNCHANGED used)
  BY DEF Handshake, LinkCloses
<1>3. \A s \in Conns : Waiting(At(s))
  <2> TAKE s \in Conns
  <2> DEFINE z == At(s)
  <2>1. z \in Clients /\ z.ck = c.ck /\ z.list = c.list /\ z.st = c.st /\ z.tip = c.tip
        /\ z.armed = c.armed /\ z.waiters = c.waiters
    BY <1>1 DEF Clients
  <2> HIDE DEF z
  <2>2. Sound(z)
    BY <1>1, <2>1 DEF Sound, Listed, Unblamed, Timed
  <2>3. Waiting(z)
    BY <1>1, <2>1, <2>2, SameCheck
  <2> QED BY <2>3 DEF z
<1>4. Waiting(relay)
  <2>1. relay \in Clients /\ relay.ck = c.ck /\ relay.list = c.list /\ relay.st = c.st
        /\ relay.tip = c.tip /\ relay.armed = c.armed /\ relay.waiters = c.waiters
    BY <1>1 DEF Clients, Conns
  <2> HIDE DEF relay
  <2>2. Sound(relay)
    BY <1>1, <2>1 DEF Sound, Listed, Unblamed, Timed
  <2> QED BY <1>1, <2>1, <2>2, SameCheck
<1>5. \/ c' = At("passed") \/ c' = relay \/ c' = Disturbed(At("failed"))
      \/ c' = Disturbed(At("none"))
  BY DEF Handshake, LinkCloses
<1>6. {"passed", "failed", "none"} \subseteq Conns
  BY DEF Conns
<1> HIDE DEF At, relay
<1>7. Waiting(c')
  BY <1>3, <1>4, <1>5, <1>6, DisturbedWaiting
<1> QED BY <1>2, <1>7, Beside DEF IInv, Waiting

(* A retry whose time has come was listed and stays so. *)
LEMMA WaitEndsSafe ==
  ASSUME IInv, NEW k \in Keys, WaitEnds(k)
  PROVE  IInv'
<1> DEFINE z == [c EXCEPT !.st[k] = "due"]
<1>1. Waiting(c) /\ Sound(c) /\ c.st[k] = "retry"
  BY DEF IInv, Waiting, Well, WaitEnds
<1>2. c' = Moved(c, k, "due")
  BY <1>1 DEF WaitEnds, Moved
<1>3. Sound(c') /\ c'.ck = c.ck
  BY <1>1, <1>2, MovedSound DEF Statuses
<1>4. Waiting(c')
  BY <1>1, <1>3, SameCheck
<1>5. UNCHANGED nodeTip /\ UNCHANGED used
  BY DEF WaitEnds
<1> QED BY <1>4, <1>5, Beside DEF IInv, Waiting

(* An honest node adopts what its own validation lets pass. *)
LEMMA AdoptsSafe ==
  ASSUME IInv, NEW k \in Honest, NEW b \in HonestTips, Adopts(k, b)
  PROVE  IInv'
<1>1. Waiting(c')
  BY DisturbedWaiting DEF Adopts, IInv, Waiting
<1>2. k \in Keys /\ b \in Nodes /\ Clean(b)
  BY KeyAssumption, TipAssumption DEF Clean, Nodes
<1>3. Surroundings'
  BY <1>2, BoundAssumption DEF Adopts, Spend, IInv, Surroundings
<1> QED BY <1>1, <1>3 DEF IInv, Waiting

(* The tip is in the window, so the schedule of a block that extends it is known. *)
LEMMA TipScheduled ==
  ASSUME NEW tip \in Nodes, NEW b \in Blocks, Extends(tip, b)
  PROVE  ScheduleKnown(tip, b)
<1>1. tip \in Blocks /\ tip # Root
  BY DEF Extends, Nodes
<1>2. Height(tip) \in Nat /\ Height(tip) >= 1 /\ Chain[tip][Height(tip)] = tip
  BY <1>1, Heights
<1> DEFINE low == IF Height(tip) > K THEN Height(tip) - K ELSE 0
<1>3. Height(tip) \in (low + 1) .. Height(tip)
  BY <1>2, WindowAssumption
<1>4. tip \in Window(tip)
  BY <1>2, <1>3 DEF Window, PathAbove
<1> QED BY <1>1, <1>4 DEF ScheduleKnown, HeldBy, Extends

(* A block gossiped extends the chain only with work, and a lie is its sender's. *)
LEMMA GossipSafe ==
  ASSUME IInv, NEW k \in Keys, NEW b \in Blocks, NEW forged \in BOOLEAN, Gossip(k, b, forged)
  PROVE  IInv'
<1> DEFINE verdict == BlockVerdict(c.tip, b, forged)
           z == [c EXCEPT !.tip = b, !.shown.tip = b]
<1>1. Waiting(c) /\ Sound(c) /\ c \in Clients /\ Clean(c.tip)
  BY DEF IInv, Waiting, Well, Sound
<1>2. UNCHANGED nodeTip /\ (Spend \/ UNCHANGED used)
  BY DEF Gossip
<1>3. CASE c' = c \/ c' = Triggered(c)
  <2>1. Waiting(c')
    BY <1>1, <1>3, TriggeredSound, SameCheck
  <2> QED BY <1>2, <2>1, Beside DEF IInv, Waiting
<1>4. CASE verdict = "lie" /\ c.st[k] # "absent" /\ c' = Disturbed(Moved(c, k, "blacklisted"))
  <2>1. k \notin Honest
    BY <1>4 DEF Gossip, BlockVerdict
  <2>2. Sound(Moved(c, k, "blacklisted")) /\ Moved(c, k, "blacklisted").ck = c.ck
    BY <1>1, <1>4, <2>1, MovedSound DEF Statuses
  <2>3. Waiting(c')
    BY <1>1, <1>4, <2>2, SameCheck, DisturbedWaiting
  <2> QED BY <1>2, <2>3, Beside DEF IInv, Waiting
<1>5. CASE verdict = "accept" /\ Extends(c.tip, b) /\ c' = Disturbed(z)
  <2>0. ScheduleKnown(c.tip, b)
    BY <1>1, <1>5, TipScheduled DEF Clients
  <2>1. Clean(b) /\ b \in Nodes
    BY <1>1, <1>5, <2>0, CleanChild DEF BlockVerdict, Extends, Nodes
  <2> DEFINE shown == [c.shown EXCEPT !.tip = b]
  <2>2. shown \in Showns
    BY <1>1, <2>1 DEF Clients, Showns
  <2>3. z = [c EXCEPT !.tip = b, !.shown = shown]
    BY <1>1 DEF Clients
  <2> HIDE DEF shown
  <2>4. z \in Clients /\ z.ck = c.ck /\ z.list = c.list /\ z.st = c.st /\ z.tip = b
        /\ z.armed = c.armed /\ z.waiters = c.waiters
    BY <1>1, <2>1, <2>2, <2>3 DEF Clients
  <2> HIDE DEF z
  <2>5. Sound(z)
    BY <1>1, <2>1, <2>4 DEF Sound, Listed, Unblamed, Timed
  <2>6. Waiting(c')
    BY <1>1, <1>5, <2>4, <2>5, SameCheck, DisturbedWaiting
  <2> QED BY <1>2, <2>6, Beside DEF IInv, Waiting
<1>6. \/ c' = c \/ c' = Triggered(c)
      \/ verdict = "lie" /\ c.st[k] # "absent" /\ c' = Disturbed(Moved(c, k, "blacklisted"))
      \/ verdict = "accept" /\ Extends(c.tip, b) /\ c' = Disturbed(z)
  BY DEF Gossip
<1> QED BY <1>3, <1>4, <1>5, <1>6

(* An entry added is listed. *)
LEMMA AddedSound ==
  ASSUME NEW x, Sound(x), NEW k \in Keys
  PROVE  Sound(Added(x, k)) /\ Added(x, k).ck = x.ck
<1> DEFINE list == Append(x.list, k)
           st == [x.st EXCEPT ![k] = "new"]
           z == [x EXCEPT !.st = st, !.list = list]
<1>1. x \in Clients /\ x.list \in Seq(Keys) /\ x.st \in [Keys -> Statuses] /\ Listed(x) /\ Unblamed(x)
  BY DEF Sound, Clients
<1>2. Added(x, k) = IF x.st[k] # "absent" THEN x ELSE z
  BY <1>1 DEF Added, Clients
<1>3. CASE x.st[k] # "absent"
  BY <1>2, <1>3
<1>4. CASE x.st[k] = "absent"
  <2>1. list \in Seq(Keys) /\ st \in [Keys -> Statuses]
        /\ \A j \in Keys : st[j] = IF j = k THEN "new" ELSE x.st[j]
    BY <1>1 DEF Statuses
  <2>2. \A j \in Keys : Contains(list, j) <=> Contains(x.list, j) \/ j = k
    <3>1. Len(list) = Len(x.list) + 1 /\ list[Len(x.list) + 1] = k
          /\ \A i \in 1 .. Len(x.list) : list[i] = x.list[i]
      BY <1>1
    <3>2. Len(x.list) \in Nat
      BY <1>1
    <3> HIDE DEF list
    <3> QED BY <3>1, <3>2 DEF Contains
  <2> HIDE DEF list, st
  <2>3. z \in Clients /\ z.ck = x.ck /\ z.list = list /\ z.st = st /\ z.tip = x.tip
        /\ z.armed = x.armed /\ z.waiters = x.waiters
    BY <1>1, <2>1 DEF Clients
  <2> HIDE DEF z
  <2>4. Listed(z)
    BY <1>1, <2>1, <2>2, <2>3 DEF Listed
  <2>5. Unblamed(z)
    BY <1>1, <2>1, <2>3, KeyAssumption DEF Unblamed
  <2>6. Sound(z)
    BY <2>3, <2>4, <2>5 DEF Sound, Timed
  <2> QED BY <1>2, <1>4, <2>3, <2>6
<1> QED BY <1>3, <1>4

(* The reader's hand marks the entry and asks for a check. *)
LEMMA HandAddedSound ==
  ASSUME NEW x, Sound(x), NEW k \in Keys
  PROVE  Sound(AddedByHand(x, k)) /\ AddedByHand(x, k).ck = x.ck
<1> DEFINE y == Added(x, k)
           z == [y EXCEPT !.byHand = @ \cup {k}]
<1>1. AddedByHand(x, k) = IF x.st[k] = "blacklisted" THEN x ELSE z
  BY DEF AddedByHand
<1>2. Sound(y) /\ y.ck = x.ck
  BY AddedSound
<1> HIDE DEF y
<1>3. z \in Clients /\ z.ck = y.ck /\ z.list = y.list /\ z.st = y.st /\ z.tip = y.tip
      /\ z.armed = y.armed /\ z.waiters = y.waiters
  BY <1>2 DEF Sound, Clients
<1> HIDE DEF z
<1>4. Sound(z)
  BY <1>2, <1>3 DEF Sound, Listed, Unblamed, Timed
<1> QED BY <1>1, <1>2, <1>3, <1>4

(* An entry removed is listed no more, and every other one still is. *)
LEMMA HandRemovedSound ==
  ASSUME NEW x, Sound(x), NEW k \in Keys
  PROVE  Sound(RemovedByHand(x, k)) /\ RemovedByHand(x, k).ck = x.ck
<1> DEFINE list == Among(x.list, Keys \ {k})
           st == [x.st EXCEPT ![k] = "absent"]
           byHand == x.byHand \ {k}
           z == [x EXCEPT !.st = st, !.list = list, !.byHand = byHand]
<1>1. x \in Clients /\ x.list \in Seq(Keys) /\ x.st \in [Keys -> Statuses] /\ Listed(x) /\ Unblamed(x)
      /\ x.byHand \subseteq Keys
  BY DEF Sound, Clients
<1>2. RemovedByHand(x, k) = IF k \in Anchors \/ k \notin x.byHand THEN x ELSE z
  BY <1>1 DEF RemovedByHand, Clients
<1>3. list \in Seq(Keys) /\ Picks(list, x.list, Keys \ {k})
  BY <1>1, AmongIs
<1>4. st \in [Keys -> Statuses] /\ byHand \in SUBSET Keys
      /\ \A j \in Keys : st[j] = IF j = k THEN "absent" ELSE x.st[j]
  BY <1>1 DEF Statuses
<1> HIDE DEF list, st, byHand
<1>5. \A j \in Keys : Contains(list, j) <=> Contains(x.list, j) /\ j # k
  <2>1. DOMAIN list = 1 .. Len(list) /\ DOMAIN x.list = 1 .. Len(x.list)
    BY <1>1, <1>3
  <2> QED BY <1>3, <2>1 DEF Contains, Picks
<1>6. z \in Clients /\ z.ck = x.ck /\ z.list = list /\ z.st = st /\ z.tip = x.tip
      /\ z.armed = x.armed /\ z.waiters = x.waiters
  BY <1>1, <1>3, <1>4 DEF Clients
<1> HIDE DEF z
<1>7. Listed(z)
  BY <1>1, <1>4, <1>5, <1>6 DEF Listed
<1>8. Unblamed(z)
  BY <1>1, <1>4, <1>6, KeyAssumption DEF Unblamed
<1>9. Sound(z)
  BY <1>6, <1>7, <1>8 DEF Sound, Timed
<1> QED BY <1>2, <1>6, <1>9

(* The list grows and shrinks beside a check. *)
LEMMA ListSafe ==
  ASSUME IInv, NEW k \in Keys, Discovered(k) \/ HandAdds(k) \/ HandRemoves(k)
  PROVE  IInv'
<1>1. Waiting(c) /\ Sound(c)
  BY DEF IInv, Waiting, Well
<1>2. UNCHANGED nodeTip /\ (Spend \/ UNCHANGED used)
  BY DEF Discovered, HandAdds, HandRemoves
<1>3. c' = Added(c, k) \/ c' = Triggered(AddedByHand(c, k)) \/ c' = RemovedByHand(c, k)
  BY DEF Discovered, HandAdds, HandRemoves
<1>4. Sound(c') /\ c'.ck = c.ck
  <2>1. CASE c' = Added(c, k)
    BY <1>1, <2>1, AddedSound
  <2>2. CASE c' = Triggered(AddedByHand(c, k))
    BY <1>1, <2>2, HandAddedSound, TriggeredSound
  <2>3. CASE c' = RemovedByHand(c, k)
    BY <1>1, <2>3, HandRemovedSound
  <2> QED BY <1>3, <2>1, <2>2, <2>3
<1>5. Waiting(c')
  BY <1>1, <1>4, SameCheck
<1> QED BY <1>2, <1>5, Beside DEF IInv, Waiting

-----------------------------------------------------------------------------
(* The theorems. *)

(* The client starts with its list, no chain and one timer. *)
LEMMA InitSafe ==
  ASSUME Init
  PROVE  IInv
<1> DEFINE st == [k \in Keys |-> IF Contains(StartList, k) THEN "new" ELSE "absent"]
           conn == [k \in Keys |-> "none"]
           kept == [b \in Blocks |-> "none"]
           shown == [tip |-> Root, on |-> {}, off |-> {}]
<1>1. st \in [Keys -> Statuses] /\ conn \in [Keys -> Conns] /\ kept \in [Blocks -> Verdicts]
      /\ shown \in Showns /\ StartList \in Seq(Keys)
  BY Heights, KeyAssumption DEF Statuses, Conns, Verdicts, Showns
<1>2. \A k \in Keys : st[k] = IF Contains(StartList, k) THEN "new" ELSE "absent"
  OBVIOUS
<1>3. c = [list |-> StartList, st |-> st, byHand |-> {}, conn |-> conn, noChain |-> {}, tip |-> Root,
           kept |-> kept, shown |-> shown, armed |-> 1, handle |-> TRUE, waiters |-> 0,
           whole |-> TRUE, ck |-> NoCheck]
  BY DEF Init
<1> HIDE DEF st, conn, kept, shown
<1>4. /\ c \in Clients /\ c.ck = NoCheck /\ c.list = StartList /\ c.st = st /\ c.tip = Root
      /\ c.armed = 1
  BY <1>1, <1>3, NoCheckIs, Heights DEF Clients
<1>5. Listed(c)
  BY <1>2, <1>4 DEF Listed
<1>6. Unblamed(c)
  BY <1>2, <1>4, KeyAssumption DEF Unblamed
<1>7. Sound(c)
  BY <1>4, <1>5, <1>6, Heights DEF Sound, Timed
<1>8. Answered(c)
  BY <1>4, NoCheckIs DEF Answered
<1>9. Posed(c)
  BY <1>4, NoCheckIs DEF Posed
<1>10. Surroundings
  BY TipAssumption, KeyAssumption, BoundAssumption DEF Init, Surroundings, Clean
<1> QED BY <1>7, <1>8, <1>9, <1>10 DEF IInv, Well

(* Every step keeps the invariant. *)
LEMMA NextSafe ==
  ASSUME IInv, [Next]_vars
  PROVE  IInv'
<1>1. CASE Dialled \/ TipRead \/ FillRead \/ UnderRead \/ ProofRead \/ LastRead
  BY <1>1, DialledSafe, TipReadSafe, FillReadSafe, UnderReadSafe, ProofReadSafe, LastReadSafe
<1>2. CASE TimerFires \/ Rearm \/ CheckAsked \/ RoutedReadFails
  BY <1>2, TimersSafe
<1>3. ASSUME NEW k \in Keys, Handshake(k) \/ LinkCloses(k) \/ WaitEnds(k) \/ Discovered(k)
      PROVE  IInv'
  BY <1>3, LinkSafe, WaitEndsSafe, ListSafe
<1>4. ASSUME NEW k \in Honest, NEW b \in HonestTips, Adopts(k, b)
      PROVE  IInv'
  BY <1>4, AdoptsSafe
<1>5. ASSUME NEW k \in Keys, NEW b \in Blocks, NEW forged \in BOOLEAN, Gossip(k, b, forged)
      PROVE  IInv'
  BY <1>5, GossipSafe
<1>6. ASSUME NEW k \in HandKeys, HandAdds(k) \/ HandRemoves(k)
      PROVE  IInv'
  BY <1>6, ListSafe, KeyAssumption
<1>7. CASE UNCHANGED vars
  BY <1>7 DEF vars, IInv, Surroundings
<1> QED BY <1>1, <1>2, <1>3, <1>4, <1>5, <1>6, <1>7 DEF Next

(* The invariant holds in every state of every behaviour. *)
THEOREM MeshInvariant == Spec => []IInv
<1>1. Init => IInv
  BY InitSafe
<1>2. IInv /\ [Next]_vars => IInv'
  BY NextSafe
<1> QED BY <1>1, <1>2, PTL DEF Spec

(* No honest node is ever blacklisted, whatever the others answer, prove and  *)
(* gossip, whoever leaves the list while a check runs and however the API     *)
(* hosts lie: HonestKept, with the types of the client's state.               *)
THEOREM HonestKeptAlways == Spec => []HonestKept
<1>1. IInv => HonestKept
  <2> SUFFICES ASSUME IInv PROVE HonestKept
    OBVIOUS
  <2>1. c \in Clients /\ c.ck \in Checks /\ Listed(c) /\ Unblamed(c) /\ c.ck.pc # "thrown"
    BY CheckParts DEF IInv, Well, Sound, Posed
  <2>2. /\ c.list \in Seq(Keys) /\ c.st \in [Keys -> Statuses] /\ c.byHand \subseteq Keys
        /\ c.conn \in [Keys -> Conns] /\ c.noChain \subseteq Keys /\ c.tip \in Nodes
        /\ c.kept \in [Blocks -> Verdicts] /\ c.shown \in Showns
        /\ c.armed \in Nat /\ c.handle \in BOOLEAN /\ c.waiters \in Nat /\ c.whole \in BOOLEAN
    BY <2>1 DEF Clients
  <2>3. c.shown.tip \in Nodes /\ c.shown.on \subseteq Keys /\ c.shown.off \subseteq Keys
    BY <2>2 DEF Showns
  <2>4. c.ck.pc \in {"off", "dial", "tips", "fill", "under", "proofs", "last"}
    BY <2>1, CheckParts DEF Pcs
  <2>5. TypeOK
    BY <2>1, <2>2, <2>3, <2>4 DEF TypeOK, Conns, Verdicts, Listed, IInv, Surroundings
  <2> QED BY <2>1, <2>5 DEF HonestKept, Unblamed
<1> QED BY <1>1, MeshInvariant, PTL

(* A timer is armed, or its callback waits, or a check runs: ChecksGoOn.  The *)
(* first two already hold of every state, whatever a check throws.            *)
THEOREM ChecksGoOnAlways == Spec => []ChecksGoOn
<1>1. IInv => ChecksGoOn
  BY DEF IInv, Well, Sound, Timed, ChecksGoOn
<1> QED BY <1>1, MeshInvariant, PTL

(* The chain the client holds has every header its work, by whichever way the *)
(* tip came: linked by a fill, won by a proof, or gossiped.                   *)
THEOREM TipCarriesWorkAlways == Spec => []TipCarriesWork
<1>1. IInv => TipCarriesWork
  BY DEF IInv, Well, Sound, Clean, TipCarriesWork
<1> QED BY <1>1, MeshInvariant, PTL

=============================================================================
