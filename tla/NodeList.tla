------------------------------ MODULE NodeList ------------------------------
(***************************************************************************)
(* The client's list of node keys: one entry per key, in the order added,  *)
(* moved by what an event is evidence of.  An entry's status is "absent"   *)
(* for a key not listed; "retry" waits, "due" is a retry whose time has    *)
(* come.  The waits grow with each failure; whether one has passed is left *)
(* open.  Addresses are left out: an entry can be dialled or it cannot.    *)
(***************************************************************************)
EXTENDS Sequences, SequencesExt, Lists

CONSTANTS
  Keys,
  Anchors,    \* the keys of the anchor list
  Api         \* anchors the list gives an API base

ASSUME AnchorAssumption == Api \subseteq Anchors /\ Anchors \subseteq Keys

Statuses ==
  {"absent", "new", "ok", "trailing", "behind", "retry", "due", "blacklisted"}

\* add, for a key discovery or a seed names: an entry held stays as it is.
Added(x, k) ==
  IF x.st[k] # "absent" THEN x
  ELSE [x EXCEPT !.st[k] = "new", !.list = Append(@, k)]

AddedByHand(x, k) ==
  IF x.st[k] = "blacklisted" THEN x
  ELSE [Added(x, k) EXCEPT !.byHand = @ \cup {k}]

\* Anchors of the build stay, and so does what discovery found by itself.
RemovedByHand(x, k) ==
  IF k \in Anchors \/ k \notin x.byHand THEN x
  ELSE [x EXCEPT !.st[k] = "absent", !.list = Among(@, Keys \ {k}), !.byHand = @ \ {k}]

\* success, trailing, behind, failure and lie: a lie is for good.
Moved(x, k, status) ==
  IF x.st[k] = "blacklisted" THEN x ELSE [x EXCEPT !.st[k] = status]

Having(x, status) == Among(x.list, {k \in Keys : x.st[k] = status})

\* candidates: an entry that waits is one all the same at its API base.
Candidates(x) ==
  Having(x, "ok") \o Having(x, "trailing") \o Having(x, "behind") \o Having(x, "new")
    \o Among(x.list, {k \in Keys : x.st[k] = "due" \/ (x.st[k] = "retry" /\ k \in Api)})

=============================================================================
