--------------------------- MODULE MCNodeRegistry ---------------------------
(* Constants for model-checking NodeRegistry and AdminApi: two canonical     *)
(* owners with one canonical action each, of which one belongs to the seam   *)
(* (the other stands for "resolve", the canonical action that does not), one *)
(* action nobody owns, and the name and tag aliases of action_ownership.py   *)
(* that matter to a collision.                                               *)
EXTENDS AdminApi

CONSTANTS match, converge, score, admission, ceg, eie, custom, tagCeg, tagGraphEngine, tagEie, tagCustom

MCNode == {1, 2}
MCAction == {match, converge, score, admission}
MCOwner == {ceg, eie, custom}
MCTag == {tagCeg, tagGraphEngine, tagEie, tagCustom}

MCRequiredOwner ==
  [a \in MCAction |-> CASE a = match -> ceg [] a = converge -> eie [] OTHER -> NoOwner]

MCTagOwner ==
  [t \in MCTag |-> CASE t \in {tagCeg, tagGraphEngine} -> ceg
                     [] t = tagEie -> eie
                     [] OTHER -> custom]

(* Node 1 is called like an alias ("graph"), node 2 like none ("score"). *)
MCNameOwner == [n \in MCNode |-> IF n = 1 THEN ceg ELSE NoOwner]

Entry(actions, tag, url) ==
  [actions |-> actions, tag |-> tag, url |-> url, max |-> 1, healthy |-> TRUE, active |-> 0]

(* No seed file, and one that declares the owner of what it claims. *)
EmptyFile == [n \in MCNode |-> Absent]

OwnedFile(u) ==
  [n \in MCNode |-> IF n = 1 THEN Entry({match}, tagCeg, u) ELSE Entry({converge}, tagEie, u)]

(* Batches of two entries, in both orders: of the right owner, of a wrong one,  *)
(* of none, and one the validators refuse.                                     *)
BatchEntries(u) ==
  {Entry({match}, tagCeg, u), Entry({match, score}, tagEie, u), Entry({score}, tagCustom, u),
   Entry({converge, score}, NoTag, u), Entry({score}, NoTag, u), Malformed}

MCBatch ==
  UNION {{<< <<n, r>>, <<3 - n, s>> >> : n \in MCNode, r \in BatchEntries(u), s \in BatchEntries(u)} : u \in Url}

MCYamlFile == {EmptyFile} \cup {OwnedFile(u) : u \in Url}
=============================================================================
