----------------------------- MODULE InterestMap -----------------------------
(***************************************************************************)
(* The index from subjects to the endpoints interested in them             *)
(* (server/src/protocol/interest.rs, model/src/interest.rs).               *)
(*                                                                         *)
(* A text, of an interest or of a subject, is the sequence of its tokens:  *)
(* "/" or the bytes between two slashes.  The radix tree is the set of the *)
(* <<path, value>> pairs in it: a node is the path that leads to it, and a *)
(* node without values finds nothing, whether it is there or not.          *)
(***************************************************************************)
EXTENDS Sequences, Integers

CONSTANTS
  Value,      \* what the map finds: endpoint addresses
  Interests,  \* texts of interests
  Subjects,   \* texts of subjects
  Padded      \* names with white space around them, and the names without it

Texts == Interests \cup Subjects

\* Between two names of a text there is a slash.
ASSUME TextAssumption ==
  \A text \in Texts : \A i \in 1 .. Len(text) - 1 : "/" \in {text[i], text[i + 1]}

Slash == "/"

Specific(name) == <<"Specific", name>>
Any == <<"Any">>
RecursiveAny == <<"RecursiveAny">>

trim_ascii(name) == IF name \in DOMAIN Padded THEN Padded[name] ELSE name

names(text) == SelectSeq(text, LAMBDA token : token # Slash)

segment(name) ==
  CASE name = "*"             -> Any
    [] name = "**"            -> RecursiveAny
    [] name \notin {"*", "**"} -> Specific(name)

\* Interest::as_segments
as_segments(interest) ==
  [i \in 1 .. Len(names(interest)) |-> segment(trim_ascii(names(interest)[i]))]

\* Subject::segments: slashes in a row count as one, but what stands before the
\* first one is a segment, also when it is empty.
segments(subject) ==
  (IF subject # <<>> /\ Head(subject) = Slash THEN <<"">> ELSE <<>>) \o names(subject)

-----------------------------------------------------------------------------

VARIABLES
  root,  \* the radix tree
  raw    \* raw[v]: the interests of v

vars == <<root, raw>>

Init == root = {} /\ raw = [v \in Value |-> {}]

value(node) == {v \in Value : <<node, v>> \in root}

drop(path, n) == SubSeq(path, n + 1, Len(path))

\* Mutant: a segment that ** has swallowed cannot start what follows.
RECURSIVE find_all_greedy(_, _)
find_all_greedy(node, path) ==
  IF path = <<>> THEN value(node)
  ELSE LET rac == Append(node, RecursiveAny)
       IN  value(rac)
             \cup UNION {find_all_greedy(Append(rac, Specific(path[i])), drop(path, i)) :
                           i \in {Len(path)} \ {1}}
             \cup find_all_greedy(Append(node, Any), Tail(path))
             \cup find_all_greedy(Append(node, Specific(Head(path))), Tail(path))

RECURSIVE find_all_recursive(_, _)
find_all_recursive(node, path) ==
  IF path = <<>> THEN value(node)
  ELSE LET rac == Append(node, RecursiveAny)
       IN  value(rac)
             \cup UNION {find_all_recursive(Append(rac, Specific(path[i])), drop(path, i)) :
                           i \in 2 .. Len(path)}
             \cup find_all_recursive(Append(node, Any), Tail(path))
             \cup find_all_recursive(Append(node, Specific(Head(path))), Tail(path))

find(subject) == find_all_recursive(<<>>, segments(subject))

paths(v, interests) == {<<as_segments(interest), v>> : interest \in interests}

insert(interest, v) ==
  /\ root' = root \cup paths(v, {interest})
  /\ raw' = [raw EXCEPT ![v] = @ \cup {interest}]

\* Mutant: only one interest of the value is taken out of the tree.
delete_one(v) ==
  /\ root' = root \ paths(v, IF raw[v] = {} THEN {} ELSE {CHOOSE i \in raw[v] : TRUE})
  /\ raw' = [raw EXCEPT ![v] = {}]

delete(v) ==
  /\ root' = root \ paths(v, raw[v])
  /\ raw' = [raw EXCEPT ![v] = {}]

\* from_raw, as deserialize calls it when a snapshot is installed.
from_raw ==
  /\ root' = UNION {paths(v, raw[v]) : v \in Value}
  /\ UNCHANGED raw

Next ==
  \/ \E v \in Value, interest \in Interests : insert(interest, v)
  \/ \E v \in Value : delete(v)
  \/ from_raw

Spec == Init /\ [][Next]_vars

-----------------------------------------------------------------------------

\* Reference: the glob pattern matches the segments; * stands for one segment, **
\* for one or more.
RECURSIVE Matches(_, _)
Matches(pattern, path) ==
  IF pattern = <<>> \/ path = <<>> THEN pattern = path
  ELSE CASE Head(pattern) = RecursiveAny ->
              \E n \in 1 .. Len(path) : Matches(Tail(pattern), drop(path, n))
         [] Head(pattern) = Any -> Matches(Tail(pattern), Tail(path))
         [] Head(pattern) \notin {Any, RecursiveAny} ->
              Head(pattern) = Specific(Head(path)) /\ Matches(Tail(pattern), Tail(path))

\* Whatever was inserted and deleted before, find gives exactly the values with an
\* interest that matches the subject (insert_recursive, delete_recursive and
\* find_all_recursive against the glob reference).
FindsMatching ==
  \A subject \in Subjects :
    find(subject) = {v \in Value : \E interest \in raw[v] :
                       Matches(as_segments(interest), segments(subject))}

\* The tree is the one that from_raw builds from what serialize writes: a snapshot
\* loses no interest and brings none back that was deleted.
RootFromRaw == root = UNION {paths(v, raw[v]) : v \in Value}
=============================================================================
