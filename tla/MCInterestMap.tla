---------------------------- MODULE MCInterestMap ----------------------------
(***************************************************************************)
(* Instances of InterestMap for TLC: subjects of up to four names, and     *)
(* interests with wildcards in every position the run allows.              *)
(***************************************************************************)
EXTENDS InterestMap

CONSTANTS v1, v2

MCPadded == [name \in {" a"} |-> "a"]

text(list) ==
  [i \in 1 .. 2 * Len(list) - 1 |-> IF i % 2 = 1 THEN list[(i + 1) \div 2] ELSE Slash]

\* Every subject of one to four of the names a and b, and some with slashes in a
\* row or at the end, or with the name * .
MCSubjects ==
  {text(list) : list \in UNION {[1 .. n -> {"a", "b"}] : n \in 1 .. 4}}
    \cup {<<>>, <<"a", "/", "/", "b">>, <<"a", "/">>, <<"*", "/", "a">>}

\* ** is followed by a name or by nothing.
PlainInterests ==
  {text(<<"a", "b">>), <<"/", "a", "/", "/", "b">>, text(<<"*", " a">>), text(<<"a", "**">>),
   text(<<"**", "a", "b">>), text(<<"**", "b", "**", "a">>), text(<<"a", "**", "b", "*">>)}
=============================================================================
