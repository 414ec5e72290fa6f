---------------------------- MODULE MCContainers ----------------------------
(***************************************************************************)
(* Instances of Containers for TLC, and the pure functions on strings,     *)
(* paths and code points: "input" is what they are checked on, every one   *)
(* of a bounded set.                                                       *)
(***************************************************************************)
EXTENDS Containers, TLC

VARIABLE input

allVars == <<vars, input>>

O == INSTANCE StringOps WITH Chars <- {1, 2, 3}, Spaces <- {2}
N == INSTANCE PathCore WITH Letters <- {"a", "b"}
E == INSTANCE Encoding

\* What TLC takes for the constants that are functions: keys that are their own
\* hash, three of which share a bucket; a map of three keys to edit, one of two and
\* an empty one; a list of two and one of one; a stream that is written to and one
\* that was opened on three bytes; calls that change what a callable captured.
Identity == [k \in Keys |-> k]
ThreeMaps == [a |-> <<1, 4, 12>>, b |-> <<2, 4>>, c |-> <<>>]
SomeHows == [map |-> {"forward", "enumerate"}, set |-> {"reverse"}]
TwoLists == [l |-> <<2, 1>>, m |-> <<3>>]
UpToThree == [l |-> 3, m |-> 1]
FirstTexts == [s |-> {<<1>>, <<1, 2>>}, t |-> {}]
SomeSeeks == [s |-> {0, 3}, t |-> {0}]
TwoStreams == [s |-> <<>>, t |-> <<2, 1, 2>>]
UpToFive == [s |-> 5, t |-> 3]
ShortTexts == {<<>>, <<1>>, <<2, 1>>}
Flip(s) == 3 - s

\* What the functions are checked on: a text, something to find in it and something
\* to put in its place; a path; two of them; a name and a pattern; code points.
Upto(n, X) == UNION {[1 .. k -> X] : k \in 0 .. n}
PathChars == {"/", ".", "a"}
Prefixes(win) == IF win THEN {<<>>, <<"a", ":">>, <<"/", "/", "a", "/", "b">>, <<"\\">>} ELSE {<<>>}
Prefixed(win, X) == {p \o x : p \in Prefixes(win), x \in X}
OtherPrefixes(win) == IF win THEN {<<"b", ":">>, <<"/", "/", "b", "/", "a">>} ELSE {}
Others(win, X) == {p \o x : p \in OtherPrefixes(win), x \in X}
CodePoints == {1, 127, 128, 2047, 2048, 4095, 4096, 55295, 57344, 65535, 65536, 66560, 1048575, 1048576, 1114111}

Inputs ==
  \/ \E text \in Upto(4, {1, 2, 3}), find \in Upto(2, {1, 2}), replace \in {<<>>, <<1>>, <<2, 1>>} :
       input' = <<"text", text, find, replace>>
  \/ \E win \in BOOLEAN : \E path \in Prefixed(win, Upto(5, PathChars)) \cup {a \o b : a \in Upto(2, PathChars), b \in Others(win, Upto(2, PathChars))} :
       input' = <<"path", win, path>>
  \/ \E win \in BOOLEAN : \E base \in Prefixed(win, Upto(3, PathChars)), path \in Upto(3, PathChars) \cup Others(win, Upto(2, PathChars)) :
       input' = <<"combine", win, base, path>>
  \/ \E name \in Upto(3, {"a", "b"}), pattern \in Upto(4, {"a", "?", "*"}) :
       input' = <<"match", name, pattern>>
  \/ \E text \in Upto(2, CodePoints) : input' = <<"encode", text>>

MCInit == which \in Components \cup {"inputs"} /\ Idle /\ input = <<>>
MCNext ==
  \/ Next /\ UNCHANGED input
  \/ which = "inputs" /\ input = <<>> /\ Inputs /\ UNCHANGED vars

MCSpec == MCInit /\ [][MCNext]_allVars

----------------------------------------------------------------------------
=============================================================================
