----------------------------- MODULE StringCore -----------------------------
(***************************************************************************)
(* StringCore (src/Core/String.h): immutable strings that share counted    *)
(* data.  The searches and the ways to make a text from another are in     *)
(* StringOps; here each result is stored as the code stores it.            *)
(*                                                                         *)
(* Move assignment takes the data of the other string and does not release *)
(* its own, which is lost; so is the old data of s in s += t and in        *)
(* s = t.SubString(...).  A string assigned to itself is cleared first and *)
(* becomes null.  A pointer that is assigned does not lead into the        *)
(* string's own data, which Clear may have freed.                          *)
(***************************************************************************)
EXTENDS Integers, FiniteSets, StringOps

CONSTANTS Strings, Blocks, Texts, NULL,
          MaxRefs \* bound on the references to one block

VARIABLES str,  \* str[s]: m_pData
          data  \* data[b]: m_iRef and m_sz of an allocated block

vars == <<str, data>>

Free == [ref |-> 0, text |-> <<>>]
FreeBlocks(d) == {b \in Blocks : d[b].ref = 0}
Value(s) == IF str[s] = NULL THEN <<>> ELSE data[str[s]].text

\* The data after s let go of its block.
Released(s) ==
  IF str[s] = NULL THEN data
  ELSE [data EXCEPT ![str[s]] = IF @.ref = 1 THEN Free ELSE [ref |-> @.ref - 1, text |-> @.text]]

\* AllocStringData for s, with d the data before; null for a null pointer.
Stored(s, text, d) ==
  \E b \in FreeBlocks(d) :
    /\ data' = [d EXCEPT ![b] = [ref |-> 1, text |-> text]]
    /\ str' = [str EXCEPT ![s] = b]

\* Constructors from characters.
Construct(s, text) == str[s] = NULL /\ Stored(s, text, data)

\* Assign of characters: Clear, then new data.
AssignText(s, text) == Stored(s, text, Released(s))

\* Clear, the destructor, and Assign of a null pointer.
Clear(s) == str[s] # NULL /\ str' = [str EXCEPT ![s] = NULL] /\ data' = Released(s)

\* The mutant adds no reference when it clears nothing.
Assign_Uncounted(s, t) ==
  /\ s # t
  /\ str' = [str EXCEPT ![s] = str[t]]
  /\ data' = IF str[t] = NULL \/ str[s] = NULL THEN Released(s) ELSE [Released(s) EXCEPT ![str[t]].ref = @ + 1]

\* The copy constructor (s is null then) and the copy assignment.
Assign(s, t) ==
  IF s = t THEN Clear(s)
  ELSE /\ str[t] # NULL => data[str[t]].ref < MaxRefs
       /\ str' = [str EXCEPT ![s] = str[t]]
       /\ data' = IF str[t] = NULL THEN Released(s) ELSE [Released(s) EXCEPT ![str[t]].ref = @ + 1]

\* The move constructor (s is null then) and the move assignment.
Move(s, t) ==
  /\ str' = [str EXCEPT ![s] = str[t], ![t] = NULL]
  /\ UNCHANGED data

\* s = f(t): the text goes to a temporary string that is moved to s.  ToUpper and
\* the like of a null string are null, a Trim with nothing to remove shares.
Make(s, text) == Stored(s, text, data)
MakeTrimmed(s, t) ==
  IF str[t] = NULL \/ Trim(Value(t)) = Value(t)
  THEN /\ str[t] # NULL => data[str[t]].ref < MaxRefs
       /\ str' = [str EXCEPT ![s] = str[t]]
       /\ data' = IF str[t] = NULL THEN data ELSE [data EXCEPT ![str[t]].ref = @ + 1]
  ELSE Make(s, Trim(Value(t)))
SubStringOf(s, t) ==
  /\ str[t] # NULL
  /\ \E start \in 0 .. Len(Value(t)) : Make(s, SubString(Value(t), start, Len(Value(t)) - start))
Concatenated(s, t) ==
  Len(Value(s)) + Len(Value(t)) <= 2 /\ Make(s, Value(s) \o Value(t))

Init == str = [s \in Strings |-> NULL] /\ data = [b \in Blocks |-> Free]

Next ==
  \/ \E s \in Strings : Clear(s) \/ \E text \in Texts : Construct(s, text) \/ AssignText(s, text)
  \/ \E s, t \in Strings : Assign(s, t) \/ Move(s, t) \/ MakeTrimmed(s, t) \/ SubStringOf(s, t) \/ Concatenated(s, t)

Spec == Init /\ [][Next]_vars
----------------------------------------------------------------------------
TypeOK ==
  /\ str \in [Strings -> Blocks \cup {NULL}]
  /\ \A b \in Blocks : data[b].ref \in 0 .. MaxRefs /\ data[b].text \in Seq(Chars)

\* No string leads to freed data: a block has no fewer references than strings,
\* the ones that were lost included.
DataHeld ==
  \A b \in Blocks : data[b].ref >= Cardinality({s \in Strings : str[s] = b})
=============================================================================
