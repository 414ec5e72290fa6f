---------------------------- MODULE AtomicStruct ----------------------------
(***************************************************************************)
(* Threading/AtomicStruct.h: a structure of several words behind a         *)
(* sequence counter, odd while the one writer copies into it.  Set and Get *)
(* copy word by word, in whatever order the compiler chose; a Get that     *)
(* finds the counter odd or changed starts again.                          *)
(***************************************************************************)
EXTENDS Integers, FiniteSets

CONSTANTS
  Words,     \* the words of T
  Structs,   \* the values of T: what each of its words holds
  SeqWord,   \* stands for 2^32, the range of the counter
  MaxRaces   \* bound: Sets that begin in one Get; with the one that may be running
             \* already they are fewer than SeqWord / 2

VARIABLES
  sequence, value,
  setter,    \* the Set: where it is, "in" and the words that are not copied yet
  getter,    \* the Get: where it is, seq1, "out" and the words that are not copied yet
  whole,     \* history: what value was when no Set was copying
  current,   \* history: the values that were whole since the Get began
  races      \* the Sets that began since then

vars == <<sequence, value, setter, getter, whole, current, races>>

Add1(n) == (n + 1) % SeqWord
SetIdle == [at |-> "idle", in |-> CHOOSE v \in Structs : TRUE, todo |-> {}]
GetIdle == [at |-> "idle", seq1 |-> 0, out |-> CHOOSE v \in Structs : TRUE, todo |-> {}]

----------------------------------------------------------------------------
CallSet(v) ==
  /\ setter.at = "idle" /\ races < MaxRaces
  /\ races' = IF getter.at = "idle" THEN 0 ELSE races + 1
  /\ setter' = [at |-> "odd", in |-> v, todo |-> Words]
  /\ UNCHANGED <<sequence, value, getter, whole, current>>

\* the first sequence.Add(1)
MakeOdd ==
  /\ setter.at = "odd"
  /\ sequence' = Add1(sequence)
  /\ setter' = [setter EXCEPT !.at = "copy"]
  /\ UNCHANGED <<value, getter, whole, current, races>>

\* value = in, one word of it
CopyIn(w) ==
  /\ setter.at = "copy" /\ w \in setter.todo
  /\ value' = [value EXCEPT ![w] = setter.in[w]]
  /\ setter' = [setter EXCEPT !.todo = @ \ {w}]
  /\ UNCHANGED <<sequence, getter, whole, current, races>>

\* the second sequence.Add(1)
MakeEven ==
  /\ setter.at = "copy" /\ setter.todo = {}
  /\ sequence' = Add1(sequence)
  /\ setter' = SetIdle
  /\ whole' = value
  /\ current' = IF getter.at = "idle" THEN {} ELSE current \cup {value}
  /\ UNCHANGED <<value, getter, races>>

----------------------------------------------------------------------------
\* what a Set is replacing counts as the value until the Set ends
CallGet ==
  /\ getter.at = "idle"
  /\ getter' = [getter EXCEPT !.at = "seq1"]
  /\ current' = {whole} /\ races' = 0
  /\ UNCHANGED <<sequence, value, setter, whole>>

\* seq1 = sequence.Get(), again as long as it is odd
LoadSeq1 ==
  /\ getter.at = "seq1" /\ sequence % 2 = 0
  /\ getter' = [getter EXCEPT !.at = "copy", !.seq1 = sequence, !.todo = Words]
  /\ UNCHANGED <<sequence, value, setter, whole, current, races>>

\* out = value, one word of it
CopyOut(w) ==
  /\ getter.at = "copy" /\ w \in getter.todo
  /\ getter' = [getter EXCEPT !.out[w] = value[w], !.todo = @ \ {w}]
  /\ UNCHANGED <<sequence, value, setter, whole, current, races>>

\* mutant: only an odd counter is taken for a race
LoadSeq2_Even ==
  /\ getter.at = "copy" /\ getter.todo = {}
  /\ getter' = [getter EXCEPT !.at = IF sequence % 2 = 0 THEN "done" ELSE "seq1"]
  /\ UNCHANGED <<sequence, value, setter, whole, current, races>>

\* seq2 = sequence.Get()
LoadSeq2 ==
  /\ getter.at = "copy" /\ getter.todo = {}
  /\ getter' = [getter EXCEPT !.at = IF sequence = getter.seq1 THEN "done" ELSE "seq1"]
  /\ UNCHANGED <<sequence, value, setter, whole, current, races>>

Return ==
  /\ getter.at = "done"
  /\ getter' = GetIdle
  /\ races' = 0 /\ current' = {}
  /\ UNCHANGED <<sequence, value, setter, whole>>

----------------------------------------------------------------------------
Init ==
  /\ sequence = 0 /\ value = CHOOSE v \in Structs : TRUE
  /\ setter = SetIdle /\ getter = GetIdle
  /\ whole = value /\ current = {} /\ races = 0

SetStep == MakeOdd \/ (\E w \in Words : CopyIn(w)) \/ MakeEven
GetStep == LoadSeq1 \/ (\E w \in Words : CopyOut(w)) \/ LoadSeq2 \/ Return

Next == (\E v \in Structs : CallSet(v)) \/ SetStep \/ CallGet \/ GetStep

\* both threads run on
Fairness == WF_vars(SetStep) /\ WF_vars(GetStep)
----------------------------------------------------------------------------
\* Every value is in its range.
TypeOK ==
  /\ sequence \in 0 .. SeqWord - 1 /\ races \in 0 .. MaxRaces
  /\ setter.at \in {"idle", "odd", "copy"} /\ getter.at \in {"idle", "seq1", "copy", "done"}
  /\ setter.todo \subseteq Words /\ getter.todo \subseteq Words
  /\ current \subseteq Structs

\* What Get returns is a value the structure had as a whole at some moment
\* during the call, never parts of two.
GetWhole == getter.at = "done" => getter.out \in current

\* A Get that races no more than a bounded number of Sets returns.
GetReturns == getter.at # "idle" ~> getter.at = "idle"
=============================================================================
