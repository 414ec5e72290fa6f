------------------------------ MODULE ByteFile ------------------------------
(***************************************************************************)
(* What the streams of Stream/Stream.h that are in memory promise: each is *)
(* a sequence of bytes and a position in it.  What a write past the end    *)
(* leaves in between is unspecified.  A stream is lost, with its contents, *)
(* only by a read past the end, by a write that ends inside the contents   *)
(* but beyond the block the stream was opened with, and by any write when  *)
(* it was opened with none.                                                *)
(***************************************************************************)
EXTENDS Integers, Sequences

CONSTANTS Streams, FirstSize, \* the block of a stream that is created
          Texts \* what is written to each stream, or is in it when it is opened

VARIABLES
  owner,  \* whether each stream is closed, owns its memory, was lent it, or is lost
  bytes,  \* its contents
  pos,    \* its position
  first   \* the size of the block it was opened with

vars == <<owner, bytes, pos, first>>

IsOpen(s) == owner[s] \in {"lent", "owned"}

\* b is s with t written at p
IsOver(b, s, p, t) ==
  /\ Len(b) = (IF p + Len(t) > Len(s) THEN p + Len(t) ELSE Len(s))
  /\ \A i \in 1 .. Len(b) :
       IF i \in p + 1 .. p + Len(t) THEN b[i] = t[i - p] ELSE i <= Len(s) => b[i] = s[i]

Others(S) == \A s \in Streams \ S : bytes'[s] = bytes[s] /\ pos'[s] = pos[s]
MoveTo(s, p) == pos'[s] = p /\ Others({s}) /\ UNCHANGED <<owner, first>>

Becomes(s, how, size) == owner' = [owner EXCEPT ![s] = how] /\ first' = [first EXCEPT ![s] = size]
Empties(s) == bytes' = [bytes EXCEPT ![s] = <<>>] /\ pos' = [pos EXCEPT ![s] = 0]
Lose(s) == Becomes(s, "lost", 0) /\ Empties(s)

\* n bytes end inside the contents, beyond the block the stream was opened with
Cuts(s, n) == pos[s] + n > first[s] /\ (first[s] = 0 \/ pos[s] + n < Len(bytes[s]))

Open(s, b, how, size) ==
  /\ owner[s] = "closed" /\ Becomes(s, how, size)
  /\ bytes' = [bytes EXCEPT ![s] = b] /\ UNCHANGED pos
Close(s) == Becomes(s, "closed", 0) /\ Empties(s)
Left(s, n) == IF pos[s] + n > Len(bytes[s]) THEN Len(bytes[s]) - pos[s] ELSE n
Read(s, n) ==
  IF pos[s] > Len(bytes[s]) THEN Lose(s) ELSE MoveTo(s, pos[s] + Left(s, n)) /\ UNCHANGED bytes
Write(s, t) ==
  /\ owner[s] = "owned"
  /\ \/ IsOver(bytes'[s], bytes[s], pos[s], t) /\ MoveTo(s, pos[s] + Len(t))
     \/ Cuts(s, Len(t)) /\ Lose(s)
Seek(s, p) == MoveTo(s, p) /\ UNCHANGED bytes
Truncate(s) ==
  /\ owner[s] = "owned"
  /\ \/ /\ Len(bytes'[s]) = pos[s]
        /\ \A i \in 1 .. pos[s] : i <= Len(bytes[s]) => bytes'[s][i] = bytes[s][i]
        /\ MoveTo(s, pos[s])
     \/ first[s] = 0 /\ pos[s] > 0 /\ Lose(s)

\* n bytes from one stream to another: those that are left, and behind them what
\* nobody wrote; a stream that was lent its memory takes nothing
Copy(d, s, n) ==
  LET k == Left(s, n)
      t == SubSeq(bytes'[d], pos[d] + 1, pos[d] + n)
  IN  /\ pos[s] <= Len(bytes[s]) /\ bytes'[s] = bytes[s] /\ pos'[s] = pos[s] + k /\ Others({d, s})
      /\ \/ /\ owner[d] = "owned" /\ UNCHANGED <<owner, first>>
            /\ pos'[d] = pos[d] + n /\ pos'[d] <= Len(bytes'[d])
            /\ IsOver(bytes'[d], bytes[d], pos[d], t)
            /\ SubSeq(t, 1, k) = SubSeq(bytes[s], pos[s] + 1, pos[s] + k)
         \/ owner[d] = "owned" /\ Cuts(d, n) /\ Becomes(d, "lost", 0) /\ bytes'[d] = <<>> /\ pos'[d] = 0
         \/ owner[d] = "lent" /\ UNCHANGED <<owner, first>> /\ bytes'[d] = bytes[d] /\ pos'[d] = pos[d]
MoveFrom(d, s) ==
  /\ owner' = [owner EXCEPT ![d] = "owned", ![s] = "closed"]
  /\ first' = [first EXCEPT ![d] = Len(bytes[s]), ![s] = 0]
  /\ bytes' = [bytes EXCEPT ![d] = bytes[s], ![s] = <<>>] /\ pos' = [pos EXCEPT ![d] = 0, ![s] = 0]

\* a stream as a value in another one: its length, and its bytes
Serialize(d, s) ==
  Write(d, <<Len(bytes[s])>> \o bytes[s]) \/ (owner[d] = "owned" /\ Cuts(d, 1) /\ Lose(d))
Deserialize(d, s) ==
  LET n == bytes[s][pos[s] + 1]
  IN  /\ pos[s] < Len(bytes[s]) /\ n \in 0 .. Len(bytes[s]) - pos[s] - 1
      /\ owner[d] = "closed" /\ Becomes(d, "owned", n)
      /\ bytes' = [bytes EXCEPT ![d] = SubSeq(bytes[s], pos[s] + 2, pos[s] + 1 + n)]
      /\ pos' = [pos EXCEPT ![s] = @ + 1 + n, ![d] = 0]

Init ==
  /\ DOMAIN owner = Streams /\ \A s \in Streams : owner[s] # "lost"
  /\ DOMAIN bytes = Streams /\ pos = [s \in Streams |-> 0] /\ DOMAIN first = Streams
Next ==
  \E s \in Streams :
    \/ \E size \in {0, FirstSize} : Open(s, <<>>, "owned", size)
    \/ \E b \in Texts[s], how \in {"lent", "owned"} : Open(s, b, how, Len(b))
    \/ IsOpen(s) /\ Close(s)
    \/ \E n \in 1 .. Len(bytes[s]) + 1 : IsOpen(s) /\ Read(s, n)
    \/ IsOpen(s) /\ Seek(s, pos'[s])
    \/ \E t \in Texts[s] : Write(s, t)
    \/ Truncate(s)
    \/ \E d \in Streams \ {s} :
         \/ IsOpen(s) /\ owner[d] # "lost" /\ MoveFrom(d, s)
         \/ IsOpen(s) /\ (Deserialize(d, s) \/ Serialize(d, s))
         \/ \E n \in 1 .. Len(bytes[s]) + 1 - pos[s] : IsOpen(s) /\ Copy(d, s, n)
Spec == Init /\ [][Next]_vars
=============================================================================
