----------------------------- MODULE Containers -----------------------------
(***************************************************************************)
(* The sequential components, each in behaviours of its own: "which" picks *)
(* the one that runs, the others keep their initial state.                 *)
(***************************************************************************)
EXTENDS Integers, Sequences, FiniteSets

CONSTANTS
  NONE, HOLE, JUNK, NULL, NUL,
  Maps, Keys, Vals, HashOf, HashRange,                \* HashMap
  MapsFilled, Edited, Hows, MaxEdits,
  Lists, Items, MinCapacity, ListsFilled, MaxLen,     \* ArrayList
  Streams, Bytes, StreamTexts, Seeks, FirstSize,      \* MemoryStream
  StreamsFilled, MaxLength, MaxCalls,
  Blocks,                                             \* of three of the next
  Header, DefaultSize, Lengths, MaxStrings,           \* StringPool
  Roots, Objects, MaxPointers,                        \* SmartPointers
  Delegates, States, Called(_),                       \* Delegate
  BuilderTexts, Short, CharSizes, MaxBuilt,           \* StringBuilder
  Strings, StringTexts, MaxShares                     \* StringCore

\* Places are different from one another and from no place.
ASSUME DelegateAssumption ==
  /\ NULL \notin States \cup Blocks \cup Delegates /\ Delegates \cap Blocks = {}
  /\ \A s \in States : Called(s) \in States

\* Hash codes are unsigned, an object is no missing object and no iterator begins ended.
ASSUME HashAssumption ==
  /\ NONE \notin Maps /\ Edited \subseteq Maps /\ MaxEdits \in Nat /\ Vals # {}
  /\ HashOf \in [Keys -> Nat] /\ HashRange \in Nat \ {0}
  /\ \A o \in Maps : MapsFilled[o] \in Seq(Keys)
  /\ \A type \in {"map", "set"} : "ended" \notin Hows[type]

\* Lists begin within their bounds; an object that is owned is in one place of one.
ASSUME ListAssumption ==
  /\ Items \subseteq Int /\ HOLE \notin Items /\ MinCapacity \in Nat
  /\ \A l \in Lists :
       /\ MaxLen[l] \in Nat
       /\ ListsFilled[l] \in Seq(Items) /\ Len(ListsFilled[l]) <= MaxLen[l]
  /\ \A l, m \in Lists : \A i \in DOMAIN ListsFilled[l], j \in DOMAIN ListsFilled[m] :
       ListsFilled[l][i] = ListsFilled[m][j] => l = m /\ i = j

\* Streams begin and are opened within their bounds.
ASSUME StreamAssumption ==
  /\ FirstSize \in Nat /\ MaxCalls \in Nat
  /\ \A s \in Streams :
       /\ MaxLength[s] \in Nat /\ Seeks[s] \subseteq 0 .. MaxLength[s] + 1
       /\ StreamTexts[s] \subseteq Seq(Bytes)
       /\ StreamsFilled[s] \in Seq(Bytes) /\ Len(StreamsFilled[s]) <= MaxLength[s]

\* A program has finitely many pointers, and a pointer is no object.
ASSUME PointerAssumption ==
  /\ IsFiniteSet(Roots) /\ IsFiniteSet(Objects) /\ Roots \cap Objects = {}
  /\ NULL \notin Roots \cup Objects /\ MaxPointers \in Nat \ {0}

\* A string has a character at least, and a bucket is longer than its header.
ASSUME PoolAssumption ==
  /\ Header \in Nat /\ DefaultSize \in Nat /\ Header < DefaultSize
  /\ Lengths \subseteq Nat \ {0}

\* The variables of a program are finitely many; a text has no terminator in it and
\* no byte that nobody wrote.
ASSUME TextAssumption ==
  /\ IsFiniteSet(Strings) /\ MaxShares \in Nat \ {0} /\ StringTexts \subseteq Seq({1, 2})
  /\ Short \in Nat \ {0} /\ CharSizes \subseteq Nat \ {0} /\ MaxBuilt \in Nat \ {0} /\ NUL # JUNK
  /\ \A t \in BuilderTexts : t \in Seq({t[i] : i \in 1 .. Len(t)} \ {NUL, JUNK})

VARIABLES which,
  kind, core, iter, edits,               \* hash
  list, held, gone, owned,               \* list
  mem, owner, calls,                     \* stream
  chain, bucket, strings,                \* pool
  pointers, ptr, refs, raw, broken,      \* pointers
  delegates, set, storage, object,       \* delegates
  chars, length, heap, built,            \* builder
  str, data                              \* strings

hashVars == <<kind, core, iter, edits>>
listVars == <<owned, list, held, gone>>
streamVars == <<mem, owner, calls>>
poolVars == <<chain, bucket, strings>>
pointerVars == <<pointers, ptr, refs, raw, broken>>
delegateVars == <<delegates, set, storage, object>>
builderVars == <<chars, length, heap, built>>
stringVars == <<str, data>>
containerVars == <<hashVars, listVars, streamVars>>
ownerVars == <<poolVars, pointerVars, delegateVars, builderVars, stringVars>>
vars == <<which, containerVars, ownerVars>>

H == INSTANCE HashMap WITH Objects <- Maps, Prefilled <- MapsFilled
L == INSTANCE ArrayList WITH Prefilled <- ListsFilled
S == INSTANCE MemoryStream WITH Texts <- StreamTexts, Prefilled <- StreamsFilled
B == INSTANCE StringPool
P == INSTANCE SmartPointers WITH kind <- pointers, MaxRefs <- MaxPointers
D == INSTANCE Delegate WITH kind <- delegates
W == INSTANCE StringBuilder WITH mem <- chars, Texts <- BuilderTexts, MaxLength <- MaxBuilt
C == INSTANCE StringCore WITH
  Chars <- {1, 2}, Spaces <- {2}, Texts <- StringTexts, MaxRefs <- MaxShares

Components == {"hash", "list", "stream", "pool", "pointers", "delegates", "builder", "strings"}

\* What is not chosen for a component that does not run is as simple as can be.
Idle ==
  /\ H!Init /\ L!Init /\ S!Init /\ B!Init /\ P!Init /\ D!Init /\ W!Init /\ C!Init
  /\ which # "hash" => kind = "map"
  /\ which # "list" => owned
  /\ which # "pointers" => pointers = "shared"
  /\ which # "delegates" => delegates = "heap"
Init == which \in Components /\ Idle

Next ==
  /\ UNCHANGED which
  /\ \/ which = "hash" /\ H!Next /\ UNCHANGED <<listVars, streamVars, ownerVars>>
     \/ which = "list" /\ L!Next /\ UNCHANGED <<hashVars, streamVars, ownerVars>>
     \/ which = "stream" /\ S!Next /\ UNCHANGED <<hashVars, listVars, ownerVars>>
     \/ which = "pool" /\ B!Next
          /\ UNCHANGED <<containerVars, pointerVars, delegateVars, builderVars, stringVars>>
     \/ which = "pointers" /\ P!Next
          /\ UNCHANGED <<containerVars, poolVars, delegateVars, builderVars, stringVars>>
     \/ which = "delegates" /\ D!Next
          /\ UNCHANGED <<containerVars, poolVars, pointerVars, builderVars, stringVars>>
     \/ which = "builder" /\ W!Next
          /\ UNCHANGED <<containerVars, poolVars, pointerVars, delegateVars, stringVars>>
     \/ which = "strings" /\ C!Next
          /\ UNCHANGED <<containerVars, poolVars, pointerVars, delegateVars, builderVars>>

Spec == Init /\ [][Next]_vars

----------------------------------------------------------------------------
\* The data structures are sound: the chains and the free list of a hash
\* container, the capacity and the ownership of the elements of a list, the
\* block of a stream that is not lost.
StructuresSound ==
  /\ which = "hash" => H!TypeOK /\ H!Sound
  /\ which = "list" => L!TypeOK /\ L!Sound
  /\ which = "stream" => S!TypeOK /\ S!Sound

\* A complete iteration met every key once; a binary search finds what is there
\* and where it would have to be inserted.
LookupsExact ==
  /\ which = "hash" => H!IterationExact
  /\ which = "list" => L!SearchExact

\* Nothing is freed while it is used or freed twice: the strings of a pool, the
\* callables of delegates, the data that strings share; the objects of smart
\* pointers, unless an assignment overwrites the last way to its own right-hand
\* side; the characters of a builder, unless it detaches a heap block or wide ones.
MemoryOwned ==
  /\ which = "pool" => B!TypeOK /\ B!StringsKept
  /\ which = "pointers" => P!TypeOK /\ P!NoneDangling
  /\ which = "delegates" => D!TypeOK /\ D!OneOwnerEach
  /\ which = "builder" => W!TypeOK /\ W!CharactersKept
  /\ which = "strings" => C!TypeOK /\ C!DataHeld

\* Map and Set implement a partial function for each object.
ImplementsDict ==
  H!Dict!Init /\ [][which = "hash" => H!Dict!Next \/ UNCHANGED H!Dict!vars]_vars

\* Lists implement sequences.
ImplementsSeq ==
  L!Seqs!Init /\ [][which = "list" => L!Seqs!Next \/ UNCHANGED L!Seqs!vars]_vars

\* Memory streams implement files, delegates cells that hold callables by value.
ImplementsValues ==
  /\ S!File!Init /\ D!Cells!Init
  /\ [][/\ which = "stream" => S!File!Next \/ UNCHANGED S!File!vars
        /\ which = "delegates" => D!Cells!Next \/ UNCHANGED D!Values]_vars
=============================================================================
