------------------------------ MODULE PathCore ------------------------------
(***************************************************************************)
(* PathCore (src/Path/Path.h): paths as texts, with the rules of Posix or  *)
(* of Windows.  Characters are strings of one letter; "\\" stands for the  *)
(* other separator of Windows.                                             *)
(*                                                                         *)
(* Where is the reference: the directory a path leads to, for a reader     *)
(* that walks its segments one by one.                                     *)
(***************************************************************************)
EXTENDS Integers, Sequences, SequencesExt, FiniteSetsExt, Functions

CONSTANTS Letters  \* characters of names, not separators, dots or colons

Str == INSTANCE StringOps WITH Chars <- Letters \cup {"/", "\\", ".", ":"}, Spaces <- {}

Seps(win) == IF win THEN {"\\", "/"} ELSE {"/"}
Sep(win) == IF win THEN <<"\\">> ELSE <<"/">>
SepAt(win, path, i) == i < Len(path) /\ path[i + 1] \in Seps(win)
LastSep(win, path) == Str!LastIndexOfAny(path, Seps(win), -1)

\* A drive, or a server and a share: the separators after the first two end their
\* names, and the one that ends the share does not belong to the prefix.
GetPrefixLength(win, path) ==
  IF win /\ Len(path) > 1 /\ path[1] \in Letters /\ path[2] = ":" THEN 2
  ELSE IF win /\ SepAt(win, path, 0) /\ SepAt(win, path, 1)
  THEN LET after == {i \in 2 .. Len(path) - 1 : SepAt(win, path, i)}
           p == IF Cardinality(after) < 2 THEN Len(path) ELSE Min(after \ {Min(after)}) + 1
       IN IF p > 2 /\ SepAt(win, path, p - 1) THEN p - 1 ELSE p
  ELSE 0
Rooted(win, path) == SepAt(win, path, GetPrefixLength(win, path))

Join(win, a, b) ==
  IF a = <<>> THEN b ELSE IF b = <<>> THEN a
  ELSE a \o (IF SepAt(win, a, Len(a) - 1) THEN <<>> ELSE Sep(win))
         \o (IF SepAt(win, b, 0) THEN Tail(b) ELSE b)

\* The directory part; <<>> stands for null, which no directory is.
GetDirectoryName(win, path) ==
  LET prefix == GetPrefixLength(win, path)
      last == LastSep(win, path)
  IN IF last < prefix \/ (last = prefix /\ Len(path) = prefix + 1) THEN <<>>
     ELSE Str!SubString(path, 0, IF last = prefix THEN prefix + 1 ELSE last)

GetFileName(win, path) == Str!SubString(path, LastSep(win, path) + 1, -1)

GetFileNameWithoutExtension(win, path) ==
  LET last == LastSep(win, path)
      ext == Str!LastIndexOf(path, <<".">>, -1)
  IN Str!SubString(path, last + 1, IF ext > last THEN ext - (last + 1) ELSE -1)

\* Where the extension begins, with its dot; the end of the path when it has none.
FindExtension(win, path) ==
  LET dot == Str!LastIndexOfAny(path, {"."}, -1)
  IN IF dot > LastSep(win, path) THEN dot ELSE Len(path)
GetExtension(win, path) == Str!SubString(path, FindExtension(win, path), -1)

ChangeExtension(win, path, new) ==
  Str!SubString(path, 0, FindExtension(win, path))
    \o (IF new # <<>> /\ new[1] = "." THEN <<>> ELSE <<".">>) \o new

\* The mutant lets ".." take back a ".." before it.
Collapsed_Up(segs, rooted) ==
  FoldLeft(LAMBDA out, seg :
    IF seg = <<".">> THEN out
    ELSE IF seg # <<".", ".">> THEN Append(out, seg)
    ELSE IF out # <<>> THEN Front(out)
    ELSE IF rooted THEN out ELSE Append(out, seg), <<>>, segs)

\* The segments without ".", and without the ".." that have something to go back
\* to, or are at the root.
Collapsed(segs, rooted) ==
  FoldLeft(LAMBDA out, seg :
    IF seg = <<".">> THEN out
    ELSE IF seg # <<".", ".">> THEN Append(out, seg)
    ELSE IF out # <<>> /\ Last(out) # <<".", ".">> THEN Front(out)
    ELSE IF rooted THEN out ELSE Append(out, seg), <<>>, segs)

Canonicalize(win, path) ==
  LET prefix == GetPrefixLength(win, path)
      rooted == Rooted(win, path)
      trailing == Len(path) > prefix /\ SepAt(win, path, Len(path) - 1) /\ ~(rooted /\ Len(path) = prefix + 1)
      out == Collapsed(Str!Split(Str!SubString(path, prefix, -1), Seps(win), FALSE), rooted)
      result == Str!SubString(path, 0, prefix) \o (IF rooted THEN Sep(win) ELSE <<>>)
                  \o Str!Join(out, Sep(win)) \o (IF trailing /\ out # <<>> THEN Sep(win) ELSE <<>>)
  IN IF path = <<>> THEN <<>> ELSE IF result = <<>> THEN <<".">> ELSE result

\* A path that begins with a separator keeps the prefix of the base only.
Combine(win, base, path) ==
  IF base = <<>> THEN Canonicalize(win, path)
  ELSE IF SepAt(win, path, 0)
  THEN Canonicalize(win, Join(win, Str!SubString(base, 0, GetPrefixLength(win, base)), path))
  ELSE Canonicalize(win, Join(win, base, path))

IsFullyQualified(win, path) ==
  IF win THEN LET prefix == GetPrefixLength(win, path)
              IN prefix # 0 /\ (prefix > 2 \/ SepAt(win, path, prefix))
  ELSE SepAt(win, path, 0)

\* "drive" is the directory the system names for a path relative to a drive, <<>>
\* where it is not asked.
OnDrive(win, path) == GetPrefixLength(win, path) = 2 /\ path[2] = ":" /\ ~SepAt(win, path, 2)
GetFullPath(win, cwd, drive, path) ==
  IF path = <<>> THEN cwd
  ELSE IF drive # <<>> /\ OnDrive(win, path) THEN Combine(win, drive, Str!SubString(path, 2, -1))
  ELSE Combine(win, cwd, path)

\* One alternative of a pattern, from character i of the name and j of the pattern
\* on: a "*" at the end needs a character, one in the middle does not.
MatchPatternSegment(name, pattern) ==
  LET match[i \in 1 .. Len(name) + 1, j \in 1 .. Len(pattern) + 1] ==
        IF j > Len(pattern) \/ i > Len(name) THEN j > Len(pattern) /\ i > Len(name)
        ELSE CASE pattern[j] = "?" -> match[i + 1, j + 1]
               [] pattern[j] = "*" -> j = Len(pattern) \/ \E k \in i .. Len(name) : match[k, j + 1]
               [] OTHER -> pattern[j] = name[i] /\ match[i + 1, j + 1]
  IN match[1, 1]

DoesMatchPattern(name, pattern) ==
  \E i \in DOMAIN Str!Split(pattern, {";"}, TRUE) :
    MatchPatternSegment(name, Str!Split(pattern, {";"}, TRUE)[i])

----------------------------------------------------------------------------
\* The names from the root to where the segments lead, read in the directory "from".
Walk(from, segs) ==
  FoldLeft(LAMBDA at, seg :
    IF seg = <<".">> THEN at
    ELSE IF seg = <<".", ".">> THEN (IF at = <<>> THEN at ELSE Front(at))
    ELSE Append(at, seg), from, segs)
\* Where a path leads that is read in "from", past its first n characters.
Past(win, n, from, path) ==
  Walk(IF SepAt(win, path, n) THEN <<>> ELSE from,
       Str!Split(Str!SubString(path, n, -1), Seps(win), FALSE))
Where(win, from, path) == Past(win, GetPrefixLength(win, path), from, path)

\* A relative path may lose the segments before a name like a drive, and what is
\* left then reads as a path on that drive.
DriveLeft(win, path, result) ==
  /\ GetPrefixLength(win, path) = 0 /\ ~Rooted(win, path)
  /\ GetPrefixLength(win, result) = 2 /\ result[2] = ":"

Above == <<<<"x">>, <<"y">>, <<"z">>>>

\* A canonical path leads where the path did and is canonical already; what is cut
\* from a path is all of it.
PathsExact(win, path) ==
  LET canon == Canonicalize(win, path)
      dir == GetDirectoryName(win, path)
      file == GetFileName(win, path)
  IN /\ Past(win, GetPrefixLength(win, path), Above, canon) = Where(win, Above, path)
     /\ \/ /\ Canonicalize(win, canon) = canon
           /\ path # <<>> => GetPrefixLength(win, canon) = GetPrefixLength(win, path)
           /\ IsFullyQualified(win, canon) = IsFullyQualified(win, path)
        \/ DriveLeft(win, path, canon)
     /\ dir # <<>> => Where(win, Above, Join(win, dir, file)) = Where(win, Above, path)
     /\ file = GetFileNameWithoutExtension(win, path) \o GetExtension(win, path)
     /\ GetExtension(win, ChangeExtension(win, path, <<"e">>)) = <<".", "e">>

\* A server and a share have names.
Named(win, base) ==
  LET parts == Str!Split(base, Seps(win), TRUE)
  IN GetPrefixLength(win, base) > 0 /\ SepAt(win, base, 0) =>
       Len(parts) > 3 /\ parts[3] # <<>> /\ parts[4] # <<>>

\* Combine leads where the segments of the path lead that are read in the base, or
\* at its root.  The drive, or the server and the share, of a path are segments like
\* any other, unless the base has no prefix and the path begins with a separator; a
\* base with no more than a prefix is its root.  What is combined with a path that
\* is fully qualified is so too, and a path on a drive leads from its directory.
CombineExact(win, base, path) ==
  LET result == Combine(win, base, path)
      prefix(s) == Str!SubString(s, 0, GetPrefixLength(win, s))
      kept == base = <<>> \/ (prefix(base) = <<>> /\ SepAt(win, path, 0))
      from == IF SepAt(win, path, 0) \/ base = prefix(base) THEN <<>> ELSE Where(win, Above, base)
      first == IF kept THEN path ELSE base
  IN Named(win, base) =>
       /\ path # <<>> => prefix(result) = prefix(first) \/ DriveLeft(win, first, result)
       /\ Past(win, GetPrefixLength(win, first), Above, result) =
            IF kept THEN Where(win, Above, path)
            ELSE IF path = <<>> THEN Where(win, Above, base)
            ELSE Walk(from, Str!Split(path, Seps(win), FALSE))
       /\ IsFullyQualified(win, base) =>
            /\ \A drive \in {<<>>, base} : IsFullyQualified(win, GetFullPath(win, base, drive, path))
            /\ OnDrive(win, path) /\ base # prefix(base) =>
                 Where(win, Above, GetFullPath(win, <<>>, base, path)) = Where(win, Where(win, Above, base), path)

\* A pattern covers a name when its characters can be laid over it in order, "?"
\* over one and "*" over any run.
Covers(pattern, name) ==
  LET run(k) == IF pattern[k] = "*" THEN 0 .. Len(name) ELSE {1}
      \* ends[k]: how much of the name the first k characters can cover.
      ends[k \in 0 .. Len(pattern)] ==
        IF k = 0 THEN {0}
        ELSE {e \in 0 .. Len(name) : \E s \in ends[k - 1] :
                e - s \in run(k) /\ (pattern[k] \in {"?", "*"} \/ pattern[k] = name[e])}
  IN Len(name) \in ends[Len(pattern)]

\* A name matches when the pattern covers it, where a "*" at the end asks for a
\* character that the comment does not ask for.
MatchExact(name, pattern) ==
  LET open == pattern # <<>> /\ Last(pattern) = "*"
  IN MatchPatternSegment(name, pattern) =
       Covers(IF open THEN Front(pattern) \o <<"?", "*">> ELSE pattern, name)
=============================================================================
