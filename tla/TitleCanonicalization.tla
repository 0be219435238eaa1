------------------------- MODULE TitleCanonicalization -------------------------
(***************************************************************************)
(* canonicalizedTitle (src/sky/engine/core/dom/Document.cpp) as a pure    *)
(* operator over the code units of a title, checked against the rules its *)
(* comments state: leading spaces and leading characters that would       *)
(* convert to spaces are skipped, control characters become spaces, runs  *)
(* of whitespace collapse to one space, trailing spaces are stripped, and *)
(* a title with nothing left is the null String.                          *)
(*                                                                         *)
(* The function is a static template with no caller left in this fork;   *)
(* it is modelled because it is the one title algorithm the code keeps.   *)
(***************************************************************************)
EXTENDS Integers, SequencesExt

CONSTANTS
    Alphabet,       \* the code units a title is made of
    Category,       \* Category[c]: the Unicode general category of c
    MaxTitleLength  \* the longest title enumerated

ASSUME Category \in [Alphabet -> STRING]
ASSUME MaxTitleLength \in Nat

Space == 32

NullString == [isNull |-> TRUE, chars |-> <<>>]
MakeString(s) == [isNull |-> FALSE, chars |-> s]

\* The test of the leading-space loop.
IsLeadingSpace(c) == c <= 32 \/ c = 127

\* The test of the main loop: also line and paragraph separators.
ConvertsToSpace(c) == c <= 32 \/ c = 127 \/ Category[c] \in {"Zl", "Zp"}

\* The first index the leading-space loop stops at (Len + 1 if none).
FirstKept(t) ==
    LET i == SelectInSeq(t, LAMBDA c : ~IsLeadingSpace(c))
    IN  IF i = 0 THEN Len(t) + 1 ELSE i

\* Mutant: a character after a run does not clear previousCharWasWS.
RECURSIVE CollapseSticky(_, _)
CollapseSticky(s, previousCharWasWS) ==
    IF s = <<>> THEN <<>>
    ELSE IF ConvertsToSpace(Head(s))
         THEN IF previousCharWasWS THEN CollapseSticky(Tail(s), TRUE)
              ELSE <<Space>> \o CollapseSticky(Tail(s), TRUE)
         ELSE <<Head(s)>> \o CollapseSticky(Tail(s), previousCharWasWS)

\* The main loop from index i: each run of converting characters becomes
\* one space (previousCharWasWS).
RECURSIVE Collapse(_, _)
Collapse(s, previousCharWasWS) ==
    IF s = <<>> THEN <<>>
    ELSE IF ConvertsToSpace(Head(s))
         THEN IF previousCharWasWS THEN Collapse(Tail(s), TRUE)
              ELSE <<Space>> \o Collapse(Tail(s), TRUE)
         ELSE <<Head(s)>> \o Collapse(Tail(s), FALSE)

\* The trailing-space loop on the 1-based buffer: builderIndex is
\* decremented before each test and stops on the first non-space, so the
\* result is the 0-based index of the last character kept.
RECURSIVE StripTrailing(_, _)
StripTrailing(buffer, builderIndex) ==
    IF builderIndex = 0 THEN 0
    ELSE IF buffer[builderIndex] # Space THEN builderIndex - 1
    ELSE StripTrailing(buffer, builderIndex - 1)

CanonicalizedTitle(t) ==
    LET i == FirstKept(t)
        buffer == Collapse(SubSeq(t, i, Len(t)), FALSE)
        builderIndex == StripTrailing(buffer, Len(buffer))
    IN  IF i = Len(t) + 1 THEN NullString
        ELSE IF builderIndex = 0 /\ buffer[1] = Space THEN NullString
        ELSE MakeString(SubSeq(buffer, 1, builderIndex + 1))

(***************************************************************************)
(* The rules of the comments, stated without the loops: a character that  *)
(* converts to a space survives, as one space, only between two kept     *)
(* characters and right after a character that does not convert.         *)
(***************************************************************************)
Kept(t) ==
    {i \in 1..Len(t) :
        \/ ~ConvertsToSpace(t[i])
        \/ /\ i > 1
           /\ ~ConvertsToSpace(t[i - 1])
           /\ \E j \in (i + 1)..Len(t) : ~ConvertsToSpace(t[j])}

TitleByComment(t) ==
    LET Test(i) == i \in Kept(t)
        idx == SelectSeq([i \in 1..Len(t) |-> i], Test)
    IN  IF idx = <<>> THEN NullString
        ELSE MakeString([k \in 1..Len(idx) |->
                           IF ConvertsToSpace(t[idx[k]]) THEN Space ELSE t[idx[k]]])

(***************************************************************************)
(* Every title of up to MaxTitleLength units, one unit at a time.          *)
(***************************************************************************)
VARIABLE title

Init == title = <<>>

AppendUnit(c) ==
    /\ Len(title) < MaxTitleLength
    /\ title' = Append(title, c)

Clear ==
    /\ title # <<>>
    /\ title' = <<>>

Next == (\E c \in Alphabet : AppendUnit(c)) \/ Clear

Spec == Init /\ [][Next]_title

\* canonicalizedTitle collapses, replaces and strips exactly as its
\* comments say, for every title: no leading or trailing space, no two
\* spaces in a row, every other character kept in order.
TitleFollowsComment == CanonicalizedTitle(title) = TitleByComment(title)
=============================================================================
