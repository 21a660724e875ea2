-------------------------------- MODULE Markup --------------------------------
(***************************************************************************)
(* **bold** and __italic__ in the texts of a question: what the validator  *)
(* of the editor and of the import lets through, what the student is sent, *)
(* and the length the limit of a caption is checked with.  A text is a     *)
(* sequence of asterisks, underscores, blanks and other characters.        *)
(***************************************************************************)
EXTENDS Integers, Sequences, FiniteSets, SequencesExt

CONSTANT MaxPieces   \* bound: the length of a text, a marker counting as one

ASSUME MaxPiecesAssumption == MaxPieces \in Nat

Star  == "*"
Under == "_"
Blank == " "
Char  == {Star, Under, Blank, "x"}

\* Tags are one symbol each; they stand for no character the student sees.
Bold   == [open |-> "<b>", close |-> "</b>"]
Italic == [open |-> "<i>", close |-> "</i>"]
Tag    == {"<b>", "</b>", "<i>", "</i>"}

VARIABLE text

\* A marker is its character twice.
MarkerAt(s, i, c) == i \in 1..(Len(s) - 1) /\ s[i] = c /\ s[i + 1] = c

Least(S) == CHOOSE i \in S : \A j \in S : i <= j

\* str.count: markers from the left, none overlapping another.
RECURSIVE CountMarkers(_, _)
CountMarkers(s, c) ==
    LET at == {i \in 1..Len(s) : MarkerAt(s, i, c)}
    IN  IF at = {} THEN 0
        ELSE 1 + CountMarkers(SubSeq(s, Least(at) + 2, Len(s)), c)

\* \*\*(.+?)\*\*: the leftmost opening marker that has a closing one, at least
\* a character away, and the nearest of those; what is between may be markers.
Closings(s, i, c) == {j \in (i + 3)..Len(s) : MarkerAt(s, j, c)}
Openings(s, c)    == {i \in 1..Len(s) : MarkerAt(s, i, c) /\ Closings(s, i, c) # {}}

\* Variant: \*\*(.+)\*\*, which takes the farthest closing marker.
FirstMatchGreedy(s, c) ==
    LET i == Least(Openings(s, c))
        j == CHOOSE k \in Closings(s, i, c) : \A l \in Closings(s, i, c) : l <= k
    IN  [before |-> SubSeq(s, 1, i - 1), within |-> SubSeq(s, i + 2, j - 1),
         after |-> SubSeq(s, j + 2, Len(s))]

\* The parts of s: before the first match, within it, and after it.
FirstMatch(s, c) ==
    LET i == Least(Openings(s, c))
        j == Least(Closings(s, i, c))
    IN  [before |-> SubSeq(s, 1, i - 1), within |-> SubSeq(s, i + 2, j - 1),
         after |-> SubSeq(s, j + 2, Len(s))]

RECURSIVE Matches(_, _)
Matches(s, c) ==
    IF Openings(s, c) = {} THEN {}
    ELSE {FirstMatch(s, c).within} \cup Matches(FirstMatch(s, c).after, c)

\* re.sub with the group between `left' and `right'.
RECURSIVE Substitute(_, _, _, _)
Substitute(s, c, left, right) ==
    IF Openings(s, c) = {} THEN s
    ELSE LET m == FirstMatch(s, c)
         IN  m.before \o left \o m.within \o right
               \o Substitute(m.after, c, left, right)

HasEmptyPair(s, c) == \E m \in Matches(s, c) : ToSet(m) \subseteq {Blank}

\* No message for the author.
Validates(s) ==
    \A c \in {Star, Under} : CountMarkers(s, c) % 2 = 0 /\ ~HasEmptyPair(s, c)

\* What the student is sent: bold is converted first.
Render(s) ==
    Substitute(Substitute(s, Star, <<Bold.open>>, <<Bold.close>>),
               Under, <<Italic.open>>, <<Italic.close>>)

VisibleLength(s) ==
    Len(Substitute(Substitute(s, Star, <<>>, <<>>), Under, <<>>, <<>>))

-----------------------------------------------------------------------------
(* Every text up to the bound whose markers stand apart is written, a       *)
(* character at a time: two markers that run together stay so.              *)

Markers(s) == CountMarkers(s, Star) + CountMarkers(s, Under)
Pieces(s)  == Len(s) - Markers(s)

\* Markers stand apart: whichever two of their characters are of one kind, and
\* not next to each other, have other characters in between.
Apart(s) ==
    \A i, j \in 1..Len(s) :
        i + 1 < j /\ s[i] = s[j] /\ s[i] \in {Star, Under}
            => \E k \in (i + 1)..(j - 1) : s[k] \notin {Star, Under}

WriteChar ==
    LET longer == {Append(text, c) : c \in Char}
    IN  text' \in {s \in longer : Pieces(s) <= MaxPieces /\ Apart(s)}

InitText == text = <<>>

-----------------------------------------------------------------------------
(* What the author means. *)

\* The markers of c in order, and their pairs: first to second, third to fourth.
Place(s, c, n) ==
    CHOOSE i \in 1..Len(s) :
        /\ MarkerAt(s, i, c)
        /\ Cardinality({j \in 1..i : MarkerAt(s, j, c)}) = n
Pairs(s, c) ==
    {<<Place(s, c, 2 * n - 1), Place(s, c, 2 * n)>> : n \in 1..(CountMarkers(s, c) \div 2)}

\* One pair ends within another that began before it.
Crossing(s) ==
    \E b \in Pairs(s, Star), i \in Pairs(s, Under) :
        \/ b[1] < i[1] /\ i[1] < b[2] /\ b[2] < i[2]
        \/ i[1] < b[1] /\ b[1] < i[2] /\ i[2] < b[2]

\* What Telegram parses: every tag closes the last one that is open.
WellNested(s) ==
    LET step(open, tag) ==
            CASE tag \in {"<b>", "<i>"} -> Append(open, tag)
              [] tag = "</b>" -> IF open # <<>> /\ Last(open) = "<b>"
                                 THEN Front(open) ELSE <<"error">>
              [] tag = "</i>" -> IF open # <<>> /\ Last(open) = "<i>"
                                 THEN Front(open) ELSE <<"error">>
              [] OTHER -> open
    IN  FoldLeft(step, <<>>, s) = <<>>

Characters(s) == SelectSeq(s, LAMBDA c : c \notin Tag)

\* Of a text that validates and whose markers stand apart, every pair has
\* something between that is not blank, the student sees every marker as
\* formatting and none as characters, the caption is as long as the check
\* measured, and Telegram can parse the message unless two pairs cross, which
\* the validator does not look for: then it refuses the message.
MarkupIsFaithful ==
    Validates(text) /\ Apart(text) =>
        LET sent == Render(text)
        IN  /\ WellNested(sent) <=> ~Crossing(text)
            /\ \A c \in {Star, Under} : CountMarkers(sent, c) = 0
            /\ Len(sent) - Len(Characters(sent)) = Markers(text)
            /\ Len(Characters(sent)) = VisibleLength(text)
            /\ \A c \in {Star, Under} : \A pair \in Pairs(text, c) :
                 \E k \in (pair[1] + 2)..(pair[2] - 1) : text[k] # Blank
=============================================================================
