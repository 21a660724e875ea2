---------------------------- MODULE QuestionImport ----------------------------
(***************************************************************************)
(* The questions of a test, from a sheet that is uploaded or from the form *)
(* of the web panel.  The parser of the sheet goes through it row by row   *)
(* and returns a whole test or all of its errors; the form takes what is   *)
(* filled in, and completeness is asked for when the test is published.    *)
(***************************************************************************)
EXTENDS Integers, Sequences, FiniteSets, SequencesExt

CONSTANTS
    Section,       \* VALID_SECTIONS
    First, Final,  \* SECTION_RANGES: the positions of a section
    Total,         \* EXPECTED_ROW_COUNT, 50 in the code
    Rows,          \* bound: the rows a teacher may write
    MaxRows        \* bound: the length of a sheet

Positions(s) == First[s]..Final[s]

ASSUME LayoutAssumption ==
    /\ Total \in Nat \ {0} /\ MaxRows \in Nat
    /\ UNION {Positions(s) : s \in Section} = 1..Total
    /\ \A s, t \in Section : s # t => Positions(s) \cap Positions(t) = {}

\* What a row or a card holds, as far as the checks tell it apart: whether the
\* required cells are filled; whether the position is a number; whether the
\* letter, the lengths and the markup of the texts are right; the has_image
\* cell; and whether texts and options fit a caption.
Row == [filled : BOOLEAN, typed : BOOLEAN, section : Section \cup {"other"},
        position : 0..(Total + 1), texts : BOOLEAN,
        image : {"none", "yes", "no", "typo"}, fits : BOOLEAN]

ASSUME RowsAssumption == Rows \subseteq Row

VARIABLES
    sheet,     \* the data rows of the sheet
    line,      \* the row the parser is at
    errors,    \* the errors so far, by line, 0 for the whole file
    questions, \* the questions so far
    seen,      \* seen_positions
    counts,    \* section_counts
    result     \* "none" yet, "errors", or a "test"

importVars == <<sheet, line, errors, questions, seen, counts, result>>

-----------------------------------------------------------------------------
(* Rules that the sheet and the form share. *)

Message(condition, m) == IF condition THEN {m} ELSE {}

PlaceErrors(section, position) ==
    Message(section \notin Section, "section")
      \cup Message(position \notin 1..Total, "range")
      \cup Message(position \in 1..Total /\ section \in Section
                     /\ position \notin Positions(section), "place")

TextErrors(texts, hasImage, fits) ==
    Message(~texts, "texts") \cup Message(hasImage /\ ~fits, "caption")

FieldErrors(section, position, texts, hasImage, fits) ==
    PlaceErrors(section, position) \cup TextErrors(texts, hasImage, fits)

SectionForPosition(p) == CHOOSE s \in Section : p \in Positions(s)

\* What the gate of publishing in the panel says of a test.
CompletenessErrors(qs) ==
    Message(Len(qs) # Total, "count")
      \cup Message(\E i, j \in 1..Len(qs) : i < j /\ qs[i].position = qs[j].position,
                   "twice")
      \cup Message(Len(qs) = Total /\ \E s \in Section :
                     Cardinality({i \in 1..Len(qs) : qs[i].section = s})
                       # Cardinality(Positions(s)), "sections")

-----------------------------------------------------------------------------
(* The sheet. *)

HasImage(row) == row.image = "yes"

\* Presence and typing come first, and end the checks of the row.
RowErrors(row) ==
    CASE ~row.filled -> {"empty"}
      [] row.filled /\ ~row.typed -> {"typing"}
      [] OTHER -> Message(row.image = "typo", "image")
                    \cup FieldErrors(row.section, row.position, row.texts,
                                     HasImage(row), row.fits)

Question(row) == [section |-> row.section, position |-> row.position,
                  texts |-> row.texts, image |-> HasImage(row), fits |-> row.fits]

\* Variant: a position may be used twice.
RepeatErrors(row) == {}

\* A position that a good row above has is an error of the row.
Repeats(row) == Message(row.position \in seen, "repeated")

\* A row with errors counts for nothing; a repeated one still counts.
ReadRow ==
    /\ result = "none" /\ line <= Len(sheet)
    /\ LET row == sheet[line]
           bad == RowErrors(row)
       IN  IF bad # {}
           THEN /\ errors' = errors \cup {<<line, e>> : e \in bad}
                /\ UNCHANGED <<questions, seen, counts>>
           ELSE /\ errors' = errors \cup {<<line, e>> : e \in Repeats(row)}
                /\ questions' = Append(questions, Question(row))
                /\ seen' = seen \cup {row.position}
                /\ counts' = [counts EXCEPT ![row.section] = @ + 1]
    /\ line' = line + 1
    /\ UNCHANGED <<sheet, result>>

\* Sections are counted only in a sheet of the right length.
CountErrors ==
    {<<0, s>> : s \in {s \in Section :
        Len(sheet) = Total /\ counts[s] # Cardinality(Positions(s))}}

Return ==
    /\ result = "none" /\ line > Len(sheet)
    /\ errors' = errors \cup CountErrors
    /\ result' = IF errors' = {} THEN "test" ELSE "errors"
    /\ UNCHANGED <<sheet, line, questions, seen, counts>>

InitImport ==
    /\ sheet \in BoundedSeq(Rows, MaxRows)
    /\ line = 1
    /\ errors = {<<0, m>> : m \in Message(Len(sheet) # Total, "count")}
    /\ questions = <<>> /\ seen = {} /\ counts = [s \in Section |-> 0]
    /\ result = "none"

NextImport == ReadRow \/ Return

SpecImport == InitImport /\ [][NextImport]_importVars

-----------------------------------------------------------------------------
(* The form: one card for each position. *)

EmptyCard == [filled |-> "none", texts |-> TRUE, image |-> FALSE, fits |-> TRUE]

\* The cards of an editor that is opened on the test.
Card(q) == [filled |-> "all", texts |-> q.texts, image |-> q.image, fits |-> q.fits]

Cards(qs) ==
    [p \in 1..Total |->
        IF \E i \in 1..Len(qs) : qs[i].position = p
        THEN Card(qs[CHOOSE i \in 1..Len(qs) : qs[i].position = p]) ELSE EmptyCard]

\* Empty cards are skipped, and fields left out end the checks of a card; the
\* section follows from the position.
CardErrors(p, card) ==
    CASE card.filled = "none" -> {}
      [] card.filled = "some" -> {"required"}
      [] OTHER -> FieldErrors(SectionForPosition(p), p, card.texts, card.image, card.fits)

\* The drafts of a form without errors, in the order of their positions.
FormDrafts(cards) ==
    LET draft(p) == [section |-> SectionForPosition(p), position |-> p,
                     texts |-> cards[p].texts, image |-> cards[p].image,
                     fits |-> cards[p].fits]
        good(p)  == cards[p].filled # "none" /\ CardErrors(p, cards[p]) = {}
    IN  [i \in 1..Cardinality({p \in 1..Total : good(p)}) |->
            draft(CHOOSE p \in 1..Total :
                     good(p) /\ Cardinality({r \in 1..p : good(r)}) = i)]

-----------------------------------------------------------------------------
(* The reference. *)

\* A row that may stand for position p.
SoundAt(row, p) ==
    /\ row.filled /\ row.typed /\ row.texts
    /\ row.position = p /\ row.section = SectionForPosition(p)
    /\ row.image # "typo" /\ (row.image = "yes" => row.fits)

\* One sound row for each position, in any order, and no other row.
WellFormed ==
    /\ Len(sheet) = Total
    /\ \A p \in 1..Total : \E i \in 1..Len(sheet) : SoundAt(sheet[i], p)

\* A sheet is taken if and only if it is a whole test; of any other the teacher
\* is told every row that cannot stay as it is, and no row that can.  A test
\* that is taken passes the gate of publishing, and the editor, opened on it and
\* saved unchanged, gives the same questions.
ImportIsExact ==
    result # "none" =>
        /\ result = "test" <=> WellFormed
        /\ \A i \in 1..Len(sheet) :
             (\E e \in errors : e[1] = i) <=>
                 \/ ~\E p \in 1..Total : SoundAt(sheet[i], p)
                 \/ \E j \in 1..(i - 1) :
                      \E p \in 1..Total : SoundAt(sheet[i], p) /\ SoundAt(sheet[j], p)
        /\ result = "test" =>
             /\ CompletenessErrors(questions) = {}
             /\ \A p \in 1..Total : CardErrors(p, Cards(questions)[p]) = {}
             /\ ToSet(FormDrafts(Cards(questions))) = ToSet(questions)
=============================================================================
