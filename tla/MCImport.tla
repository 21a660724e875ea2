------------------------------- MODULE MCImport -------------------------------
(* One run for the two checks of what authors write: sheets of up to four   *)
(* rows for a test of three questions in two sections, or, where no sheet   *)
(* is uploaded, texts with markup.                                          *)
EXTENDS Markup, QuestionImport

TwoSections == {"rus", "ped"}
FirstOf     == [s \in TwoSections |-> IF s = "rus" THEN 1 ELSE 3]
LastOf      == [s \in TwoSections |-> IF s = "rus" THEN 2 ELSE 3]

Good(s, p) == [filled |-> TRUE, typed |-> TRUE, section |-> s, position |-> p,
               texts |-> TRUE, image |-> "none", fits |-> TRUE]

SomeRows ==
    {Good("rus", p) : p \in 1..4} \cup {Good("ped", p) : p \in {0, 2, 3}}
      \cup {Good("other", 1), [Good("rus", 2) EXCEPT !.filled = FALSE],
            [Good("rus", 1) EXCEPT !.typed = FALSE],
            [Good("rus", 2) EXCEPT !.texts = FALSE],
            [Good("rus", 1) EXCEPT !.image = "yes"],
            [Good("rus", 1) EXCEPT !.image = "yes", !.fits = FALSE],
            [Good("rus", 2) EXCEPT !.image = "no", !.fits = FALSE],
            [Good("ped", 3) EXCEPT !.image = "typo"]}

MCInit == InitText /\ InitImport
MCNext ==
    \/ NextImport /\ text = <<>> /\ UNCHANGED text
    \/ WriteChar /\ sheet = <<>> /\ result = "none" /\ UNCHANGED importVars
MCSpec == MCInit /\ [][MCNext]_<<text, importVars>>
=============================================================================
