------------------------ MODULE QuestionImport_proofs ------------------------
(***************************************************************************)
(* Theorems about the import of a sheet in QuestionImport, for any layout  *)
(* of sections, any number of questions and a sheet of any length.         *)
(***************************************************************************)
EXTENDS QuestionImport, FiniteSetTheorems, TLAPS

-----------------------------------------------------------------------------
(* Layout and rows. *)

\* A position belongs to one section.
LEMMA SectionOf ==
    /\ \A s \in Section : Positions(s) \subseteq 1..Total
    /\ \A p \in 1..Total : /\ SectionForPosition(p) \in Section
                           /\ p \in Positions(SectionForPosition(p))
    /\ \A s \in Section, p \in 1..Total : p \in Positions(s) => s = SectionForPosition(p)
<1>1. \A s \in Section : Positions(s) \subseteq 1..Total
  BY LayoutAssumption
<1>2. \A p \in 1..Total : \E s \in Section : p \in Positions(s)
  BY LayoutAssumption
<1>3. \A s, t \in Section : \A p : p \in Positions(s) /\ p \in Positions(t) => s = t
  BY LayoutAssumption
<1> HIDE DEF Positions
<1>4. \A p \in 1..Total : /\ SectionForPosition(p) \in Section
                          /\ p \in Positions(SectionForPosition(p))
  BY <1>2 DEF SectionForPosition
<1> QED
  BY <1>1, <1>3, <1>4

\* The checks of a row pass exactly the rows that are sound where they stand.
LEMMA RowErrorsAreExact ==
    ASSUME NEW r \in Row
    PROVE  /\ RowErrors(r) = {} <=> SoundAt(r, r.position) /\ r.position \in 1..Total
           /\ \A p \in 1..Total : SoundAt(r, p) => p = r.position
<1>1. PlaceErrors(r.section, r.position) = {} <=>
         r.position \in 1..Total /\ r.section = SectionForPosition(r.position)
  <2>1. PlaceErrors(r.section, r.position) = {} <=>
           /\ r.section \in Section /\ r.position \in 1..Total
           /\ r.position \in Positions(r.section)
    BY DEF PlaceErrors, Message
  <2> QED
    BY <2>1, SectionOf
<1>2. TextErrors(r.texts, HasImage(r), r.fits) = {} <=>
         r.texts /\ (r.image = "yes" => r.fits)
  BY DEF TextErrors, Message, HasImage, Row
<1>3. Message(r.image = "typo", "image") = {} <=> r.image # "typo"
  BY DEF Message
<1>4. CASE ~r.filled
  BY <1>4 DEF RowErrors, SoundAt, Row
<1>5. CASE r.filled /\ ~r.typed
  BY <1>5 DEF RowErrors, SoundAt, Row
<1>6. CASE r.filled /\ r.typed
  <2>1. RowErrors(r) = Message(r.image = "typo", "image")
           \cup (PlaceErrors(r.section, r.position)
                   \cup TextErrors(r.texts, HasImage(r), r.fits))
    BY <1>6 DEF RowErrors, FieldErrors, Row
  <2>2. RowErrors(r) = {} <=>
           /\ r.image # "typo" /\ r.texts /\ (r.image = "yes" => r.fits)
           /\ r.position \in 1..Total /\ r.section = SectionForPosition(r.position)
    BY <1>1, <1>2, <1>3, <2>1
  <2> QED
    BY <1>6, <2>2 DEF SoundAt
<1> QED
  BY <1>4, <1>5, <1>6 DEF Row, SoundAt

-----------------------------------------------------------------------------
(* The parser. *)

GoodRow(i) == RowErrors(sheet[i]) = {}
Repeated(i) ==
    GoodRow(i) /\ \E j \in 1..(i - 1) : GoodRow(j) /\ sheet[j].position = sheet[i].position

\* The rows that are read.
Done == 1..(line - 1)

\* What the parser keeps is a function of the rows it has read: the positions
\* and the counts of the good ones, errors for the bad and the repeated ones
\* and no other, and, while every row is good, their questions in order.
Kept ==
    /\ seen = {sheet[i].position : i \in {i \in Done : GoodRow(i)}}
    /\ counts = [s \in Section |->
                    Cardinality({i \in Done : GoodRow(i) /\ sheet[i].section = s})]
    /\ \A e \in errors : e[1] \in Done \cup {0}
    /\ \A i \in Done : (\E e \in errors : e[1] = i) <=> ~GoodRow(i) \/ Repeated(i)
    /\ (\A i \in Done : GoodRow(i)) =>
          /\ Len(questions) = line - 1
          /\ \A i \in Done : questions[i] = Question(sheet[i])

\* The errors of the whole file, before and after the sections are counted.
Judged ==
    IF result = "none"
    THEN (\E e \in errors : e[1] = 0) <=> Len(sheet) # Total
    ELSE /\ line = Len(sheet) + 1
         /\ result = "test" <=> errors = {}
         /\ (\E e \in errors : e[1] = 0) <=>
               \/ Len(sheet) # Total
               \/ \E s \in Section : counts[s] # Cardinality(Positions(s))

ImportInv ==
    /\ sheet \in Seq(Row) /\ line \in 1..(Len(sheet) + 1)
    /\ questions \in Seq({Question(r) : r \in Row})
    /\ result \in {"none", "errors", "test"}
    /\ Kept /\ Judged

LEMMA ImportInit == InitImport => ImportInv
<1> SUFFICES ASSUME InitImport PROVE ImportInv
  OBVIOUS
<1>1. sheet \in Seq(Row) /\ Len(sheet) \in Nat
  <2>1. PICK m \in 0..MaxRows : sheet \in [1..m -> Rows]
    BY DEF InitImport, BoundedSeq, SeqOf
  <2> QED
    BY <2>1, RowsAssumption, LayoutAssumption
<1>2. line = 1 /\ Done = {} /\ questions = <<>> /\ Len(questions) = 0 /\ result = "none"
  BY DEF InitImport, Done
<1>3. seen = {sheet[i].position : i \in {i \in Done : GoodRow(i)}}
  BY <1>2 DEF InitImport
<1>4. counts = [s \in Section |->
                   Cardinality({i \in Done : GoodRow(i) /\ sheet[i].section = s})]
  <2>1. \A s \in Section : {i \in Done : GoodRow(i) /\ sheet[i].section = s} = {}
    BY <1>2
  <2> QED
    BY <2>1, FS_EmptySet DEF InitImport
<1>5. /\ \A e \in errors : e[1] = 0
      /\ (\E e \in errors : e[1] = 0) <=> Len(sheet) # Total
  <2>1. CASE Len(sheet) # Total
    <3>1. errors = {<<0, "count">>}
      BY <2>1 DEF InitImport, Message
    <3> QED
      BY <2>1, <3>1
  <2>2. CASE Len(sheet) = Total
    BY <2>2 DEF InitImport, Message
  <2> QED
    BY <2>1, <2>2
<1>6. Kept
  BY <1>2, <1>3, <1>4, <1>5 DEF Kept
<1> QED
  BY <1>1, <1>2, <1>5, <1>6 DEF ImportInv, Judged

\* One row is read.
LEMMA ReadRowKeeps ==
    ASSUME ImportInv, ReadRow
    PROVE  ImportInv'
<1> DEFINE row == sheet[line]
           told == IF GoodRow(line) THEN Repeats(row) ELSE RowErrors(row)
<1>1. /\ result = "none" /\ result' = "none" /\ sheet' = sheet
      /\ line \in 1..Len(sheet) /\ line' = line + 1
      /\ Len(sheet) \in Nat /\ row \in Row
  BY DEF ImportInv, ReadRow
<1>2. Done' = Done \cup {line} /\ line \notin Done /\ \A i \in Done : i \in 1..Len(sheet)
  BY <1>1 DEF Done
<1>3. \A i : (GoodRow(i)' <=> GoodRow(i)) /\ (Repeated(i)' <=> Repeated(i))
  BY <1>1 DEF GoodRow, Repeated
<1>4. /\ errors' = errors \cup {<<line, e>> : e \in told}
      /\ GoodRow(line) => /\ questions' = Append(questions, Question(row))
                          /\ seen' = seen \cup {row.position}
                          /\ counts' = [counts EXCEPT ![row.section] = @ + 1]
      /\ ~GoodRow(line) => UNCHANGED <<questions, seen, counts>>
  BY DEF ReadRow, GoodRow
<1>5. GoodRow(line) => row.section \in Section
  BY <1>1, RowErrorsAreExact, SectionOf DEF GoodRow, SoundAt
<1>6. seen' = {sheet[i].position : i \in {i \in Done' : GoodRow(i)}}
  BY <1>2, <1>4 DEF ImportInv, Kept
<1>7. counts' = [s \in Section |->
                    Cardinality({i \in Done' : GoodRow(i) /\ sheet[i].section = s})]
  <2> DEFINE C(s) == {i \in Done : GoodRow(i) /\ sheet[i].section = s}
             D(s) == {i \in Done' : GoodRow(i) /\ sheet[i].section = s}
  <2>1. counts = [s \in Section |-> Cardinality(C(s))]
    BY DEF ImportInv, Kept
  <2>2. CASE ~GoodRow(line)
    <3>1. \A s \in Section : D(s) = C(s)
      BY <1>2, <2>2
    <3> QED
      BY <1>4, <2>1, <2>2, <3>1
  <2>3. CASE GoodRow(line)
    <3>1. \A s \in Section \ {row.section} : D(s) = C(s)
      BY <1>2
    <3>2. D(row.section) = C(row.section) \cup {line} /\ line \notin C(row.section)
      BY <1>2, <2>3
    <3>3. IsFiniteSet(Done)
      BY <1>1, FS_Interval DEF Done
    <3>4. C(row.section) \subseteq Done
      OBVIOUS
    <3>5. IsFiniteSet(C(row.section))
      BY <3>3, <3>4, FS_Subset
    <3>6. Cardinality(D(row.section)) = Cardinality(C(row.section)) + 1
      BY <3>2, <3>5, FS_AddElement
    <3>7. counts' = [counts EXCEPT ![row.section] = Cardinality(C(row.section)) + 1]
      BY <1>4, <1>5, <2>1, <2>3
    <3> HIDE DEF C, D
    <3>8. counts' = [s \in Section |-> Cardinality(D(s))]
      BY <1>5, <2>1, <2>3, <3>1, <3>6, <3>7
    <3> QED
      BY <3>8 DEF D
  <2> QED
    BY <2>2, <2>3
<1>8. told # {} <=> ~GoodRow(line) \/ Repeated(line)
  <2>1. ~GoodRow(line) => RowErrors(row) # {}
    BY DEF GoodRow
  <2>2. Repeats(row) # {} <=> \E j \in Done : GoodRow(j) /\ sheet[j].position = row.position
    BY DEF Repeats, Message, ImportInv, Kept
  <2> QED
    BY <2>1, <2>2 DEF Repeated, Done
<1>9. \A e \in errors' : e \in errors \/ e[1] = line
  BY <1>4
<1>10. \A e \in errors' : e[1] \in Done' \cup {0}
  BY <1>2, <1>9 DEF ImportInv, Kept
<1>11. \A e \in errors : e \in errors' /\ e[1] # line
  <2>1. line # 0 /\ line \notin Done
    BY <1>1, <1>2
  <2> QED
    BY <1>4, <2>1 DEF ImportInv, Kept
<1>12. (\E e \in errors' : e[1] = line) <=> told # {}
  <2>1. ASSUME NEW e \in told PROVE <<line, e>> \in errors'
    BY <1>4, <2>1
  <2>2. ASSUME NEW e \in errors', e[1] = line PROVE told # {}
    BY <1>4, <1>11, <2>2
  <2> HIDE DEF told
  <2>3. \A e : <<line, e>>[1] = line
    OBVIOUS
  <2> QED
    BY <2>1, <2>2, <2>3
<1>13. \A i \in Done' : (\E e \in errors' : e[1] = i) <=> ~GoodRow(i) \/ Repeated(i)
  <2> TAKE i \in Done'
  <2>1. CASE i = line
    BY <1>8, <1>12, <2>1
  <2>2. CASE i \in Done
    <3>1. (\E e \in errors' : e[1] = i) <=> \E e \in errors : e[1] = i
      BY <1>2, <1>9, <1>11, <2>2
    <3> QED
      BY <2>2, <3>1 DEF ImportInv, Kept
  <2> QED
    BY <1>2, <2>1, <2>2
<1>14. questions' \in Seq({Question(r) : r \in Row})
  <2> DEFINE Q == {Question(r) : r \in Row}
  <2>1. questions \in Seq(Q) /\ Question(row) \in Q
    BY <1>1 DEF ImportInv
  <2> HIDE DEF Q
  <2>2. Append(questions, Question(row)) \in Seq(Q)
    BY <2>1
  <2>3. questions' \in Seq(Q)
    BY <1>4, <2>1, <2>2
  <2> QED
    BY <2>3 DEF Q
<1>15. ASSUME \A i \in Done' : GoodRow(i)
       PROVE  /\ Len(questions') = line' - 1
              /\ \A i \in Done' : questions'[i] = Question(sheet[i])
  <2>1. /\ GoodRow(line) /\ Len(questions) = line - 1
        /\ \A i \in Done : questions[i] = Question(sheet[i])
    BY <1>2, <1>15 DEF ImportInv, Kept
  <2>2. questions \in Seq({Question(r) : r \in Row}) /\ Question(row) \in {Question(r) : r \in Row}
    BY <1>1 DEF ImportInv
  <2>3. /\ Len(questions') = line
        /\ \A i \in Done : questions'[i] = questions[i]
        /\ questions'[line] = Question(row)
    BY <1>1, <1>4, <2>1, <2>2 DEF Done
  <2> QED
    BY <1>1, <1>2, <2>1, <2>3
<1>16. (\E e \in errors' : e[1] = 0) <=> Len(sheet') # Total
  <2>1. (\E e \in errors' : e[1] = 0) <=> \E e \in errors : e[1] = 0
    BY <1>1, <1>9, <1>11
  <2> QED
    BY <1>1, <2>1 DEF ImportInv, Judged
<1>17. Kept'
  BY <1>1, <1>3, <1>6, <1>7, <1>10, <1>13, <1>15 DEF Kept
<1>18. Judged'
  BY <1>1, <1>16 DEF Judged
<1> QED
  BY <1>1, <1>14, <1>17, <1>18 DEF ImportInv

\* The verdict.
LEMMA ReturnKeeps ==
    ASSUME ImportInv, Return
    PROVE  ImportInv'
<1>1. /\ result = "none" /\ result' \in {"test", "errors"}
      /\ result' = "test" <=> errors' = {}
      /\ errors' = errors \cup CountErrors
      /\ UNCHANGED <<sheet, line, questions, seen, counts>>
      /\ line = Len(sheet) + 1
  BY DEF ImportInv, Return
<1>2. \A e \in CountErrors : e[1] = 0
  BY DEF CountErrors
<1>3. (\E e \in CountErrors : e[1] = 0) <=>
         /\ Len(sheet) = Total
         /\ \E s \in Section : counts[s] # Cardinality(Positions(s))
  <2> DEFINE Off(s) == Len(sheet) = Total /\ counts[s] # Cardinality(Positions(s))
  <2>1. CountErrors = {<<0, s>> : s \in {s \in Section : Off(s)}}
    BY DEF CountErrors
  <2>2. ASSUME NEW s \in Section, Off(s) PROVE <<0, s>> \in CountErrors
    BY <2>1, <2>2
  <2>3. ASSUME NEW e \in CountErrors PROVE \E s \in Section : Off(s)
    BY <2>1, <2>3
  <2> QED
    BY <1>2, <2>2, <2>3
<1>4. Judged'
  BY <1>1, <1>2, <1>3 DEF ImportInv, Judged
<1>5. \A i \in Done : i # 0
  BY DEF Done
<1>6. Done' = Done /\ \A i : (GoodRow(i)' <=> GoodRow(i)) /\ (Repeated(i)' <=> Repeated(i))
  BY <1>1 DEF Done, GoodRow, Repeated
<1>7. \A i \in Done : (\E e \in errors' : e[1] = i) <=> \E e \in errors : e[1] = i
  BY <1>1, <1>2, <1>5
<1>8. \A e \in errors' : e[1] \in Done' \cup {0}
  BY <1>1, <1>2, <1>6 DEF ImportInv, Kept
<1>9. Kept'
  BY <1>1, <1>6, <1>7, <1>8 DEF ImportInv, Kept
<1> QED
  BY <1>1, <1>4, <1>9 DEF ImportInv

LEMMA ImportStill ==
    ASSUME ImportInv, UNCHANGED importVars
    PROVE  ImportInv'
<1>1. Done' = Done /\ \A i : (GoodRow(i)' <=> GoodRow(i)) /\ (Repeated(i)' <=> Repeated(i))
  BY DEF importVars, Done, GoodRow, Repeated
<1>2. UNCHANGED <<sheet, line, errors, questions, seen, counts, result>>
  BY DEF importVars
<1>3. Kept'
  <2>1. seen' = {sheet'[i].position : i \in {i \in Done' : GoodRow(i)'}}
    BY <1>1, <1>2 DEF ImportInv, Kept
  <2>2. counts' = [s \in Section |->
                      Cardinality({i \in Done' : GoodRow(i)' /\ sheet'[i].section = s})]
    <3>1. \A s \in Section : {i \in Done' : GoodRow(i)' /\ sheet'[i].section = s}
                              = {i \in Done : GoodRow(i) /\ sheet[i].section = s}
      BY <1>1, <1>2
    <3> QED
      BY <1>2, <3>1 DEF ImportInv, Kept
  <2>3. /\ \A e \in errors' : e[1] \in Done' \cup {0}
        /\ \A i \in Done' : (\E e \in errors' : e[1] = i) <=> ~GoodRow(i)' \/ Repeated(i)'
    BY <1>1, <1>2 DEF ImportInv, Kept
  <2>4. (\A i \in Done' : GoodRow(i)') =>
          /\ Len(questions') = line' - 1
          /\ \A i \in Done' : questions'[i] = Question(sheet'[i])
    BY <1>1, <1>2 DEF ImportInv, Kept
  <2> QED
    BY <2>1, <2>2, <2>3, <2>4 DEF Kept
<1>4. Judged'
  BY <1>2 DEF ImportInv, Judged
<1> QED
  BY <1>2, <1>3, <1>4 DEF ImportInv

\* At every row the parser knows of the rows above exactly what it should.
THEOREM ImportInvariance == SpecImport => []ImportInv
<1>1. ImportInv /\ [NextImport]_importVars => ImportInv'
  BY ReadRowKeeps, ReturnKeeps, ImportStill DEF NextImport
<1> QED
  BY <1>1, ImportInit, PTL DEF SpecImport

-----------------------------------------------------------------------------
(* Counting. *)

\* As many distinct positions as there are questions are all the positions.
LEMMA AllPositions ==
    ASSUME Len(sheet) = Total,
           \A i \in 1..Total : sheet[i].position \in 1..Total,
           \A i, j \in 1..Total : i # j => sheet[i].position # sheet[j].position
    PROVE  \A p \in 1..Total : \E i \in 1..Total : sheet[i].position = p
<1> DEFINE f == [i \in 1..Total |-> sheet[i].position]
<1>1. f \in Injection(1..Total, 1..Total)
  BY DEF Injection, IsInjective
<1>2. IsFiniteSet(1..Total)
  BY FS_Interval, LayoutAssumption
<1>3. f \in Surjection(1..Total, 1..Total)
  BY <1>1, <1>2, FS_Injection
<1> QED
  BY <1>3 DEF Surjection

\* And the rows of a section are as many as its positions.
LEMMA SectionCount ==
    ASSUME NEW s \in Section, NEW R, R \subseteq 1..Total,
           \A i \in R : sheet[i].position \in Positions(s),
           \A i, j \in R : i # j => sheet[i].position # sheet[j].position,
           \A p \in Positions(s) : \E i \in R : sheet[i].position = p
    PROVE  Cardinality(R) = Cardinality(Positions(s))
<1> DEFINE f == [i \in R |-> sheet[i].position]
<1> HIDE DEF Positions
<1>1. f \in [R -> Positions(s)]
  OBVIOUS
<1>2. f \in Injection(R, Positions(s))
  BY <1>1 DEF Injection, IsInjective
<1>3. f \in Surjection(R, Positions(s))
  BY <1>1 DEF Surjection
<1> HIDE DEF f
<1>4. f \in Bijection(R, Positions(s))
  BY <1>2, <1>3 DEF Bijection
<1>5. IsFiniteSet(R)
  <2>1. IsFiniteSet(1..Total)
    BY FS_Interval, LayoutAssumption
  <2> QED
    BY <2>1, FS_Subset
<1> QED
  BY <1>4, <1>5, FS_Bijection DEF ExistsBijection

\* One sound row for each position leaves no row over.
LEMMA NoRowLeft ==
    ASSUME WellFormed, sheet \in Seq(Row)
    PROVE  /\ \A i \in 1..Total : \E p \in 1..Total : SoundAt(sheet[i], p)
           /\ \A i, j \in 1..Total : i # j => sheet[i].position # sheet[j].position
<1> DEFINE f == [p \in 1..Total |-> CHOOSE i \in 1..Total : SoundAt(sheet[i], p)]
<1>1. \A p \in 1..Total : \E i \in 1..Total : SoundAt(sheet[i], p)
  BY DEF WellFormed
<1>2. \A p \in 1..Total : f[p] \in 1..Total /\ SoundAt(sheet[f[p]], p)
  BY <1>1
<1> HIDE DEF f
<1>3. \A p \in 1..Total : sheet[f[p]].position = p
  BY <1>2 DEF SoundAt
<1>4. f \in Injection(1..Total, 1..Total)
  <2>1. f \in [1..Total -> 1..Total]
    BY <1>2 DEF f
  <2> QED
    BY <1>3, <2>1 DEF Injection, IsInjective
<1>5. IsFiniteSet(1..Total)
  BY FS_Interval, LayoutAssumption
<1>6. f \in Surjection(1..Total, 1..Total)
  BY <1>4, <1>5, FS_Injection
<1>7. \A i \in 1..Total : \E p \in 1..Total : i = f[p]
  BY <1>6 DEF Surjection
<1>8. \A i \in 1..Total : \E p \in 1..Total : SoundAt(sheet[i], p)
  BY <1>2, <1>7
<1>9. ASSUME NEW i \in 1..Total, NEW j \in 1..Total, sheet[i].position = sheet[j].position
      PROVE  i = j
  <2>1. PICK p \in 1..Total, q \in 1..Total : i = f[p] /\ j = f[q]
    BY <1>7
  <2>2. p = q
    BY <1>3, <1>9, <2>1
  <2> QED
    BY <2>1, <2>2
<1> QED
  BY <1>8, <1>9

-----------------------------------------------------------------------------
(* The verdict. *)

\* The rows that are told are those that cannot stay.
LEMMA ToldRows ==
    ASSUME ImportInv, NEW i \in 1..Len(sheet)
    PROVE  /\ GoodRow(i) <=> \E p \in 1..Total : SoundAt(sheet[i], p)
           /\ Repeated(i) <=> \E j \in 1..(i - 1) : \E p \in 1..Total :
                                 SoundAt(sheet[i], p) /\ SoundAt(sheet[j], p)
<1>1. \A j \in 1..Len(sheet) :
         /\ GoodRow(j) <=> SoundAt(sheet[j], sheet[j].position)
                             /\ sheet[j].position \in 1..Total
         /\ \A p \in 1..Total : SoundAt(sheet[j], p) => p = sheet[j].position
  <2> TAKE j \in 1..Len(sheet)
  <2>1. sheet[j] \in Row
    BY DEF ImportInv
  <2> QED
    BY <2>1, RowErrorsAreExact DEF GoodRow
<1>2. \A j \in 1..(i - 1) : j \in 1..Len(sheet)
  BY DEF ImportInv
<1>3. GoodRow(i) <=> \E p \in 1..Total : SoundAt(sheet[i], p)
  BY <1>1
<1>4. ASSUME NEW j \in 1..(i - 1)
      PROVE  GoodRow(i) /\ GoodRow(j) /\ sheet[j].position = sheet[i].position
               <=> \E p \in 1..Total : SoundAt(sheet[i], p) /\ SoundAt(sheet[j], p)
  BY <1>1, <1>2
<1> QED
  BY <1>3, <1>4 DEF Repeated

\* A sheet is taken if and only if it is well formed, and then its rows are
\* the positions, once each.
LEMMA TakenIsWhole ==
    ASSUME ImportInv, result = "test"
    PROVE  /\ WellFormed /\ Len(questions) = Total
           /\ \A i \in 1..Total : /\ questions[i] = Question(sheet[i])
                                  /\ sheet[i] \in Row
                                  /\ sheet[i].position \in 1..Total
                                  /\ SoundAt(sheet[i], sheet[i].position)
           /\ \A i, j \in 1..Total : i # j => sheet[i].position # sheet[j].position
           /\ \A p \in 1..Total : \E i \in 1..Total : sheet[i].position = p
<1>1. errors = {} /\ line = Len(sheet) + 1 /\ Len(sheet) = Total /\ Done = 1..Total
  <2>1. errors = {} /\ line = Len(sheet) + 1 /\ Len(sheet) = Total
    BY DEF ImportInv, Judged
  <2> QED
    BY <2>1, LayoutAssumption DEF Done
<1>2. \A i \in 1..Total : GoodRow(i) /\ ~Repeated(i)
  BY <1>1 DEF ImportInv, Kept
<1>3. ASSUME NEW i \in 1..Total
      PROVE  /\ sheet[i] \in Row /\ sheet[i].position \in 1..Total
             /\ SoundAt(sheet[i], sheet[i].position)
  <2>1. sheet[i] \in Row
    BY <1>1 DEF ImportInv
  <2> QED
    BY <1>2, <2>1, RowErrorsAreExact DEF GoodRow
<1>4. ASSUME NEW i \in 1..Total, NEW j \in 1..Total, i # j
      PROVE  sheet[i].position # sheet[j].position
  <2>1. j \in 1..(i - 1) \/ i \in 1..(j - 1)
    BY <1>4, LayoutAssumption
  <2> QED
    BY <1>2, <2>1 DEF Repeated
<1>5. \A p \in 1..Total : \E i \in 1..Total : sheet[i].position = p
  BY <1>1, <1>3, <1>4, AllPositions
<1>6. /\ Len(questions) = Total
      /\ \A i \in 1..Total : questions[i] = Question(sheet[i])
  BY <1>1, <1>2, LayoutAssumption DEF ImportInv, Kept
<1>7. WellFormed
  BY <1>1, <1>3, <1>5 DEF WellFormed
<1> QED
  BY <1>3, <1>4, <1>5, <1>6, <1>7

LEMMA WholeIsTaken ==
    ASSUME ImportInv, result # "none", WellFormed
    PROVE  result = "test"
<1>1. line = Len(sheet) + 1 /\ Len(sheet) = Total /\ Done = 1..Total /\ sheet \in Seq(Row)
  <2>1. line = Len(sheet) + 1 /\ Len(sheet) = Total /\ sheet \in Seq(Row)
    BY DEF ImportInv, Judged, WellFormed
  <2> QED
    BY <2>1, LayoutAssumption DEF Done
<1>2. /\ \A i \in 1..Total : \E p \in 1..Total : SoundAt(sheet[i], p)
      /\ \A i, j \in 1..Total : i # j => sheet[i].position # sheet[j].position
  BY <1>1, NoRowLeft
<1>3. \A i \in 1..Total : GoodRow(i)
  BY <1>1, <1>2, ToldRows
<1>4. \A i \in 1..Total : ~Repeated(i)
  <2> TAKE i \in 1..Total
  <2>1. \A j \in 1..(i - 1) : j \in 1..Total /\ j # i
    BY LayoutAssumption
  <2> QED
    BY <1>2, <2>1 DEF Repeated
<1>5. \A i \in 1..Total : sheet[i].position \in Positions(sheet[i].section)
  <2> TAKE i \in 1..Total
  <2>1. PICK p \in 1..Total : SoundAt(sheet[i], p)
    BY <1>2
  <2> QED
    BY <2>1, SectionOf DEF SoundAt
<1>6. ASSUME NEW s \in Section
      PROVE  counts[s] = Cardinality(Positions(s))
  <2> DEFINE R == {i \in Done : GoodRow(i) /\ sheet[i].section = s}
  <2>1. R \subseteq 1..Total /\ \A i \in R : sheet[i].position \in Positions(s)
    BY <1>1, <1>5
  <2>2. \A i, j \in R : i # j => sheet[i].position # sheet[j].position
    BY <1>2, <2>1
  <2>3. ASSUME NEW p \in Positions(s) PROVE \E i \in R : sheet[i].position = p
    <3>1. p \in 1..Total /\ SectionForPosition(p) = s
      BY <2>3, SectionOf
    <3>2. PICK i \in 1..Total : SoundAt(sheet[i], p)
      BY <1>1, <3>1 DEF WellFormed
    <3> QED
      BY <1>1, <1>3, <3>1, <3>2 DEF SoundAt
  <2> HIDE DEF R
  <2>4. Cardinality(R) = Cardinality(Positions(s))
    BY <2>1, <2>2, <2>3, SectionCount
  <2> QED
    BY <2>4 DEF R, ImportInv, Kept
<1>7. ~\E e \in errors : e[1] = 0
  BY <1>1, <1>6 DEF ImportInv, Judged
<1>8. \A i \in Done : ~\E e \in errors : e[1] = i
  BY <1>1, <1>3, <1>4 DEF ImportInv, Kept
<1>9. errors = {}
  BY <1>7, <1>8 DEF ImportInv, Kept
<1> QED
  BY <1>9 DEF ImportInv, Judged

\* Each section of a taken sheet has its questions.
LEMMA TakenIsComplete ==
    ASSUME ImportInv, result = "test"
    PROVE  CompletenessErrors(questions) = {}
<1>1. /\ Len(questions) = Total
      /\ \A i \in 1..Total : /\ questions[i] = Question(sheet[i])
                             /\ sheet[i].position \in 1..Total
                             /\ SoundAt(sheet[i], sheet[i].position)
      /\ \A i, j \in 1..Total : i # j => sheet[i].position # sheet[j].position
      /\ \A p \in 1..Total : \E i \in 1..Total : sheet[i].position = p
  BY TakenIsWhole
<1>2. \A i \in 1..Total : /\ questions[i].position = sheet[i].position
                          /\ questions[i].section = sheet[i].section
  BY <1>1 DEF Question
<1>3. \A i, j \in 1..Total : i < j => questions[i].position # questions[j].position
  <2> SUFFICES ASSUME NEW i \in 1..Total, NEW j \in 1..Total, i < j
               PROVE  questions[i].position # questions[j].position
    OBVIOUS
  <2>1. i # j
    BY LayoutAssumption
  <2>2. sheet[i].position # sheet[j].position
    BY <1>1, <2>1
  <2> QED
    BY <1>2, <2>2
<1>4. ASSUME NEW s \in Section
      PROVE  Cardinality({i \in 1..Total : questions[i].section = s})
                = Cardinality(Positions(s))
  <2> DEFINE R == {i \in 1..Total : questions[i].section = s}
  <2>1. R \subseteq 1..Total
    OBVIOUS
  <2>2. \A i \in R : sheet[i].position \in Positions(s)
    BY <1>1, <1>2, SectionOf DEF SoundAt
  <2>3. \A i, j \in R : i # j => sheet[i].position # sheet[j].position
    BY <1>1
  <2>4. ASSUME NEW p \in Positions(s) PROVE \E i \in R : sheet[i].position = p
    <3>1. p \in 1..Total /\ SectionForPosition(p) = s
      BY <2>4, SectionOf
    <3>2. PICK i \in 1..Total : sheet[i].position = p
      BY <1>1, <3>1
    <3>3. sheet[i].section = s
      BY <1>1, <3>1, <3>2 DEF SoundAt
    <3> QED
      BY <1>2, <3>2, <3>3
  <2> HIDE DEF R
  <2>5. Cardinality(R) = Cardinality(Positions(s))
    BY <2>1, <2>2, <2>3, <2>4, SectionCount
  <2> QED
    BY <2>5 DEF R
<1>5. /\ Message(Len(questions) # Total, "count") = {}
      /\ Message(\E i, j \in 1..Len(questions) :
                   i < j /\ questions[i].position = questions[j].position, "twice") = {}
  BY <1>1, <1>3 DEF Message
<1>6. Message(Len(questions) = Total /\ \E s \in Section :
                Cardinality({i \in 1..Len(questions) : questions[i].section = s})
                  # Cardinality(Positions(s)), "sections") = {}
  BY <1>1, <1>4 DEF Message
<1> QED
  BY <1>5, <1>6 DEF CompletenessErrors

\* What the editor makes of one position, and saves again.
Saved(p) ==
    [section |-> SectionForPosition(p), position |-> p,
     texts |-> Cards(questions)[p].texts, image |-> Cards(questions)[p].image,
     fits |-> Cards(questions)[p].fits]

LEMMA CardsOfATest ==
    ASSUME ImportInv, result = "test", NEW p \in 1..Total
    PROVE  /\ Cards(questions)[p].filled = "all"
           /\ CardErrors(p, Cards(questions)[p]) = {}
           /\ \E i \in 1..Total : sheet[i].position = p /\ questions[i] = Saved(p)
<1>1. /\ Len(questions) = Total
      /\ \A i \in 1..Total : /\ questions[i] = Question(sheet[i])
                             /\ SoundAt(sheet[i], sheet[i].position)
                             /\ sheet[i] \in Row
      /\ \E i \in 1..Total : sheet[i].position = p
  BY TakenIsWhole
<1>2. \A i \in 1..Total : questions[i].position = sheet[i].position
  BY <1>1 DEF Question
<1>3. PICK i \in 1..Total : /\ sheet[i].position = p
                            /\ Cards(questions)[p] = Card(questions[i])
  <2>1. \E i \in 1..Len(questions) : questions[i].position = p
    BY <1>1, <1>2
  <2>2. PICK i \in 1..Len(questions) :
            /\ questions[i].position = p
            /\ i = CHOOSE j \in 1..Len(questions) : questions[j].position = p
    BY <2>1
  <2>3. Cards(questions)[p] = Card(questions[i])
    BY <2>1, <2>2 DEF Cards
  <2> QED
    BY <1>1, <1>2, <2>2, <2>3
<1>4. /\ questions[i] = [section |-> sheet[i].section, position |-> p,
                         texts |-> TRUE, image |-> HasImage(sheet[i]),
                         fits |-> sheet[i].fits]
      /\ HasImage(sheet[i]) => sheet[i].fits
      /\ sheet[i].section = SectionForPosition(p)
  BY <1>1, <1>3 DEF Question, SoundAt, HasImage, Row
<1>5. /\ Cards(questions)[p].filled = "all" /\ Cards(questions)[p].texts = TRUE
      /\ Cards(questions)[p].image = HasImage(sheet[i])
      /\ Cards(questions)[p].fits = sheet[i].fits
  BY <1>3, <1>4 DEF Card
<1>6. questions[i] = Saved(p)
  BY <1>4, <1>5 DEF Saved
<1>7. PlaceErrors(SectionForPosition(p), p) = {}
  BY SectionOf DEF PlaceErrors, Message
<1>8. TextErrors(TRUE, HasImage(sheet[i]), sheet[i].fits) = {}
  BY <1>4 DEF TextErrors, Message
<1>9. CardErrors(p, Cards(questions)[p]) = {}
  BY <1>5, <1>7, <1>8 DEF CardErrors, FieldErrors
<1> QED
  BY <1>3, <1>5, <1>6, <1>9

\* The editor, opened on a taken test, saves its questions.
LEMMA SavedUnchanged ==
    ASSUME ImportInv, result = "test"
    PROVE  ToSet(FormDrafts(Cards(questions))) = ToSet(questions)
<1> DEFINE cards == Cards(questions)
           good(p) == cards[p].filled # "none" /\ CardErrors(p, cards[p]) = {}
           nth(i) == CHOOSE p \in 1..Total :
                        good(p) /\ Cardinality({r \in 1..p : good(r)}) = i
<1>1. \A p \in 1..Total : good(p)
  BY CardsOfATest
<1>2. {p \in 1..Total : good(p)} = 1..Total /\ Cardinality(1..Total) = Total
  <2>1. Cardinality(1..Total) = Total
    BY FS_Interval, LayoutAssumption
  <2> QED
    BY <1>1, <2>1
<1>3. ASSUME NEW p \in 1..Total
      PROVE  Cardinality({r \in 1..p : good(r)}) = p
  <2>1. {r \in 1..p : good(r)} = 1..p
    BY <1>1, LayoutAssumption
  <2>2. Cardinality(1..p) = p
    BY FS_Interval
  <2> QED
    BY <2>1, <2>2
<1>4. FormDrafts(cards) = [i \in 1..Total |-> Saved(nth(i))]
  BY <1>2 DEF FormDrafts, Saved
<1> HIDE DEF good
<1>5. \A i \in 1..Total : nth(i) = i
  <2> TAKE i \in 1..Total
  <2>1. \A p \in 1..Total :
           good(p) /\ Cardinality({r \in 1..p : good(r)}) = i <=> p = i
    BY <1>1, <1>3
  <2> QED
    BY <2>1
<1> HIDE DEF nth
<1>6. ToSet(FormDrafts(cards)) = {Saved(p) : p \in 1..Total}
  BY <1>4, <1>5 DEF ToSet
<1>7. /\ DOMAIN questions = 1..Total
      /\ \A i \in 1..Total : sheet[i].position \in 1..Total
      /\ \A i, j \in 1..Total : i # j => sheet[i].position # sheet[j].position
  <2>1. \E Q : questions \in Seq(Q)
    BY DEF ImportInv
  <2>2. Len(questions) = Total
    BY TakenIsWhole
  <2>3. DOMAIN questions = 1..Total
    BY <2>1, <2>2
  <2> QED
    BY <2>3, TakenIsWhole
<1>8. \A p \in 1..Total : \E i \in 1..Total :
         sheet[i].position = p /\ questions[i] = Saved(p)
  BY CardsOfATest
<1>9. \A i \in 1..Total : questions[i] = Saved(sheet[i].position)
  BY <1>7, <1>8
<1>10. ToSet(questions) = {Saved(p) : p \in 1..Total}
  <2>1. ToSet(questions) = {questions[i] : i \in 1..Total}
    BY <1>7 DEF ToSet
  <2>2. ASSUME NEW p \in 1..Total PROVE \E i \in 1..Total : questions[i] = Saved(p)
    BY <1>8
  <2>3. ASSUME NEW i \in 1..Total PROVE \E p \in 1..Total : questions[i] = Saved(p)
    BY <1>7, <1>9
  <2> QED
    BY <2>1, <2>2, <2>3
<1> QED
  BY <1>6, <1>10

\* A sheet becomes a test if and only if it is well formed; the rows that are
\* told are those that cannot stay; and a test that is taken passes the gate of
\* publishing and comes back unchanged from the editor.
THEOREM ImportsAreExact == SpecImport => []ImportIsExact
<1>1. ASSUME ImportInv PROVE ImportIsExact
  <2> SUFFICES ASSUME result # "none" PROVE ImportIsExact
    BY DEF ImportIsExact
  <2>1. result = "test" <=> WellFormed
    BY <1>1, TakenIsWhole, WholeIsTaken
  <2>2. ASSUME NEW i \in 1..Len(sheet)
        PROVE  (\E e \in errors : e[1] = i) <=>
                 \/ ~\E p \in 1..Total : SoundAt(sheet[i], p)
                 \/ \E j \in 1..(i - 1) :
                      \E p \in 1..Total : SoundAt(sheet[i], p) /\ SoundAt(sheet[j], p)
    <3>1. i \in Done
      BY <1>1 DEF ImportInv, Judged, Done
    <3> QED
      BY <1>1, <3>1, ToldRows DEF ImportInv, Kept
  <2>3. ASSUME result = "test"
        PROVE  /\ CompletenessErrors(questions) = {}
               /\ \A p \in 1..Total : CardErrors(p, Cards(questions)[p]) = {}
               /\ ToSet(FormDrafts(Cards(questions))) = ToSet(questions)
    BY <1>1, <2>3, TakenIsComplete, CardsOfATest, SavedUnchanged
  <2> QED
    BY <2>1, <2>2, <2>3 DEF ImportIsExact
<1> QED
  BY <1>1, ImportInvariance, PTL
=============================================================================
