------------------------ MODULE StudentFunnel_proofs ------------------------
(***************************************************************************)
(* Theorems about StudentFunnel, for any number of concurrent activations, *)
(* any cap on pending receipts and any bounds.                             *)
(***************************************************************************)
EXTENDS StudentFunnel, FiniteSetTheorems, TLAPS

-----------------------------------------------------------------------------
(* What each kind of step does to the transactions. *)

\* Only the activation of p changes: its transaction becomes t, its place l.
Moves(p, t, l) ==
    /\ tx' \in [Worker -> TxType] /\ pc' \in [Worker -> Place]
    /\ tx'[p] = t /\ pc'[p] = l
    /\ \A o \in Worker : o # p => tx'[o] = tx[o] /\ pc'[o] = pc[o]

LEMMA BlankTypes == NoUser \in UserRow /\ NoReceipt \in ReceiptRow
                        /\ NoTx \in TxType
<1>1. NoUser \in UserRow
  BY LimitsAssumption DEF NoUser, UserRow, UserStatus, None
<1>2. NoReceipt \in ReceiptRow
  BY DEF NoReceipt, ReceiptRow
<1> QED
  BY <1>1, <1>2 DEF NoTx, TxType, StudentOp

LEMMA MovesTo ==
    ASSUME TypeOK, NEW p \in Worker, NEW t \in TxType, NEW l \in Place,
           tx' = [tx EXCEPT ![p] = t], Goto(p, l)
    PROVE  Moves(p, t, l)
BY DEF TypeOK, Goto, Moves

LEMMA EndedMoves ==
    ASSUME TypeOK, NEW p \in Worker, Ended(p)
    PROVE  Moves(p, NoTx, "idle")
BY BlankTypes, MovesTo DEF Ended, Place

LEMMA BeginMoves ==
    ASSUME TypeOK, NEW p \in Worker, NEW r \in Request, Begin(p, r)
    PROVE  Moves(p, [NoTx EXCEPT !.op = r.op, !.target = r.receipt,
                                 !.snap = user, !.pending = Pending(receipts)],
                 "handle")
<1> DEFINE t == [NoTx EXCEPT !.op = r.op, !.target = r.receipt,
                             !.snap = user, !.pending = Pending(receipts)]
<1>1. r.op \in StudentOp \cup AdminOp /\ r.receipt \in ReceiptId \cup {None}
  BY DEF Request, AdminOp
<1>2. user \in UserRow /\ Pending(receipts) \subseteq ReceiptId
  BY DEF TypeOK, Pending
<1>3. t \in TxType
  BY <1>1, <1>2, BlankTypes DEF TxType, NoTx
<1>4. "handle" \in Place
  BY DEF Place
<1> QED
  BY <1>3, <1>4, MovesTo DEF Begin

LEMMA WriteUserMoves ==
    ASSUME TypeOK, NEW p \in Worker, NEW to \in UserRow,
           WriteUser(p, to), Goto(p, "commit")
    PROVE  Moves(p, [tx[p] EXCEPT !.lock = "X", !.row = to], "commit")
<1> DEFINE t == [tx[p] EXCEPT !.lock = "X", !.row = to]
<1>1. tx[p] \in TxType /\ tx \in [Worker -> TxType]
  BY DEF TypeOK
<1>2. t \in TxType
  BY <1>1 DEF TxType
<1>3. tx' = [tx EXCEPT ![p] = t]
  BY <1>1 DEF WriteUser
<1>4. "commit" \in Place
  BY DEF Place
<1> QED
  BY <1>2, <1>3, <1>4, MovesTo

LEMMA SetStatusMoves ==
    ASSUME TypeOK, NEW p \in Worker, NEW s \in UserStatus,
           SetStatus(p, s), Goto(p, "commit")
    PROVE  Moves(p, [tx[p] EXCEPT !.lock = "X",
                                  !.row = [user EXCEPT !.status = s]],
                 "commit")
<1>1. [user EXCEPT !.status = s] \in UserRow
  BY DEF TypeOK, UserRow
<1> QED
  BY <1>1, WriteUserMoves DEF SetStatus

LEMMA SubmitMoves ==
    ASSUME TypeOK, NEW p \in Worker, Submit(p)
    PROVE  \E t \in TxType :
              /\ Moves(p, t, "post")
              /\ t.receipt = nextId /\ t.snap = tx[p].snap
              /\ t.op = tx[p].op /\ t.pending = tx[p].pending
              /\ t.record.status = "pending"
              /\ \/ /\ t.lock = "X" /\ CanWrite(p)
                    /\ t.row = [user EXCEPT !.status = "pending_approval"]
                    /\ tx[p].snap.status # "banned"
                 \/ t.lock = "S" /\ CanShare(p)
<1> DEFINE rec == [NoReceipt EXCEPT !.status = "pending"]
           goes == tx[p].snap.status \in {"pending_payment", "rejected"}
           row == IF goes THEN [user EXCEPT !.status = "pending_approval"]
                  ELSE tx[p].row
           lck == IF goes THEN "X" ELSE "S"
           t == [tx[p] EXCEPT !.receipt = nextId, !.record = rec,
                              !.lock = lck, !.row = row]
<1>1. tx[p] \in TxType /\ tx \in [Worker -> TxType] /\ user \in UserRow
  BY DEF TypeOK
<1>2. nextId \in ReceiptId
  BY LimitsAssumption DEF Submit, TypeOK, ReceiptId
<1>3. rec \in ReceiptRow /\ rec.status = "pending"
  BY DEF NoReceipt, ReceiptRow
<1>4. row \in UserRow
  BY <1>1 DEF UserRow, UserStatus, TxType
<1>5. lck \in {"S", "X"}
  OBVIOUS
<1>6. t \in TxType
  <2> HIDE DEF rec, row, lck
  <2> QED BY <1>1, <1>2, <1>3, <1>4, <1>5 DEF TxType
<1>7. tx' = [tx EXCEPT ![p] = t]
  BY <1>1 DEF Submit
<1>8. Moves(p, t, "post")
  <2>1. "post" \in Place /\ Goto(p, "post")
    BY DEF Place, Submit
  <2> HIDE DEF t
  <2> QED BY <1>6, <1>7, <2>1, MovesTo
<1>9. /\ t.receipt = nextId /\ t.snap = tx[p].snap /\ t.lock = lck /\ t.row = row
      /\ t.op = tx[p].op /\ t.pending = tx[p].pending /\ t.record = rec
  BY <1>1 DEF TxType
<1>10. IF goes THEN CanWrite(p) ELSE CanShare(p)
  BY DEF Submit
<1> HIDE DEF t, rec
<1> QED
  BY <1>3, <1>6, <1>8, <1>9, <1>10

LEMMA ResolveMoves ==
    ASSUME TypeOK, NEW p \in Worker, NEW r \in ReceiptId,
           NEW verdict \in {"approved", "rejected"}, NEW to \in UserRow,
           NEW fate \in {"approved", "rejected", "refused"},
           Resolve(p, r, verdict, to, fate)
    PROVE  \E t \in TxType, l \in {"announce", "commit"} :
              /\ Moves(p, t, l)
              /\ t.receipt = r /\ t.snap = tx[p].snap
              /\ t.lock = "X" /\ t.row = to /\ t.record.status = verdict
              /\ t.op = tx[p].op
              /\ l = "announce" => t.fate = fate /\ fate # "refused"
<1> DEFINE rec == [receipts[r] EXCEPT !.status = verdict]
           l == IF fate = "refused" THEN "commit" ELSE "announce"
           t == [tx[p] EXCEPT !.lock = "X", !.row = to, !.receipt = r,
                              !.record = rec, !.fate = fate]
<1>1. tx[p] \in TxType /\ tx \in [Worker -> TxType]
  BY DEF TypeOK
<1>2. rec \in ReceiptRow /\ rec.status = verdict
  BY DEF ReceiptRow, TypeOK
<1>3. t \in TxType
  <2> HIDE DEF rec
  <2> QED BY <1>1, <1>2 DEF TxType
<1>4. tx' = [tx EXCEPT ![p] = t]
  BY <1>1 DEF Resolve
<1>5. l \in {"announce", "commit"} /\ l \in Place /\ Goto(p, l)
  BY DEF Place, Resolve
<1>6. Moves(p, t, l)
  <2> HIDE DEF t, l
  <2> QED BY <1>3, <1>4, <1>5, MovesTo
<1>7. /\ t.receipt = r /\ t.snap = tx[p].snap /\ t.lock = "X" /\ t.row = to
      /\ t.record = rec /\ t.fate = fate /\ t.op = tx[p].op
  BY <1>1 DEF TxType
<1> HIDE DEF t, rec
<1> QED
  BY <1>2, <1>3, <1>5, <1>6, <1>7

\* A review writes a verdict on a receipt that is pending and free, and a row
\* that is approved only if it is stamped.
LEMMA ReviewMoves ==
    ASSUME TypeOK, NEW p \in Worker, Review(p)
    PROVE  \E r \in ReceiptId, t \in TxType, l \in {"announce", "commit"} :
              /\ Handling(p, "approve") \/ Handling(p, "reason")
              /\ CanWrite(p) /\ ReceiptFree(p, r)
              /\ receipts[r].status = "pending"
              /\ Moves(p, t, l)
              /\ t.receipt = r /\ t.snap = tx[p].snap /\ t.lock = "X"
              /\ t.op = tx[p].op /\ t.record.status \in {"approved", "rejected"}
              /\ l = "announce" => /\ t.fate \in {"approved", "rejected"}
                                   /\ t.record.status = t.fate
              /\ \/ /\ t.record.status = "approved" /\ user.status # "banned"
                    /\ t.row = [user EXCEPT !.status = "approved",
                                            !.stamped = TRUE]
                 \/ t.row = user /\ user.status = "banned"
                 \/ /\ t.record.status = "rejected" /\ user.status # "banned"
                    /\ t.row = [user EXCEPT !.status = "rejected"]
<1>1. PICK r \in ReceiptId : Approve(p, r) \/ Reject(p, r)
  BY DEF Review
<1>2. user \in UserRow
  BY DEF TypeOK
<1>3. [user EXCEPT !.status = "approved", !.stamped = TRUE] \in UserRow
  BY <1>2 DEF UserRow, UserStatus
<1>4. [user EXCEPT !.status = "rejected"] \in UserRow
  BY <1>2 DEF UserRow, UserStatus
<1>5. CASE Approve(p, r)
  <2>1. CASE user.status # "banned"
    <3>1. Resolve(p, r, "approved",
                  [user EXCEPT !.status = "approved", !.stamped = TRUE],
                  "approved")
      BY <1>5, <2>1 DEF Approve
    <3>2. Handling(p, "approve") /\ CanWrite(p) /\ ReceiptFree(p, r)
            /\ receipts[r].status = "pending"
      BY <1>5 DEF Approve
    <3>3. PICK t \in TxType, l \in {"announce", "commit"} :
             /\ Moves(p, t, l)
             /\ t.receipt = r /\ t.snap = tx[p].snap
             /\ t.lock = "X" /\ t.record.status = "approved"
             /\ t.row = [user EXCEPT !.status = "approved", !.stamped = TRUE]
             /\ t.op = tx[p].op
             /\ l = "announce" => t.fate = "approved"
      BY <1>3, <3>1, ResolveMoves
    <3> QED BY <2>1, <3>2, <3>3
  <2>2. CASE user.status = "banned"
    <3>1. PICK fate \in {"approved", "refused"} :
             Resolve(p, r, "approved", user, fate)
      BY <1>5, <2>2 DEF Approve
    <3>2. Handling(p, "approve") /\ CanWrite(p) /\ ReceiptFree(p, r)
            /\ receipts[r].status = "pending"
      BY <1>5 DEF Approve
    <3>3. PICK t \in TxType, l \in {"announce", "commit"} :
             /\ Moves(p, t, l)
             /\ t.receipt = r /\ t.snap = tx[p].snap
             /\ t.lock = "X" /\ t.row = user /\ t.record.status = "approved"
             /\ t.op = tx[p].op
             /\ l = "announce" => t.fate = fate /\ fate # "refused"
      BY <1>2, <3>1, ResolveMoves
    <3> QED BY <2>2, <3>2, <3>3
  <2> QED BY <2>1, <2>2
<1>6. CASE Reject(p, r)
  <2>1. \E to \in {user, [user EXCEPT !.status = "rejected"]} :
           /\ Resolve(p, r, "rejected", to, "rejected")
           /\ \/ to = user /\ user.status = "banned"
              \/ /\ to = [user EXCEPT !.status = "rejected"]
                 /\ user.status # "banned"
    BY <1>6 DEF Reject
  <2>2. Handling(p, "reason") /\ CanWrite(p) /\ ReceiptFree(p, r)
          /\ receipts[r].status = "pending"
    BY <1>6 DEF Reject
  <2> QED BY <1>2, <1>4, <2>1, <2>2, ResolveMoves
<1> QED
  BY <1>1, <1>5, <1>6

LEMMA PostMoves ==
    ASSUME TypeOK, NEW p \in Worker, PostCard(p)
    PROVE  \E t \in TxType :
              /\ Moves(p, t, "commit")
              /\ t.receipt = tx[p].receipt /\ t.snap = tx[p].snap
              /\ t.lock = tx[p].lock /\ t.row = tx[p].row /\ t.op = tx[p].op
              /\ t.pending = tx[p].pending
              /\ t.record.status = tx[p].record.status
<1> DEFINE rec == [tx[p].record EXCEPT !.posted = TRUE]
           t == [tx[p] EXCEPT !.record = rec]
<1>1. tx[p] \in TxType /\ tx \in [Worker -> TxType]
  BY DEF TypeOK
<1>2. rec \in ReceiptRow /\ rec.status = tx[p].record.status
  BY <1>1 DEF TxType, ReceiptRow
<1>3. t \in TxType
  <2> HIDE DEF rec
  <2> QED BY <1>1, <1>2 DEF TxType
<1>4. "commit" \in Place /\ Goto(p, "commit")
  BY DEF Place, PostCard
<1>5. /\ t.receipt = tx[p].receipt /\ t.snap = tx[p].snap
      /\ t.lock = tx[p].lock /\ t.row = tx[p].row /\ t.record = rec
      /\ t.op = tx[p].op /\ t.pending = tx[p].pending
  BY <1>1 DEF TxType
<1>6. CASE tx' = [tx EXCEPT ![p].record.posted = TRUE]
  <2>1. tx' = [tx EXCEPT ![p] = t]
    BY <1>1, <1>6
  <2>2. Moves(p, t, "commit")
    <3> HIDE DEF t
    <3> QED BY <1>3, <1>4, <2>1, MovesTo
  <2> HIDE DEF t, rec
  <2> QED BY <1>2, <1>3, <1>5, <2>2
<1>7. CASE tx' = tx
  <2>1. tx' = [tx EXCEPT ![p] = tx[p]]
    BY <1>1, <1>7
  <2>2. Moves(p, tx[p], "commit")
    BY <1>1, <1>4, <2>1, MovesTo
  <2> QED BY <1>1, <2>2
<1> QED
  BY <1>6, <1>7 DEF PostCard

\* A step that only moves in the handler.
LEMMA StayMoves ==
    ASSUME TypeOK, NEW p \in Worker, NEW l \in Place, Goto(p, l), tx' = tx
    PROVE  Moves(p, tx[p], l)
<1>1. tx[p] \in TxType /\ tx' = [tx EXCEPT ![p] = tx[p]]
  BY DEF TypeOK
<1> QED
  BY <1>1, MovesTo

-----------------------------------------------------------------------------
(* The inductive invariant. *)

IInv == TypeOK /\ TxDiscipline

\* What a transaction may become, given what the others hold.
Sound(p, t, l) ==
    /\ l \in {"idle", "handle", "submit"} =>
          t.lock = "none" /\ t.receipt = None
    /\ l = "announce" => t.fate \in {"approved", "rejected"}
    /\ t.lock = "X" => CanWrite(p)
    /\ t.lock # "none" => CanShare(p)
    /\ t.receipt # None =>
          /\ ReceiptFree(p, t.receipt)
          /\ t.receipt < nextId'
          /\ receipts[t.receipt].status \in {"absent", "pending"}
    /\ t.snap.stamped => user.stamped
    /\ t.lock = "X" =>
          /\ user.stamped => t.row.stamped
          /\ t.row.status = "approved" => t.row.stamped
          /\ t.row.stamped =>
                \/ user.stamped
                \/ t.receipt # None /\ t.record.status = "approved"

LEMMA SoundMoves ==
    ASSUME IInv, NEW p \in Worker, NEW t \in TxType, NEW l \in Place,
           Moves(p, t, l), Sound(p, t, l),
           UNCHANGED db, nextId' \in Nat, nextId' >= nextId
    PROVE  TxDiscipline'
<1>1. nextId \in Nat /\ \A o \in Worker : tx[o] \in TxType
  BY LimitsAssumption DEF IInv, TypeOK
<1>2. \A r \in ReceiptId : r >= nextId' => receipts'[r].status = "absent"
  BY <1>1 DEF IInv, TxDiscipline, ReceiptId, db
<1>3. ASSUME NEW q \in Worker
      PROVE  /\ pc'[q] \in {"idle", "handle", "submit"} =>
                   tx'[q].lock = "none" /\ tx'[q].receipt = None
             /\ pc'[q] = "announce" =>
                   tx'[q].fate \in {"approved", "rejected"}
             /\ \A o \in Worker \ {q} :
                   /\ tx'[q].lock = "X" => tx'[o].lock = "none"
                   /\ tx'[q].receipt # None =>
                         tx'[o].receipt # tx'[q].receipt
  <2>1. CASE q = p
    BY <2>1 DEF Moves, Sound, CanWrite, ReceiptFree
  <2>2. CASE q # p
    <3>1. tx'[q] = tx[q] /\ pc'[q] = pc[q]
      BY <2>2 DEF Moves
    <3>2. ASSUME NEW o \in Worker \ {q}
          PROVE  /\ tx[q].lock = "X" => tx'[o].lock = "none"
                 /\ tx[q].receipt # None => tx'[o].receipt # tx[q].receipt
      <4>1. CASE o = p
        <5>1. t.lock \in {"none", "S", "X"}
          BY DEF TxType
        <5> QED BY <2>2, <4>1, <5>1
                DEF Moves, Sound, CanWrite, CanShare, ReceiptFree
      <4>2. CASE o # p
        BY <4>2 DEF Moves, IInv, TxDiscipline
      <4> QED BY <4>1, <4>2
    <3> QED BY <3>1, <3>2 DEF IInv, TxDiscipline
  <2> QED BY <2>1, <2>2
<1>4. ASSUME NEW q \in Worker, tx'[q].receipt # None
      PROVE  /\ tx'[q].receipt < nextId'
             /\ receipts[tx'[q].receipt].status \in {"absent", "pending"}
  <2>1. CASE q = p
    BY <1>4, <2>1 DEF Moves, Sound
  <2>2. CASE q # p
    <3>1. tx'[q] = tx[q] /\ tx[q].receipt \in Nat
      BY <1>1, <2>2, LimitsAssumption DEF Moves, TxType, ReceiptId, None
    <3> QED BY <1>1, <1>4, <3>1 DEF IInv, TxDiscipline
  <2> QED BY <2>1, <2>2
<1>5. ASSUME NEW q \in Worker
      PROVE  /\ tx'[q].snap.stamped => user.stamped
             /\ tx'[q].lock = "X" =>
                   /\ user.stamped => tx'[q].row.stamped
                   /\ tx'[q].row.status = "approved" => tx'[q].row.stamped
                   /\ tx'[q].row.stamped =>
                         \/ user.stamped
                         \/ /\ tx'[q].receipt # None
                            /\ tx'[q].record.status = "approved"
  BY DEF Moves, Sound, IInv, TxDiscipline
<1> QED
  BY <1>2, <1>3, <1>4, <1>5 DEF TxDiscipline, db

\* A transaction that ends leaves nothing behind.
LEMMA EndedSound ==
    ASSUME IInv, NEW p \in Worker, Ended(p), UNCHANGED db,
           nextId' \in Nat, nextId' >= nextId
    PROVE  TxDiscipline'
<1>1. Moves(p, NoTx, "idle")
  BY EndedMoves DEF IInv
<1>2. Sound(p, NoTx, "idle")
  BY DEF Sound, NoTx, NoUser
<1>3. "idle" \in Place
  BY DEF Place
<1> QED
  BY <1>1, <1>2, <1>3, BlankTypes, SoundMoves

\* An UPDATE of the user that keeps approved_at and does not approve is
\* sound, and so is one that approves a user who is stamped.
LEMMA WriteSound ==
    ASSUME IInv, NEW p \in Worker, NEW to \in UserRow, pc[p] = "handle",
           WriteUser(p, to), Goto(p, "commit"),
           to.stamped = user.stamped,
           to.status = "approved" => user.stamped,
           UNCHANGED <<db, nextId>>
    PROVE  TxDiscipline'
<1> DEFINE t == [tx[p] EXCEPT !.lock = "X", !.row = to]
<1>1. tx[p] \in TxType /\ nextId \in Nat
  BY LimitsAssumption DEF IInv, TypeOK
<1>2. Moves(p, t, "commit")
  BY WriteUserMoves DEF IInv
<1>3. t \in TxType /\ t.lock = "X" /\ t.row = to /\ t.receipt = tx[p].receipt
        /\ t.snap = tx[p].snap
  BY <1>1 DEF TxType
<1>4. Sound(p, t, "commit")
  <2>1. CanWrite(p) /\ CanShare(p)
    BY DEF WriteUser, CanWrite, CanShare
  <2>2. tx[p].receipt = None
    BY DEF IInv, TxDiscipline
  <2>3. tx[p].snap.stamped => user.stamped
    BY DEF IInv, TxDiscipline
  <2> HIDE DEF t
  <2> QED BY <1>3, <2>1, <2>2, <2>3 DEF Sound
<1>5. "commit" \in Place
  BY DEF Place
<1> HIDE DEF t
<1> QED
  BY <1>1, <1>2, <1>3, <1>4, <1>5, SoundMoves

LEMMA StatusSound ==
    ASSUME IInv, NEW p \in Worker, NEW s \in UserStatus, pc[p] = "handle",
           SetStatus(p, s), Goto(p, "commit"),
           s = "approved" => user.stamped,
           UNCHANGED <<db, nextId>>
    PROVE  TxDiscipline' /\ Moves(p, [tx[p] EXCEPT !.lock = "X",
                                      !.row = [user EXCEPT !.status = s]],
                                  "commit")
<1> DEFINE to == [user EXCEPT !.status = s]
<1>1. user \in UserRow
  BY DEF IInv, TypeOK
<1>2. to \in UserRow /\ to.stamped = user.stamped /\ to.status = s
  BY <1>1 DEF UserRow
<1>3. WriteUser(p, to)
  BY DEF SetStatus
<1>4. TxDiscipline'
  <2> HIDE DEF to
  <2> QED BY <1>2, <1>3, WriteSound
<1>5. TypeOK
  BY DEF IInv
<1> QED
  BY <1>4, <1>5, SetStatusMoves

-----------------------------------------------------------------------------
(* One lemma per action, or for a few that are alike. *)

\* What a step of the transactions has to leave typed besides tx and pc.
RestTyped ==
    /\ user \in UserRow /\ receipts \in [ReceiptId -> ReceiptRow]
    /\ nextId \in 1..(MaxReceipts + 1) /\ nextCode \in 1..(MaxCodes + 1)
    /\ fsm \in {"none", "phone", "name", "receipt"}
    /\ rejecting \subseteq ReceiptId /\ submitLock \in BOOLEAN
    /\ card \in [ReceiptId -> {"unsent", "live", "spent"}]
    /\ verdicts \in [ReceiptId -> SUBSET {"approved", "rejected"}]
    /\ undone \in [ReceiptId -> SUBSET {"approved", "rejected"}]
    /\ repost \in [phase : {"idle", "send", "store"}, hand : SUBSET ReceiptId]
    /\ faults \in 0..MaxFaults

LEMMA MovesTyped ==
    ASSUME RestTyped', NEW p, NEW t, NEW l, Moves(p, t, l)
    PROVE  TypeOK'
BY DEF RestTyped, Moves, TypeOK

LEMMA NextIdNat == ASSUME TypeOK PROVE nextId \in Nat /\ nextId >= 1
BY LimitsAssumption DEF TypeOK

LEMMA BeginSafe ==
    ASSUME IInv, NEW p \in Worker, NEW r \in Request, Begin(p, r)
    PROVE  IInv'
<1> DEFINE t == [NoTx EXCEPT !.op = r.op, !.target = r.receipt,
                             !.snap = user, !.pending = Pending(receipts)]
<1>1. Moves(p, t, "handle")
  BY BeginMoves DEF IInv
<1>2. t.lock = "none" /\ t.receipt = None /\ t.snap = user
  BY DEF NoTx
<1>3. Sound(p, t, "handle")
  <2> HIDE DEF t
  <2> QED BY <1>2 DEF Sound
<1>4. t \in TxType /\ "handle" \in Place
  <2> HIDE DEF t
  <2> QED BY <1>1 DEF Moves, Place
<1>5. TxDiscipline'
  <2>1. UNCHANGED db /\ nextId' = nextId /\ nextId \in Nat
    BY NextIdNat DEF Begin, ids, IInv
  <2> HIDE DEF t
  <2> QED BY <1>1, <1>3, <1>4, <2>1, SoundMoves
<1>6. RestTyped'
  BY DEF IInv, TypeOK, RestTyped, Begin, db, redis, group, chat, ids
<1> QED
  BY <1>1, <1>5, <1>6, MovesTyped DEF IInv

\* A handler that returns without having written.
LEMMA EndedSafe ==
    ASSUME IInv, NEW p \in Worker, Ended(p), UNCHANGED db, RestTyped',
           nextId' = nextId
    PROVE  IInv'
<1>1. TxDiscipline'
  BY EndedSound, NextIdNat DEF IInv
<1>2. Moves(p, NoTx, "idle")
  BY EndedMoves DEF IInv
<1> QED
  BY <1>1, <1>2, MovesTyped DEF IInv

\* A handler that has set the status of the user.
LEMMA StatusSafe ==
    ASSUME IInv, NEW p \in Worker, NEW s \in UserStatus, pc[p] = "handle",
           SetStatus(p, s), Goto(p, "commit"),
           s = "approved" => user.stamped,
           UNCHANGED <<db, nextId>>, RestTyped'
    PROVE  IInv'
BY StatusSound, MovesTyped DEF IInv

LEMMA StartTapSafe ==
    ASSUME IInv, NEW p \in Worker, StartTap(p)
    PROVE  IInv'
<1>1. RestTyped'
  BY DEF IInv, TypeOK, RestTyped, StartTap, db, group, chat, ids
<1> QED
  BY <1>1, EndedSafe DEF StartTap, ids

LEMMA BeginTapSafe ==
    ASSUME IInv, NEW p \in Worker, BeginTap(p)
    PROVE  IInv'
<1>1. RestTyped' /\ UNCHANGED <<db, nextId>>
  BY DEF IInv, TypeOK, RestTyped, BeginTap, db, group, chat, ids
<1>2. CASE SetStatus(p, "onboarding_phone") /\ Goto(p, "commit")
  BY <1>1, <1>2, StatusSafe DEF BeginTap, Handling, UserStatus
<1>3. CASE Ended(p)
  BY <1>1, <1>3, EndedSafe
<1> QED
  BY <1>2, <1>3 DEF BeginTap

LEMMA ContactSafe ==
    ASSUME IInv, NEW p \in Worker, Contact(p)
    PROVE  IInv'
<1>1. RestTyped' /\ UNCHANGED <<db, nextId>>
  BY DEF IInv, TypeOK, RestTyped, Contact, db, group, chat, ids
<1>2. CASE SetStatus(p, "onboarding_name") /\ Goto(p, "commit")
  BY <1>1, <1>2, StatusSafe DEF Contact, Handling, UserStatus
<1>3. CASE Ended(p)
  BY <1>1, <1>3, EndedSafe
<1> QED
  BY <1>2, <1>3 DEF Contact

LEMMA NameEnteredSafe ==
    ASSUME IInv, NEW p \in Worker, NameEntered(p)
    PROVE  IInv'
<1> DEFINE to == [user EXCEPT !.status = "pending_payment",
                              !.code = nextCode]
<1>1. nextCode \in 1..MaxCodes
  BY LimitsAssumption DEF NameEntered, IInv, TypeOK
<1>2. RestTyped' /\ UNCHANGED <<db, nextId>>
  BY <1>1, LimitsAssumption
     DEF IInv, TypeOK, RestTyped, NameEntered, db, group, chat, ids
<1>3. CASE WriteUser(p, to) /\ Goto(p, "commit")
  <2>1. user \in UserRow /\ pc[p] = "handle"
    BY DEF IInv, TypeOK, NameEntered, Handling
  <2>2. to \in UserRow /\ to.stamped = user.stamped
          /\ to.status = "pending_payment"
    <3>1. nextCode \in 0..MaxCodes
      BY <1>1, LimitsAssumption
    <3>2. "pending_payment" \in UserStatus
      BY DEF UserStatus
    <3> QED BY <2>1, <3>1, <3>2 DEF UserRow
  <2>3. Moves(p, [tx[p] EXCEPT !.lock = "X", !.row = to], "commit")
    BY <1>3, <2>2, WriteUserMoves DEF IInv
  <2>4. TypeOK'
    <3> HIDE DEF to
    <3> QED BY <1>2, <2>3, MovesTyped
  <2>5. TxDiscipline'
    <3> HIDE DEF to
    <3> QED BY <1>2, <1>3, <2>1, <2>2, WriteSound
  <2> QED BY <2>4, <2>5 DEF IInv
<1>4. CASE Ended(p)
  BY <1>2, <1>4, EndedSafe
<1> QED
  BY <1>3, <1>4 DEF NameEntered

LEMMA ReturnsSafe ==
    ASSUME IInv, NEW p \in Worker,
           \/ NameRefused(p) \/ IPaid(p) \/ PhotoRefused(p)
           \/ SubmitRefused(p) \/ RejectTap(p) \/ ReviewNothing(p)
    PROVE  IInv'
<1>1. Ended(p) /\ UNCHANGED db /\ nextId' = nextId
  BY DEF NameRefused, IPaid, PhotoRefused, SubmitRefused, RejectTap,
         ReviewNothing, ids
<1>2. RestTyped'
  <2>1. CASE NameRefused(p) \/ IPaid(p) \/ PhotoRefused(p)
    BY <2>1 DEF IInv, TypeOK, RestTyped, NameRefused, IPaid, PhotoRefused,
                db, redis, group, chat, ids
  <2>2. CASE SubmitRefused(p) \/ RejectTap(p) \/ ReviewNothing(p)
    BY <2>2 DEF IInv, TypeOK, RestTyped, SubmitRefused, RejectTap,
                ReviewNothing, db, redis, group, chat, ids
  <2> QED BY <2>1, <2>2
<1> QED
  BY <1>1, <1>2, EndedSafe

LEMMA TakeSubmitLockSafe ==
    ASSUME IInv, NEW p \in Worker, TakeSubmitLock(p)
    PROVE  IInv'
<1>1. Moves(p, tx[p], "submit")
  BY StayMoves DEF IInv, TakeSubmitLock, Place
<1>2. tx[p] \in TxType /\ "submit" \in Place
  BY DEF IInv, TypeOK, Place
<1>3. Sound(p, tx[p], "submit")
  BY DEF TakeSubmitLock, Handling, IInv, TxDiscipline, Sound
<1>4. UNCHANGED db /\ nextId' = nextId /\ nextId \in Nat
  BY NextIdNat DEF TakeSubmitLock, ids, IInv
<1>5. RestTyped'
  BY DEF IInv, TypeOK, RestTyped, TakeSubmitLock, db, group, chat, ids
<1> QED
  BY <1>1, <1>2, <1>3, <1>4, <1>5, SoundMoves, MovesTyped DEF IInv

LEMMA BanSafe ==
    ASSUME IInv, NEW p \in Worker, Ban(p)
    PROVE  IInv'
<1>1. RestTyped' /\ UNCHANGED <<db, nextId>>
  BY DEF IInv, TypeOK, RestTyped, Ban, db, redis, group, chat, ids
<1> QED
  BY <1>1, StatusSafe DEF Ban, Handling, UserStatus

\* What the snapshot shows stamped is stamped.
LEMMA UnbanSafe ==
    ASSUME IInv, NEW p \in Worker, Unban(p)
    PROVE  IInv'
<1>1. RestTyped' /\ UNCHANGED <<db, nextId>>
  BY DEF IInv, TypeOK, RestTyped, Unban, db, redis, group, chat, ids
<1>2. CASE tx[p].snap.stamped /\ SetStatus(p, "approved") /\ Goto(p, "commit")
  <2>1. user.stamped
    BY <1>2 DEF IInv, TxDiscipline
  <2> QED BY <1>1, <1>2, <2>1, StatusSafe DEF Unban, Handling, UserStatus
<1>3. CASE Ended(p)
  BY <1>1, <1>3, EndedSafe
<1> QED
  BY <1>2, <1>3 DEF Unban

LEMMA SubmitSafe ==
    ASSUME IInv, NEW p \in Worker, Submit(p)
    PROVE  IInv'
<1>1. PICK t \in TxType :
         /\ Moves(p, t, "post")
         /\ t.receipt = nextId /\ t.snap = tx[p].snap
         /\ \/ /\ t.lock = "X" /\ CanWrite(p)
               /\ t.row = [user EXCEPT !.status = "pending_approval"]
            \/ t.lock = "S" /\ CanShare(p)
  BY SubmitMoves DEF IInv
<1>2. user \in UserRow /\ nextId \in ReceiptId /\ nextId \in Nat
  BY LimitsAssumption DEF Submit, IInv, TypeOK, ReceiptId
<1>3. UNCHANGED db /\ nextId' = nextId + 1
  BY DEF Submit
<1>4. ReceiptFree(p, nextId)
  <2>1. \A o \in Worker : tx[o].receipt # None => tx[o].receipt < nextId
    BY DEF IInv, TxDiscipline
  <2>2. nextId # None
    BY <1>2 DEF ReceiptId, None
  <2> QED BY <1>2, <2>1, <2>2 DEF ReceiptFree
<1>5. receipts[nextId].status = "absent"
  BY <1>2 DEF IInv, TxDiscipline
<1>6. t.lock = "X" =>
         CanWrite(p) /\ t.row.stamped = user.stamped
            /\ t.row.status = "pending_approval"
  BY <1>1, <1>2 DEF UserRow
<1>7. t.lock # "none" => CanShare(p)
  BY <1>1 DEF CanWrite, CanShare
<1>8. tx[p].snap.stamped => user.stamped
  BY DEF IInv, TxDiscipline
<1>9. Sound(p, t, "post")
  BY <1>1, <1>2, <1>3, <1>4, <1>5, <1>6, <1>7, <1>8 DEF Sound
<1>10. TxDiscipline'
  BY <1>1, <1>2, <1>3, <1>9, SoundMoves DEF Place
<1>11. RestTyped'
  BY <1>2, <1>3, LimitsAssumption
     DEF IInv, TypeOK, RestTyped, Submit, db, redis, group, chat, ReceiptId
<1> QED
  BY <1>1, <1>10, <1>11, MovesTyped DEF IInv

\* A transaction that goes on with the rows it holds.
LEMMA SameRowsSound ==
    ASSUME IInv, NEW p \in Worker, NEW t \in TxType,
           pc[p] \notin {"idle", "handle", "submit"},
           t.receipt = tx[p].receipt, t.snap = tx[p].snap,
           t.lock = tx[p].lock, t.row = tx[p].row,
           t.record.status = tx[p].record.status,
           nextId' = nextId
    PROVE  Sound(p, t, "commit")
<1>1. tx[p].lock = "X" => CanWrite(p)
  BY DEF IInv, TxDiscipline, CanWrite
<1>2. tx[p].lock # "none" => CanShare(p)
  BY DEF IInv, TxDiscipline, CanShare
<1>3. tx[p].receipt # None => ReceiptFree(p, tx[p].receipt)
  BY DEF IInv, TxDiscipline, ReceiptFree
<1> QED
  BY <1>1, <1>2, <1>3 DEF IInv, TxDiscipline, Sound

LEMMA PostCardSafe ==
    ASSUME IInv, NEW p \in Worker, PostCard(p)
    PROVE  IInv'
<1>1. PICK t \in TxType :
         /\ Moves(p, t, "commit")
         /\ t.receipt = tx[p].receipt /\ t.snap = tx[p].snap
         /\ t.lock = tx[p].lock /\ t.row = tx[p].row
         /\ t.record.status = tx[p].record.status
  BY PostMoves DEF IInv
<1>2. UNCHANGED db /\ nextId' = nextId /\ nextId \in Nat
  BY NextIdNat DEF PostCard, ids, IInv
<1>3. Sound(p, t, "commit")
  BY <1>1, <1>2, SameRowsSound DEF PostCard
<1>4. TxDiscipline'
  BY <1>1, <1>2, <1>3, SoundMoves DEF Place
<1>5. RestTyped'
  <2>1. faults' \in 0..MaxFaults
    BY LimitsAssumption DEF IInv, TypeOK, PostCard
  <2>2. card' \in [ReceiptId -> {"unsent", "live", "spent"}]
    BY DEF IInv, TypeOK, PostCard
  <2> QED BY <2>1, <2>2 DEF IInv, TypeOK, RestTyped, PostCard, db, chat, ids
<1> QED
  BY <1>1, <1>4, <1>5, MovesTyped DEF IInv

LEMMA AnnounceSafe ==
    ASSUME IInv, NEW p \in Worker, Announce(p)
    PROVE  IInv'
<1>1. Moves(p, tx[p], "commit") /\ tx[p] \in TxType
  BY StayMoves DEF IInv, TypeOK, Announce, Place
<1>2. UNCHANGED db /\ nextId' = nextId /\ nextId \in Nat
  BY NextIdNat DEF Announce, ids, IInv
<1>3. Sound(p, tx[p], "commit")
  BY <1>1, <1>2, SameRowsSound DEF Announce
<1>4. TxDiscipline'
  BY <1>1, <1>2, <1>3, SoundMoves DEF Place
<1>5. tx[p].fate \in {"approved", "rejected"}
  BY DEF IInv, TxDiscipline, Announce
<1>6. RestTyped'
  BY <1>5 DEF IInv, TypeOK, RestTyped, Announce, db, ids
<1> QED
  BY <1>1, <1>4, <1>6, MovesTyped DEF IInv

LEMMA ReviewSafe ==
    ASSUME IInv, NEW p \in Worker, Review(p)
    PROVE  IInv'
<1>1. PICK r \in ReceiptId, t \in TxType, l \in {"announce", "commit"} :
         /\ Handling(p, "approve") \/ Handling(p, "reason")
         /\ CanWrite(p) /\ ReceiptFree(p, r)
         /\ receipts[r].status = "pending"
         /\ Moves(p, t, l)
         /\ t.receipt = r /\ t.snap = tx[p].snap /\ t.lock = "X"
         /\ l = "announce" => t.fate \in {"approved", "rejected"}
         /\ \/ t.record.status = "approved"
               /\ t.row = [user EXCEPT !.status = "approved",
                                       !.stamped = TRUE]
            \/ t.row = user /\ user.status = "banned"
            \/ t.row = [user EXCEPT !.status = "rejected"]
  BY ReviewMoves DEF IInv
<1>2. UNCHANGED db /\ nextId' = nextId /\ nextId \in Nat
  BY NextIdNat DEF Review, Approve, Reject, ids, IInv
<1>3. r < nextId /\ r # None
  BY <1>1, <1>2 DEF IInv, TxDiscipline, ReceiptId, None
<1>4. user \in UserRow /\ l \in Place
  BY <1>1 DEF IInv, TypeOK, Place
<1>5. /\ user.stamped => t.row.stamped
      /\ t.row.status = "approved" => t.row.stamped
      /\ t.row.stamped => user.stamped \/ t.record.status = "approved"
  BY <1>1, <1>4 DEF UserRow
<1>6. tx[p].snap.stamped => user.stamped
  BY DEF IInv, TxDiscipline
<1>7. Sound(p, t, l)
  BY <1>1, <1>2, <1>3, <1>5, <1>6 DEF Sound, CanWrite, CanShare
<1>8. TxDiscipline'
  BY <1>1, <1>2, <1>4, <1>7, SoundMoves
<1>9. RestTyped'
  BY DEF IInv, TypeOK, RestTyped, Review, Approve, Reject, db, redis, group, chat, ids
<1> QED
  BY <1>1, <1>8, <1>9, MovesTyped DEF IInv

\* The steps that touch no transaction, no user and no status of a receipt.
LEMMA OutsideSafe ==
    ASSUME IInv, RestTyped', UNCHANGED <<user, nextId, tx, pc>>,
           \A r \in ReceiptId : receipts'[r].status = receipts[r].status
    PROVE  IInv'
<1>1. TypeOK'
  BY DEF IInv, TypeOK, RestTyped
<1>2. \A p \in Worker : tx[p].receipt # None => tx[p].receipt \in ReceiptId
  BY DEF IInv, TypeOK, TxType
<1>3. TxDiscipline'
  BY <1>2 DEF IInv, TxDiscipline
<1> QED
  BY <1>1, <1>3 DEF IInv

LEMMA FaultCounted ==
    ASSUME TypeOK, faults < MaxFaults, faults' = faults + 1
    PROVE  faults' \in 0..MaxFaults
BY LimitsAssumption DEF TypeOK

LEMMA RepostSafe ==
    ASSUME IInv, Repost
    PROVE  IInv'
<1>1. CASE RepostCollect
  <2>1. RestTyped'
    BY <1>1 DEF IInv, TypeOK, RestTyped, RepostCollect, Unnotified, Pending,
                db, redis, group, chat, ids
  <2> QED BY <1>1, <2>1, OutsideSafe DEF RepostCollect, db, ids
<1>2. CASE RepostSend
  <2>1. PICK sent \in SUBSET repost.hand :
           /\ card' = Carded(sent)
           /\ repost' = [phase |-> "store", hand |-> sent]
           /\ \/ UNCHANGED faults
              \/ faults < MaxFaults /\ faults' = faults + 1
    BY <1>2 DEF RepostSend
  <2>2. repost.hand \subseteq ReceiptId
    BY DEF IInv, TypeOK
  <2>3. faults' \in 0..MaxFaults
    BY <2>1, FaultCounted DEF IInv, TypeOK
  <2>4. card' \in [ReceiptId -> {"unsent", "live", "spent"}]
    BY <2>1 DEF IInv, TypeOK, Carded
  <2>5. RestTyped'
    BY <1>2, <2>1, <2>2, <2>3, <2>4
       DEF IInv, TypeOK, RestTyped, RepostSend, db, redis, chat, ids
  <2> QED BY <1>2, <2>5, OutsideSafe DEF RepostSend, db, ids
<1>3. CASE RepostStore
  <2>1. \A r \in ReceiptId : /\ receipts'[r].status = receipts[r].status
                             /\ receipts'[r] \in ReceiptRow
    <3> TAKE r \in ReceiptId
    <3>1. receipts[r] \in ReceiptRow
      BY DEF IInv, TypeOK
    <3>2. \/ receipts'[r] = receipts[r]
          \/ receipts'[r] = [receipts[r] EXCEPT !.posted = TRUE]
      BY <1>3 DEF RepostStore
    <3> QED BY <3>1, <3>2 DEF ReceiptRow
  <2>2. receipts' \in [ReceiptId -> ReceiptRow]
    BY <1>3, <2>1 DEF RepostStore
  <2>3. RestTyped'
    BY <1>3, <2>2
       DEF IInv, TypeOK, RestTyped, RepostStore, redis, group, chat, ids
  <2> QED BY <1>3, <2>1, <2>3, OutsideSafe DEF RepostStore, ids
<1> QED
  BY <1>1, <1>2, <1>3 DEF Repost

LEMMA LockExpiresSafe ==
    ASSUME IInv, LockExpires
    PROVE  IInv'
<1>1. faults' \in 0..MaxFaults
  BY FaultCounted DEF LockExpires, IInv, TypeOK
<1>2. RestTyped'
  BY <1>1 DEF IInv, TypeOK, RestTyped, LockExpires, db, group, chat, ids
<1> QED
  BY <1>2, OutsideSafe DEF LockExpires, db, ids

\* Only what was sent is undone.
LEMMA UndoneTyped ==
    ASSUME TypeOK, NEW P, Undo(P)
    PROVE  undone' \in [ReceiptId -> SUBSET {"approved", "rejected"}]
<1>1. \A r \in ReceiptId : verdicts[r] \subseteq {"approved", "rejected"}
                          /\ undone[r] \subseteq {"approved", "rejected"}
  BY DEF TypeOK
<1> QED
  BY <1>1 DEF Undo

LEMMA FailSafe ==
    ASSUME IInv, NEW p \in Worker, Fail(p)
    PROVE  IInv'
<1>1. /\ faults' \in 0..MaxFaults
      /\ undone' \in [ReceiptId -> SUBSET {"approved", "rejected"}]
  BY FaultCounted, UndoneTyped DEF Fail, IInv
<1>2. RestTyped'
  BY <1>1 DEF IInv, TypeOK, RestTyped, Fail, db, ids
<1> QED
  BY <1>2, EndedSafe DEF Fail, db, ids

LEMMA CrashSafe ==
    ASSUME IInv, Crash
    PROVE  IInv'
<1>1. /\ faults' \in 0..MaxFaults
      /\ undone' \in [ReceiptId -> SUBSET {"approved", "rejected"}]
  BY FaultCounted, UndoneTyped DEF Crash, IInv
<1>2. tx' \in [Worker -> TxType] /\ pc' \in [Worker -> Place]
  BY BlankTypes DEF Crash, Place
<1>3. TypeOK'
  BY <1>1, <1>2 DEF IInv, TypeOK, Crash, db, redis, ids
<1>4. \A p \in Worker : tx'[p] = NoTx /\ pc'[p] = "idle"
  BY DEF Crash
<1>5. /\ NoTx.lock = "none" /\ NoTx.receipt = None
      /\ NoTx.snap.stamped = FALSE
  BY DEF NoTx, NoUser
<1>6. UNCHANGED <<db, nextId>>
  BY DEF Crash, ids
<1>7. TxDiscipline'
  BY <1>4, <1>5, <1>6 DEF IInv, TxDiscipline, db
<1> QED
  BY <1>3, <1>7 DEF IInv

\* What a commit does to the two rows.
LEMMA CommitRows ==
    ASSUME IInv, NEW p \in Worker, Commit(p)
    PROVE  /\ user' \in UserRow /\ receipts' \in [ReceiptId -> ReceiptRow]
           /\ user.stamped => user'.stamped
           /\ tx[p].lock # "X" => user' = user
           /\ \A r \in ReceiptId : r # tx[p].receipt =>
                   receipts'[r] = receipts[r]
           /\ tx[p].receipt # None =>
                   /\ tx[p].receipt \in ReceiptId
                   /\ receipts'[tx[p].receipt] = tx[p].record
<1>1. tx[p] \in TxType /\ user \in UserRow
        /\ receipts \in [ReceiptId -> ReceiptRow]
  BY DEF IInv, TypeOK
<1>2. tx[p].row \in UserRow /\ tx[p].record \in ReceiptRow
        /\ tx[p].receipt \in ReceiptId \cup {None}
  BY <1>1 DEF TxType
<1>3. tx[p].lock = "X" => (user.stamped => tx[p].row.stamped)
  BY DEF IInv, TxDiscipline
<1> QED
  BY <1>1, <1>2, <1>3 DEF Commit

LEMMA CommitSafe ==
    ASSUME IInv, NEW p \in Worker, Commit(p)
    PROVE  IInv'
<1>1. Moves(p, NoTx, "idle")
  BY EndedMoves DEF IInv, Commit
<1>2. TypeOK'
  <2>1. RestTyped'
    BY CommitRows DEF IInv, TypeOK, RestTyped, Commit, redis, group, chat, ids
  <2> QED BY <1>1, <2>1, MovesTyped
<1>3. /\ NoTx.lock = "none" /\ NoTx.receipt = None
      /\ NoTx.snap.stamped = FALSE
  BY DEF NoTx, NoUser
<1>4. nextId' = nextId
  BY DEF Commit, ids
<1>5. ASSUME NEW q \in Worker
      PROVE  /\ pc'[q] \in {"idle", "handle", "submit"} =>
                   tx'[q].lock = "none" /\ tx'[q].receipt = None
             /\ pc'[q] = "announce" =>
                   tx'[q].fate \in {"approved", "rejected"}
             /\ \A o \in Worker \ {q} :
                   /\ tx'[q].lock = "X" => tx'[o].lock = "none"
                   /\ tx'[q].receipt # None =>
                         tx'[o].receipt # tx'[q].receipt
  BY <1>1, <1>3 DEF Moves, IInv, TxDiscipline
<1>6. ASSUME NEW q \in Worker, tx'[q].receipt # None
      PROVE  /\ tx'[q].receipt < nextId'
             /\ receipts'[tx'[q].receipt].status \in {"absent", "pending"}
  <2>1. q # p /\ tx'[q] = tx[q]
    BY <1>1, <1>3, <1>6 DEF Moves
  <2>2. tx[q].receipt \in ReceiptId /\ tx[q].receipt # tx[p].receipt
    BY <1>6, <2>1 DEF IInv, TypeOK, TxType, TxDiscipline
  <2>3. receipts'[tx[q].receipt] = receipts[tx[q].receipt]
    BY <2>2, CommitRows
  <2> QED BY <1>4, <1>6, <2>1, <2>3 DEF IInv, TxDiscipline
<1>7. ASSUME NEW r \in ReceiptId, r >= nextId'
      PROVE  receipts'[r].status = "absent"
  <2>1. nextId \in Nat /\ r \in Nat
    BY NextIdNat DEF IInv, ReceiptId
  <2>2. r # tx[p].receipt
    BY <1>4, <1>7, <2>1 DEF IInv, TxDiscipline, ReceiptId, None
  <2> QED BY <1>4, <1>7, <2>2, CommitRows DEF IInv, TxDiscipline
<1>8. ASSUME NEW q \in Worker
      PROVE  /\ tx'[q].snap.stamped => user'.stamped
             /\ tx'[q].lock = "X" =>
                   /\ user'.stamped => tx'[q].row.stamped
                   /\ tx'[q].row.status = "approved" => tx'[q].row.stamped
                   /\ tx'[q].row.stamped =>
                         \/ user'.stamped
                         \/ /\ tx'[q].receipt # None
                            /\ tx'[q].record.status = "approved"
  <2>1. CASE q = p
    BY <1>1, <1>3, <2>1 DEF Moves
  <2>2. CASE q # p
    <3>1. tx'[q] = tx[q]
      BY <1>1, <2>2 DEF Moves
    <3>2. tx[q].snap.stamped => user'.stamped
      BY CommitRows DEF IInv, TxDiscipline
    <3>3. tx[q].lock = "X" => user' = user
      BY <2>2, CommitRows DEF IInv, TxDiscipline
    <3> QED BY <3>1, <3>2, <3>3 DEF IInv, TxDiscipline
  <2> QED BY <2>1, <2>2
<1>9. TxDiscipline'
  BY <1>5, <1>6, <1>7, <1>8 DEF TxDiscipline
<1> QED
  BY <1>2, <1>9 DEF IInv

-----------------------------------------------------------------------------
(* The theorems. *)

LEMMA InitIInv == Init => IInv
<1> SUFFICES ASSUME Init PROVE IInv
  OBVIOUS
<1>1. user \in UserRow /\ nextCode \in 1..(MaxCodes + 1)
  BY LimitsAssumption, StartAssumption
     DEF Init, UserRow, UserStatus, None
<1>2. nextId \in 1..(MaxReceipts + 1) /\ faults \in 0..MaxFaults
  BY LimitsAssumption DEF Init
<1>3. receipts \in [ReceiptId -> ReceiptRow] /\ tx \in [Worker -> TxType]
  BY BlankTypes DEF Init
<1>4. TypeOK
  BY <1>1, <1>2, <1>3 DEF Init, TypeOK, Place
<1>5. \A p \in Worker : /\ tx[p].lock = "none" /\ tx[p].receipt = None
                        /\ tx[p].snap.stamped = FALSE /\ pc[p] = "idle"
  BY DEF Init, NoTx, NoUser
<1>6. \A r \in ReceiptId : receipts[r].status = "absent"
  BY DEF Init, NoReceipt
<1>7. TxDiscipline
  BY <1>5, <1>6 DEF TxDiscipline
<1> QED
  BY <1>4, <1>7 DEF IInv

LEMMA NextIInv ==
    ASSUME IInv, [Next]_vars
    PROVE  IInv'
<1>1. ASSUME NEW p \in Worker, Handle(p) PROVE IInv'
  <2>1. CASE Onboard(p)
    BY <2>1, StartTapSafe, BeginTapSafe, ContactSafe, NameEnteredSafe,
       ReturnsSafe DEF Onboard
  <2>2. CASE SendReceipt(p)
    BY <2>2, ReturnsSafe, TakeSubmitLockSafe, SubmitSafe, PostCardSafe
       DEF SendReceipt
  <2>3. CASE Moderate(p)
    BY <2>3, ReturnsSafe, ReviewSafe, AnnounceSafe, BanSafe, UnbanSafe
       DEF Moderate
  <2>4. CASE Commit(p)
    BY <2>4, CommitSafe
  <2> QED BY <1>1, <2>1, <2>2, <2>3, <2>4 DEF Handle
<1>2. CASE UNCHANGED vars
  BY <1>2 DEF vars, db, redis, group, chat, ids, IInv, TypeOK, TxDiscipline
<1>3. CASE Next
  BY <1>1, <1>3, FailSafe, BeginSafe, RepostSafe, CrashSafe, LockExpiresSafe
     DEF Next
<1> QED
  BY <1>2, <1>3

\* The types of the variables, in every reachable state.
THEOREM TypesHold == Spec => []TypeOK
<1>1. IInv => TypeOK
  BY DEF IInv
<1> QED
  BY <1>1, InitIInv, NextIInv, PTL DEF Spec

\* Row locks and their transactions are disciplined: a writer of the user
\* row excludes every other lock on it, no two transactions hold the same
\* receipt, the receipt one holds is not decided, and approved_at is set
\* only together with the approval of a receipt.
THEOREM TransactionsAreDisciplined == Spec => []TxDiscipline
<1>1. IInv => TxDiscipline
  BY DEF IInv
<1> QED
  BY <1>1, InitIInv, NextIInv, PTL DEF Spec

\* The rows change in two ways only.
LEMMA Writers ==
    ASSUME [Next]_vars
    PROVE  UNCHANGED db \/ RepostStore \/ \E p \in Worker : Commit(p)
<1>1. ASSUME NEW p \in Worker, Handle(p)
      PROVE  UNCHANGED db \/ Commit(p)
  <2>1. CASE Onboard(p)
    BY <2>1 DEF Onboard, StartTap, BeginTap, Contact, NameEntered, NameRefused
  <2>2. CASE SendReceipt(p)
    BY <2>2 DEF SendReceipt, IPaid, PhotoRefused, TakeSubmitLock,
                SubmitRefused, Submit, PostCard
  <2>3. CASE Moderate(p)
    BY <2>3 DEF Moderate, RejectTap, Review, ReviewNothing, Announce, Ban,
                Unban
  <2> QED BY <1>1, <2>1, <2>2, <2>3 DEF Handle
<1>2. ASSUME NEW p \in Worker,
             Fail(p) \/ \E r \in Request : Begin(p, r)
      PROVE  UNCHANGED db
  BY <1>2 DEF Fail, Begin
<1>3. CASE Repost
  BY <1>3 DEF Repost, RepostCollect, RepostSend
<1>4. CASE Crash \/ LockExpires \/ UNCHANGED vars
  BY <1>4 DEF Crash, LockExpires, vars
<1> QED
  BY <1>1, <1>2, <1>3, <1>4 DEF Next

\* Each step keeps the verdict of a receipt.
LEMMA VerdictStays ==
    ASSUME IInv, [Next]_vars, NEW r \in ReceiptId,
           receipts[r].status \in {"approved", "rejected"}
    PROVE  receipts'[r].status = receipts[r].status
<1>1. CASE UNCHANGED db
  BY <1>1 DEF db
<1>2. CASE RepostStore
  <2>1. receipts[r] \in ReceiptRow
    BY DEF IInv, TypeOK
  <2>2. \/ receipts'[r] = receipts[r]
        \/ receipts'[r] = [receipts[r] EXCEPT !.posted = TRUE]
    BY <1>2 DEF RepostStore
  <2> QED BY <2>1, <2>2 DEF ReceiptRow
<1>3. ASSUME NEW p \in Worker, Commit(p)
      PROVE  receipts'[r].status = receipts[r].status
  <2>1. r # tx[p].receipt
    BY DEF IInv, TxDiscipline, ReceiptId, None
  <2> QED BY <1>3, <2>1, CommitRows
<1> QED
  BY <1>1, <1>2, <1>3, Writers

\* The review of a receipt is irreversible, however many admins decide on it
\* at once and whichever stale cards are left in the group.
THEOREM ReviewsAreFinal ==
    Spec => [][\A r \in ReceiptId :
                  receipts[r].status \in {"approved", "rejected"}
                      => receipts'[r].status = receipts[r].status]_vars
<1> DEFINE Step == \A r \in ReceiptId :
               receipts[r].status \in {"approved", "rejected"}
                   => receipts'[r].status = receipts[r].status
<1>1. IInv /\ [Next]_vars => [Step]_vars
  BY VerdictStays
<1>2. Spec => [][Step]_vars
  <2> HIDE DEF Step
  <2> QED BY <1>1, InitIInv, NextIInv, PTL DEF Spec
<1> QED
  BY <1>2

-----------------------------------------------------------------------------
(* The contract.  A transaction that holds the user row, or a receipt, knows    *)
(* what is committed there, so its commit is one of the steps of the contract. *)

\* What an update that is about no receipt writes over the user.
Alone(row) ==
    \/ /\ row.status \in {"onboarding_phone", "onboarding_name",
                          "pending_payment", "banned"}
       /\ row.stamped = user.stamped
    \/ row.status = "approved" /\ row.stamped /\ user.stamped

\* What a review writes over him: a banned user is left as he is.
Verdict(row, status) ==
    IF user.status = "banned"
    THEN row = user
    ELSE /\ row.status = status
         /\ IF status = "approved" THEN row.stamped
            ELSE row.stamped = user.stamped

\* What the commit of transaction t does, in the words of the contract.
Due(t) ==
    IF t.receipt = None
    THEN t.lock = "X" => Alone(t.row)
    ELSE \/ /\ t.record.status = "pending"
            /\ receipts[t.receipt].status = "absent"
            /\ t.lock = "X" => /\ t.row.status = "pending_approval"
                               /\ t.row.stamped = user.stamped
         \/ /\ t.record.status \in {"approved", "rejected"}
            /\ receipts[t.receipt].status = "pending"
            /\ t.lock = "X" /\ Verdict(t.row, t.record.status)

\* The inductive invariant of the refinement.
ContractInv == IInv /\ \A p \in Worker : Due(tx[p])

\* One activation goes on, with a transaction that will do as is due.
Leads(p) == \E t, l : Moves(p, t, l) /\ Due(t)

LEMMA BlankDue == Due(NoTx)
BY DEF Due, NoTx

LEMMA LeadsDue ==
    ASSUME ContractInv, NEW p \in Worker, Leads(p), UNCHANGED db
    PROVE  \A o \in Worker : Due(tx[o])'
<1>1. PICK t, l : Moves(p, t, l) /\ Due(t)
  BY DEF Leads
<1>2. ASSUME NEW o \in Worker, NEW u, tx'[o] = u, Due(u)
      PROVE  Due(tx[o])'
  BY <1>2 DEF Due, Alone, Verdict, db
<1>3. \A o \in Worker : o # p => Due(tx[o]) /\ tx'[o] = tx[o]
  BY <1>1 DEF ContractInv, Moves
<1>4. tx'[p] = t
  BY <1>1 DEF Moves
<1> QED
  BY <1>1, <1>2, <1>3, <1>4

LEMMA EndedLeads ==
    ASSUME ContractInv, NEW p \in Worker, Ended(p)
    PROVE  Leads(p)
BY EndedMoves, BlankDue DEF ContractInv, IInv, Leads

LEMMA StayLeads ==
    ASSUME ContractInv, NEW p \in Worker, NEW l \in Place, Goto(p, l), tx' = tx
    PROVE  Leads(p)
BY StayMoves DEF ContractInv, IInv, Leads

LEMMA WriteLeads ==
    ASSUME ContractInv, NEW p \in Worker, NEW to \in UserRow,
           WriteUser(p, to), Goto(p, "commit"), pc[p] = "handle", Alone(to)
    PROVE  Leads(p)
<1> DEFINE t == [tx[p] EXCEPT !.lock = "X", !.row = to]
<1>1. Moves(p, t, "commit")
  BY WriteUserMoves DEF ContractInv, IInv
<1>2. tx[p] \in TxType /\ tx[p].receipt = None
  BY DEF ContractInv, IInv, TypeOK, TxDiscipline
<1>3. t.receipt = None /\ t.row = to
  BY <1>2 DEF TxType
<1> HIDE DEF t
<1> QED
  BY <1>1, <1>3 DEF Due, Leads

LEMMA StatusLeads ==
    ASSUME ContractInv, NEW p \in Worker, NEW s \in UserStatus,
           SetStatus(p, s), Goto(p, "commit"), pc[p] = "handle",
           \/ s \in {"onboarding_phone", "onboarding_name", "banned"}
           \/ s = "approved" /\ user.stamped
    PROVE  Leads(p)
<1> DEFINE to == [user EXCEPT !.status = s]
<1>1. to \in UserRow /\ to.status = s /\ to.stamped = user.stamped
  BY DEF ContractInv, IInv, TypeOK, UserRow
<1>2. WriteUser(p, to)
  BY DEF SetStatus
<1> HIDE DEF to
<1> QED
  BY <1>1, <1>2, WriteLeads DEF Alone

LEMMA OnboardLeads ==
    ASSUME ContractInv, NEW p \in Worker, Onboard(p)
    PROVE  Leads(p)
<1>1. CASE Ended(p)
  BY <1>1, EndedLeads
<1>2. CASE BeginTap(p) /\ ~Ended(p)
  BY <1>2, StatusLeads DEF BeginTap, Handling, UserStatus
<1>3. CASE Contact(p) /\ ~Ended(p)
  BY <1>3, StatusLeads DEF Contact, Handling, UserStatus
<1>4. CASE NameEntered(p) /\ ~Ended(p)
  <2> DEFINE to == [user EXCEPT !.status = "pending_payment", !.code = nextCode]
  <2>1. nextCode \in 0..MaxCodes /\ user \in UserRow
    BY <1>4, LimitsAssumption DEF NameEntered, ContractInv, IInv, TypeOK
  <2>2. to \in UserRow /\ to.status = "pending_payment"
          /\ to.stamped = user.stamped
    BY <2>1 DEF UserRow, UserStatus
  <2>3. WriteUser(p, to) /\ Goto(p, "commit") /\ pc[p] = "handle"
    BY <1>4 DEF NameEntered, Handling
  <2> HIDE DEF to
  <2> QED BY <2>2, <2>3, WriteLeads DEF Alone
<1> QED
  BY <1>1, <1>2, <1>3, <1>4 DEF Onboard, StartTap, NameRefused

LEMMA SendReceiptLeads ==
    ASSUME ContractInv, NEW p \in Worker, SendReceipt(p)
    PROVE  Leads(p)
<1>1. CASE IPaid(p) \/ PhotoRefused(p) \/ SubmitRefused(p)
  BY <1>1, EndedLeads DEF IPaid, PhotoRefused, SubmitRefused
<1>2. CASE TakeSubmitLock(p)
  BY <1>2, StayLeads DEF TakeSubmitLock, Place
<1>3. TypeOK /\ TxDiscipline /\ user \in UserRow
  BY DEF ContractInv, IInv, TypeOK
<1>4. CASE Submit(p)
  <2>1. PICK t \in TxType :
           /\ Moves(p, t, "post")
           /\ t.receipt = nextId /\ t.record.status = "pending"
           /\ \/ t.row = [user EXCEPT !.status = "pending_approval"]
              \/ t.lock = "S"
    BY <1>3, <1>4, SubmitMoves
  <2>2. nextId \in ReceiptId /\ nextId # None
    BY <1>3, <1>4, NextIdNat DEF Submit, ReceiptId, None
  <2>3. receipts[nextId].status = "absent"
    BY <1>3, <2>2, NextIdNat DEF TxDiscipline
  <2>4. t.lock = "X" => t.row.status = "pending_approval"
                          /\ t.row.stamped = user.stamped
    BY <1>3, <2>1 DEF UserRow
  <2> QED BY <2>1, <2>2, <2>3, <2>4 DEF Leads, Due
<1>5. CASE PostCard(p)
  <2>1. PICK t \in TxType :
           /\ Moves(p, t, "commit") /\ t.receipt = tx[p].receipt
           /\ t.lock = tx[p].lock /\ t.row = tx[p].row
           /\ t.record.status = tx[p].record.status
    BY <1>3, <1>5, PostMoves
  <2>2. Due(tx[p])
    BY DEF ContractInv
  <2>3. Due(t)
    BY <2>1, <2>2 DEF Due
  <2> QED BY <2>1, <2>3 DEF Leads
<1> QED
  BY <1>1, <1>2, <1>4, <1>5 DEF SendReceipt

LEMMA ModerateLeads ==
    ASSUME ContractInv, NEW p \in Worker, Moderate(p)
    PROVE  Leads(p)
<1>1. CASE Ended(p)
  BY <1>1, EndedLeads
<1>2. CASE Review(p)
  <2>1. PICK r \in ReceiptId, t \in TxType, l \in {"announce", "commit"} :
           /\ receipts[r].status = "pending"
           /\ Moves(p, t, l)
           /\ t.receipt = r /\ t.lock = "X"
           /\ t.record.status \in {"approved", "rejected"}
           /\ \/ /\ t.record.status = "approved" /\ user.status # "banned"
                 /\ t.row = [user EXCEPT !.status = "approved",
                                         !.stamped = TRUE]
              \/ t.row = user /\ user.status = "banned"
              \/ /\ t.record.status = "rejected" /\ user.status # "banned"
                 /\ t.row = [user EXCEPT !.status = "rejected"]
    BY <1>2, ReviewMoves DEF ContractInv, IInv
  <2>2. user \in UserRow /\ r # None
    BY DEF ContractInv, IInv, TypeOK, ReceiptId, None
  <2>3. Verdict(t.row, t.record.status)
    BY <2>1, <2>2 DEF Verdict, UserRow
  <2> QED BY <2>1, <2>2, <2>3 DEF Due, Leads
<1>3. CASE Announce(p)
  BY <1>3, StayLeads DEF Announce, Place
<1>4. CASE Ban(p)
  BY <1>4, StatusLeads DEF Ban, Handling, UserStatus
<1>5. CASE Unban(p) /\ ~Ended(p)
  <2>1. user.stamped
    BY <1>5 DEF Unban, ContractInv, IInv, TxDiscipline
  <2> QED BY <1>5, <2>1, StatusLeads DEF Unban, Handling, UserStatus
<1> QED
  BY <1>1, <1>2, <1>3, <1>4, <1>5 DEF Moderate, RejectTap, ReviewNothing

LEMMA BeginLeads ==
    ASSUME ContractInv, NEW p \in Worker, NEW r \in Request, Begin(p, r)
    PROVE  Leads(p)
<1> DEFINE t == [NoTx EXCEPT !.op = r.op, !.target = r.receipt,
                             !.snap = user, !.pending = Pending(receipts)]
<1>1. Moves(p, t, "handle")
  BY BeginMoves DEF ContractInv, IInv
<1>2. t.receipt = None /\ t.lock = "none"
  BY DEF NoTx
<1> HIDE DEF t
<1> QED
  BY <1>1, <1>2 DEF Leads, Due

\* A commit leaves the user to whoever has locked him, and the receipts to
\* whoever holds them.
LEMMA CommitDue ==
    ASSUME ContractInv, NEW p \in Worker, Commit(p)
    PROVE  \A o \in Worker : Due(tx[o])'
<1>1. Moves(p, NoTx, "idle") /\ IInv
  BY EndedMoves DEF ContractInv, IInv, Commit
<1>2. ASSUME NEW o \in Worker \ {p} PROVE Due(tx[o])'
  <2>1. tx'[o] = tx[o] /\ Due(tx[o]) /\ tx[o] \in TxType
    BY <1>1 DEF Moves, ContractInv, IInv, TypeOK
  <2>2. tx[o].receipt # None =>
           receipts'[tx[o].receipt] = receipts[tx[o].receipt]
    <3>1. tx[o].receipt # None => tx[o].receipt \in ReceiptId
                                    /\ tx[o].receipt # tx[p].receipt
      BY <1>1, <2>1 DEF IInv, TxDiscipline, TxType
    <3> QED BY <1>1, <3>1, CommitRows
  <2>3. user' = user \/ tx[o].lock = "none"
    BY <1>1, CommitRows DEF IInv, TxDiscipline
  <2> QED BY <2>1, <2>2, <2>3 DEF Due, Alone, Verdict
<1>3. Due(tx[p])'
  BY <1>1 DEF Moves, Due, NoTx
<1> QED
  BY <1>2, <1>3

\* The steps that touch no transaction and no status of a receipt.
LEMMA OutsideDue ==
    ASSUME ContractInv, UNCHANGED <<tx, user>>,
           \A r \in ReceiptId : receipts'[r].status = receipts[r].status
    PROVE  \A o \in Worker : Due(tx[o])'
<1>1. ASSUME NEW o \in Worker PROVE Due(tx[o])'
  <2>1. Due(tx[o]) /\ (tx[o].receipt # None => tx[o].receipt \in ReceiptId)
    BY DEF ContractInv, IInv, TypeOK, TxType
  <2> QED BY <2>1 DEF Due, Alone, Verdict
<1> QED
  BY <1>1

LEMMA RepostKeeps ==
    ASSUME TypeOK, Repost
    PROVE  /\ UNCHANGED <<user, tx, pc>>
           /\ \A r \in ReceiptId : receipts'[r].status = receipts[r].status
<1>1. CASE RepostCollect \/ RepostSend
  BY <1>1 DEF RepostCollect, RepostSend, db
<1>2. CASE RepostStore
  <2>1. ASSUME NEW r \in ReceiptId
        PROVE  receipts'[r].status = receipts[r].status
    <3>1. receipts[r] \in ReceiptRow
      BY DEF TypeOK
    <3>2. \/ receipts'[r] = receipts[r]
          \/ receipts'[r] = [receipts[r] EXCEPT !.posted = TRUE]
      BY <1>2 DEF RepostStore
    <3> QED BY <3>1, <3>2 DEF ReceiptRow
  <2> QED BY <1>2, <2>1 DEF RepostStore
<1> QED
  BY <1>1, <1>2 DEF Repost

LEMMA ContractInvStep ==
    ASSUME ContractInv, [Next]_vars
    PROVE  ContractInv'
<1>1. ASSUME NEW p \in Worker, Handle(p) \/ Fail(p)
      PROVE  \A o \in Worker : Due(tx[o])'
  <2>1. CASE Onboard(p)
    BY <2>1, OnboardLeads, LeadsDue
       DEF Onboard, StartTap, BeginTap, Contact, NameEntered, NameRefused
  <2>2. CASE SendReceipt(p)
    BY <2>2, SendReceiptLeads, LeadsDue
       DEF SendReceipt, IPaid, PhotoRefused, TakeSubmitLock, SubmitRefused,
           Submit, PostCard
  <2>3. CASE Moderate(p)
    BY <2>3, ModerateLeads, LeadsDue
       DEF Moderate, RejectTap, Review, ReviewNothing, Announce, Ban, Unban
  <2>4. CASE Fail(p)
    BY <2>4, EndedLeads, LeadsDue DEF Fail
  <2> QED BY <1>1, <2>1, <2>2, <2>3, <2>4, CommitDue DEF Handle
<1>2. ASSUME NEW p \in Worker, NEW r \in Request, Begin(p, r)
      PROVE  \A o \in Worker : Due(tx[o])'
  BY <1>2, BeginLeads, LeadsDue DEF Begin
<1>3. ASSUME UNCHANGED vars \/ LockExpires \/ Repost
      PROVE  \A o \in Worker : Due(tx[o])'
  BY <1>3, OutsideDue, RepostKeeps DEF vars, LockExpires, db, ContractInv, IInv
<1>4. ASSUME Crash PROVE \A o \in Worker : Due(tx[o])'
  BY <1>4 DEF Crash, Due, NoTx
<1>5. IInv'
  BY NextIInv DEF ContractInv
<1> QED
  BY <1>1, <1>2, <1>3, <1>4, <1>5 DEF Next, ContractInv

LEMMA InitContract == Init => ContractInv
BY InitIInv DEF Init, ContractInv, Due, NoTx

\* The commit of a transaction is a step of the contract, or none.
LEMMA ContractCommit ==
    ASSUME ContractInv, NEW p \in Worker, Commit(p)
    PROVE  [Contract!Next]_(Contract!vars)
<1> DEFINE t == tx[p]  r == tx[p].receipt
           review == [i \in ReceiptId |-> receipts[i].status]
<1>1. IInv /\ Due(t) /\ t \in TxType /\ user \in UserRow
  BY DEF ContractInv, IInv, TypeOK
<1>2. user' = IF t.lock = "X" THEN t.row ELSE user
  BY DEF Commit
<1>3. CASE r = None
  <2>1. review' = review
    BY <1>1, <1>3, CommitRows DEF ReceiptId, None
  <2>2. CASE t.lock # "X"
    BY <1>2, <2>1, <2>2 DEF Contract!vars
  <2>3. CASE t.lock = "X"
    <3>1. user' = t.row /\ Alone(t.row)
      BY <1>1, <1>2, <1>3, <2>3 DEF Due
    <3> HIDE DEF t, r, review
    <3>2. Contract!Register \/ Contract!Ban \/ Contract!Unban
      BY <2>1, <3>1
         DEF review, Alone, Contract!Register, Contract!Ban, Contract!Unban
    <3> QED BY <3>2 DEF Contract!Next
  <2> QED BY <2>2, <2>3
<1>4. CASE r # None
  <2>1. r \in ReceiptId /\ \A i \in ReceiptId :
           receipts'[i].status = IF i = r THEN t.record.status
                                 ELSE receipts[i].status
    BY <1>1, <1>4, CommitRows
  <2>2. review' = [review EXCEPT ![r] = t.record.status]
          /\ review[r] = receipts[r].status
    <3> HIDE DEF t, r
    <3> QED BY <2>1
  <2>3. CASE t.record.status = "pending"
    <3>1. review[r] = "absent"
            /\ (t.lock = "X" => t.row.status = "pending_approval"
                                  /\ t.row.stamped = user.stamped)
      BY <1>1, <1>4, <2>2, <2>3 DEF Due
    <3> HIDE DEF t, r, review
    <3>2. Contract!Decide(r, "absent", "pending")
      BY <2>2, <2>3, <3>1 DEF review, Contract!Decide
    <3>3. Contract!SendReceipt
      BY <1>2, <2>1, <3>1, <3>2 DEF Contract!SendReceipt
    <3> QED BY <3>3 DEF Contract!Next
  <2>4. CASE t.record.status # "pending"
    <3>1. /\ t.record.status \in {"approved", "rejected"}
          /\ review[r] = "pending" /\ user' = t.row
          /\ Verdict(t.row, t.record.status)
      BY <1>1, <1>2, <1>4, <2>2, <2>4 DEF Due
    <3>2. t.row.stamped \in BOOLEAN
      BY <1>1 DEF TxType, UserRow
    <3> HIDE DEF t, r, review
    <3>3. review[r] = "pending" /\ review' = [review EXCEPT ![r] = t.record.status]
      BY <2>2, <3>1
    <3>4. CASE t.record.status = "approved"
      <4>1. IF user.status = "banned" THEN user' = user
            ELSE user'.status = "approved" /\ user'.stamped = TRUE
        BY <3>1, <3>2, <3>4 DEF Verdict
      <4>2. Contract!Decide(r, "pending", "approved")
        BY <3>3, <3>4 DEF review, Contract!Decide
      <4>3. Contract!Approve
        BY <2>1, <4>1, <4>2 DEF Contract!Approve
      <4> QED BY <4>3 DEF Contract!Next
    <3>5. CASE t.record.status = "rejected"
      <4>1. /\ user'.status = IF user.status = "banned" THEN "banned"
                               ELSE "rejected"
            /\ user'.stamped = user.stamped
        BY <3>1, <3>5 DEF Verdict
      <4>2. Contract!Decide(r, "pending", "rejected")
        BY <3>3, <3>5 DEF review, Contract!Decide
      <4>3. Contract!Reject
        BY <2>1, <4>1, <4>2 DEF Contract!Reject
      <4> QED BY <4>3 DEF Contract!Next
    <3> QED BY <3>1, <3>4, <3>5
  <2> QED BY <2>3, <2>4
<1> QED
  BY <1>3, <1>4

LEMMA ContractStep ==
    ASSUME ContractInv, [Next]_vars
    PROVE  [Contract!Next]_(Contract!vars)
<1>1. CASE UNCHANGED user
           /\ \A r \in ReceiptId : receipts'[r].status = receipts[r].status
  BY <1>1 DEF Contract!vars
<1>2. CASE UNCHANGED db
  BY <1>1, <1>2 DEF db
<1>3. CASE RepostStore
  BY <1>1, <1>3, RepostKeeps DEF Repost, ContractInv, IInv
<1> QED
  BY <1>2, <1>3, ContractCommit, Writers

\* The funnel implements the contract of access: whatever overlaps, fails or
\* expires, each commit changes the student and one receipt together, as one
\* step of the contract.
THEOREM ContractKept == Spec => KeepsContract
<1>1. Init => Contract!Init
  BY DEF Init, Contract!Init, NoReceipt
<1> QED
  BY <1>1, InitContract, ContractInvStep, ContractStep, PTL
     DEF Spec, KeepsContract, Contract!Spec

\* What the contract says of access, of which the funnel is one implementation.
LEMMA ContractPays == Contract!Spec => []AccessIsPaid
<1>1. Contract!Init => AccessIsPaid
  BY StartAssumption DEF Contract!Init, AccessIsPaid
<1>2. ASSUME AccessIsPaid, [Contract!Next]_(Contract!vars)
      PROVE  AccessIsPaid'
  <2> DEFINE review == [r \in ReceiptId |-> receipts[r].status]
             Paid == \E r \in ReceiptId : review[r] = "approved"
  <2>1. /\ AccessIsPaid <=>
              (user.status = "approved" \/ user.stamped => user.stamped /\ Paid)
        /\ AccessIsPaid' <=>
              (user'.status = "approved" \/ user'.stamped
                  => user'.stamped /\ Paid')
    BY DEF AccessIsPaid
  <2>2. ASSUME NEW r \in ReceiptId, NEW from, from # "approved", NEW to,
               Contract!Decide(r, from, to)
        PROVE  (Paid => Paid') /\ (to = "approved" => Paid')
    <3>1. review[r] = from /\ review' = [review EXCEPT ![r] = to]
      BY <2>2 DEF Contract!Decide
    <3>2. \A i \in ReceiptId : review'[i] = IF i = r THEN to ELSE review[i]
      <4>1. DOMAIN review = ReceiptId
        OBVIOUS
      <4> HIDE DEF review
      <4> QED BY <3>1, <4>1
    <3> HIDE DEF review
    <3> QED BY <2>2, <3>1, <3>2
  <2>3. CASE Contract!Register \/ Contract!Ban \/ Contract!Unban
               \/ UNCHANGED Contract!vars
    <3>1. /\ review' = review /\ user'.stamped = user.stamped
          /\ user'.status = "approved" => user'.stamped \/ user.status = "approved"
      BY <2>3 DEF Contract!Register, Contract!Ban, Contract!Unban, Contract!vars
    <3>2. Paid => Paid'
      <4> HIDE DEF review
      <4> QED BY <3>1
    <3> HIDE DEF Paid
    <3> QED BY <1>2, <2>1, <3>1, <3>2
  <2>4. CASE Contract!SendReceipt \/ Contract!Reject
    <3>1. /\ Paid => Paid'
          /\ user'.stamped = user.stamped
          /\ user'.status = "approved" => user.status = "approved"
      BY <2>2, <2>4 DEF Contract!SendReceipt, Contract!Reject
    <3> HIDE DEF Paid
    <3> QED BY <1>2, <2>1, <3>1
  <2>5. CASE Contract!Approve
    <3>1. /\ Paid'
          /\ \/ user'.stamped = user.stamped /\ user'.status = user.status
             \/ user'.stamped
      BY <2>2, <2>5 DEF Contract!Approve
    <3> HIDE DEF Paid
    <3> QED BY <1>2, <2>1, <3>1
  <2> QED
    BY <1>2, <2>3, <2>4, <2>5 DEF Contract!Next
<1> QED
  BY <1>1, <1>2, PTL DEF Contract!Spec

\* Nobody has access, or would get it back from /unban, without an approved
\* receipt.
THEOREM AccessIsAlwaysPaid == Spec => []AccessIsPaid
BY ContractKept, ContractPays, PTL DEF KeepsContract

-----------------------------------------------------------------------------
(* The cap on pending receipts.  What counts is how many are pending, and how  *)
(* many photos in hand may still insert one: a photo adds itself to the second *)
(* number when its update comes, and moves to the first when it commits.       *)

\* A transaction t at place l that submit() will not refuse for the cap.
Photo(t, l) ==
    l # "idle" /\ t.op = "photo" /\ Cardinality(t.pending) < MaxPending

\* Only such a transaction inserts a pending receipt.
Counts(t, l) ==
    /\ l = "submit" => t.op = "photo"
    /\ t.receipt # None /\ t.record.status = "pending" => Photo(t, l)

\* The inductive invariant of the cap.
CapInv == /\ IInv
          /\ \A p \in Worker : Counts(tx[p], pc[p])
          /\ CapDiscipline

LEMMA FiniteCounts ==
    ASSUME NEW S \in SUBSET Worker, NEW rows
    PROVE  /\ IsFiniteSet(S) /\ Cardinality(S) \in Nat
           /\ Cardinality(S) <= Cardinality(Worker)
           /\ Cardinality(Worker) \in Nat
           /\ IsFiniteSet(Pending(rows)) /\ Cardinality(Pending(rows)) \in Nat
<1>1. IsFiniteSet(ReceiptId)
  BY LimitsAssumption, FS_Interval DEF ReceiptId
<1>2. Pending(rows) \in SUBSET ReceiptId
  BY DEF Pending
<1> QED
  BY <1>1, <1>2, WorkersAssumption, FS_Subset, FS_CardinalityType

\* With no more pending receipts and no more photos the sum is kept.
LEMMA SumKept ==
    ASSUME CapDiscipline, Pending(receipts') \subseteq Pending(receipts),
           Admitted' \subseteq Admitted
    PROVE  CapDiscipline'
<1> DEFINE P == Pending(receipts)  Q == Pending(receipts')
<1>1. Admitted \in SUBSET Worker /\ Admitted' \in SUBSET Worker
  BY DEF Admitted
<1>2. /\ IsFiniteSet(P) /\ Cardinality(P) \in Nat /\ Cardinality(Q) \in Nat
      /\ IsFiniteSet(Admitted) /\ Cardinality(Admitted) \in Nat
      /\ Cardinality(Admitted') \in Nat /\ Cardinality(Worker) \in Nat
  BY <1>1, FiniteCounts
<1>3. Cardinality(Q) <= Cardinality(P)
        /\ Cardinality(Admitted') <= Cardinality(Admitted)
  <2> HIDE DEF P, Q
  <2> QED BY <1>2, FS_Subset DEF P, Q
<1>4. Cardinality(P) + Cardinality(Admitted)
         <= MaxPending + Cardinality(Worker) - 1
  BY DEF CapDiscipline
<1>5. Cardinality(Q) + Cardinality(Admitted')
         <= MaxPending + Cardinality(Worker) - 1
  <2> HIDE DEF P, Q
  <2> QED BY <1>2, <1>3, <1>4, CapAssumption
<1> QED
  BY <1>5 DEF CapDiscipline

\* The photos in hand, when one activation goes on.
LEMMA AdmittedMoves ==
    ASSUME NEW p \in Worker, NEW t, NEW l, Moves(p, t, l)
    PROVE  /\ Admitted' \subseteq Admitted \cup {p}
           /\ p \in Admitted' <=> Photo(t, l)
           /\ p \in Admitted <=> Photo(tx[p], pc[p])
BY DEF Moves, Admitted, Photo

LEMMA CountsMoves ==
    ASSUME CapInv, NEW p \in Worker, NEW t, NEW l, Moves(p, t, l), Counts(t, l)
    PROVE  \A o \in Worker : Counts(tx[o], pc[o])'
<1>1. ASSUME NEW o \in Worker, NEW u, NEW k, tx'[o] = u, pc'[o] = k,
             Counts(u, k)
      PROVE  Counts(tx[o], pc[o])'
  BY <1>1 DEF Counts, Photo
<1>2. ASSUME NEW o \in Worker \ {p}
      PROVE  Counts(tx[o], pc[o]) /\ tx'[o] = tx[o] /\ pc'[o] = pc[o]
  BY DEF CapInv, Moves
<1>3. tx'[p] = t /\ pc'[p] = l
  BY DEF Moves
<1> QED
  BY <1>1, <1>2, <1>3

\* What a handler that does not commit makes of its transaction.
Steady(p) == \E t, l : /\ Moves(p, t, l) /\ Counts(t, l)
                       /\ Photo(t, l) => Photo(tx[p], pc[p])

LEMMA EndedSteady ==
    ASSUME CapInv, NEW p \in Worker, Ended(p)
    PROVE  Steady(p)
<1>1. Moves(p, NoTx, "idle")
  BY EndedMoves DEF CapInv, IInv
<1>2. Counts(NoTx, "idle") /\ ~Photo(NoTx, "idle")
  BY DEF Counts, Photo, NoTx, None
<1> QED
  BY <1>1, <1>2 DEF Steady

LEMMA WriteSteady ==
    ASSUME CapInv, NEW p \in Worker, NEW to \in UserRow,
           WriteUser(p, to), Goto(p, "commit"), pc[p] = "handle"
    PROVE  Steady(p)
<1> DEFINE t == [tx[p] EXCEPT !.lock = "X", !.row = to]
<1>1. Moves(p, t, "commit")
  BY WriteUserMoves DEF CapInv, IInv
<1>2. tx[p] \in TxType /\ tx[p].receipt = None
  BY DEF CapInv, IInv, TypeOK, TxDiscipline
<1>3. t.op = tx[p].op /\ t.pending = tx[p].pending /\ t.receipt = None
  BY <1>2 DEF TxType
<1> HIDE DEF t
<1>4. Counts(t, "commit") /\ (Photo(t, "commit") => Photo(tx[p], pc[p]))
  BY <1>3 DEF Counts, Photo
<1> QED
  BY <1>1, <1>4 DEF Steady

LEMMA StatusSteady ==
    ASSUME CapInv, NEW p \in Worker, NEW s \in UserStatus,
           SetStatus(p, s), Goto(p, "commit"), pc[p] = "handle"
    PROVE  Steady(p)
<1> DEFINE to == [user EXCEPT !.status = s]
<1>1. to \in UserRow
  BY DEF CapInv, IInv, TypeOK, UserRow
<1>2. WriteUser(p, to)
  BY DEF SetStatus
<1> HIDE DEF to
<1> QED
  BY <1>1, <1>2, WriteSteady

\* A handler that goes on with its transaction as it is.
LEMMA StaySteady ==
    ASSUME CapInv, NEW p \in Worker, NEW l \in Place, Goto(p, l), tx' = tx,
           l # "idle", pc[p] # "idle", l = "submit" => tx[p].op = "photo"
    PROVE  Steady(p)
<1>1. Moves(p, tx[p], l)
  BY StayMoves DEF CapInv, IInv
<1>2. Counts(tx[p], pc[p])
  BY DEF CapInv
<1>3. Counts(tx[p], l) /\ (Photo(tx[p], l) => Photo(tx[p], pc[p]))
  BY <1>2 DEF Counts, Photo
<1> QED
  BY <1>1, <1>3 DEF Steady

LEMMA OnboardSteady ==
    ASSUME CapInv, NEW p \in Worker, Onboard(p)
    PROVE  Steady(p)
<1>1. CASE Ended(p)
  BY <1>1, EndedSteady
<1>2. CASE /\ pc[p] = "handle" /\ Goto(p, "commit")
           /\ \E s \in UserStatus : SetStatus(p, s)
  BY <1>2, StatusSteady
<1>3. CASE NameEntered(p) /\ ~Ended(p)
  <2> DEFINE to == [user EXCEPT !.status = "pending_payment", !.code = nextCode]
  <2>1. nextCode \in 0..MaxCodes /\ user \in UserRow
    BY <1>3, LimitsAssumption DEF NameEntered, CapInv, IInv, TypeOK
  <2>2. to \in UserRow
    BY <2>1 DEF UserRow, UserStatus
  <2>3. WriteUser(p, to) /\ Goto(p, "commit") /\ pc[p] = "handle"
    BY <1>3 DEF NameEntered, Handling
  <2> HIDE DEF to
  <2> QED BY <2>2, <2>3, WriteSteady
<1> QED
  BY <1>1, <1>2, <1>3
     DEF Onboard, StartTap, BeginTap, Contact, NameRefused, Handling, UserStatus

LEMMA SendReceiptSteady ==
    ASSUME CapInv, NEW p \in Worker, SendReceipt(p)
    PROVE  Steady(p)
<1>1. CASE IPaid(p) \/ PhotoRefused(p) \/ SubmitRefused(p)
  BY <1>1, EndedSteady DEF IPaid, PhotoRefused, SubmitRefused
<1>2. CASE TakeSubmitLock(p)
  BY <1>2, StaySteady DEF TakeSubmitLock, Handling, Place
<1>3. TypeOK /\ Counts(tx[p], pc[p])
  BY DEF CapInv, IInv
<1>4. CASE Submit(p)
  <2>1. PICK t \in TxType :
           /\ Moves(p, t, "post")
           /\ t.op = tx[p].op /\ t.pending = tx[p].pending
    BY <1>3, <1>4, SubmitMoves
  <2>2. Photo(t, "post") /\ Photo(tx[p], pc[p])
    BY <1>3, <1>4, <2>1 DEF Submit, Counts, Photo
  <2> QED BY <2>1, <2>2 DEF Steady, Counts
<1>5. CASE PostCard(p)
  <2>1. PICK t \in TxType :
           /\ Moves(p, t, "commit") /\ t.receipt = tx[p].receipt
           /\ t.op = tx[p].op /\ t.pending = tx[p].pending
           /\ t.record.status = tx[p].record.status
    BY <1>3, <1>5, PostMoves
  <2>2. Counts(t, "commit") /\ (Photo(t, "commit") => Photo(tx[p], pc[p]))
    BY <1>3, <1>5, <2>1 DEF PostCard, Counts, Photo
  <2> QED BY <2>1, <2>2 DEF Steady
<1> QED
  BY <1>1, <1>2, <1>4, <1>5 DEF SendReceipt

LEMMA ModerateSteady ==
    ASSUME CapInv, NEW p \in Worker, Moderate(p)
    PROVE  Steady(p)
<1>1. CASE Ended(p)
  BY <1>1, EndedSteady
<1>2. CASE Review(p)
  <2>1. PICK t \in TxType, l \in {"announce", "commit"} :
           /\ Handling(p, "approve") \/ Handling(p, "reason")
           /\ Moves(p, t, l)
           /\ t.op = tx[p].op /\ t.record.status # "pending"
    BY <1>2, ReviewMoves DEF CapInv, IInv
  <2>2. Counts(t, l) /\ ~Photo(t, l)
    BY <2>1 DEF Handling, Counts, Photo
  <2> QED BY <2>1, <2>2 DEF Steady
<1>3. CASE Announce(p)
  BY <1>3, StaySteady DEF Announce, Place
<1>4. CASE Ban(p)
  BY <1>4, StatusSteady DEF Ban, Handling, UserStatus
<1>5. CASE Unban(p) /\ ~Ended(p)
  BY <1>5, StatusSteady DEF Unban, Handling, UserStatus
<1> QED
  BY <1>1, <1>2, <1>3, <1>4, <1>5 DEF Moderate, RejectTap, ReviewNothing

LEMMA SteadyCap ==
    ASSUME CapInv, NEW p \in Worker, Steady(p), UNCHANGED receipts
    PROVE  CapDiscipline' /\ \A o \in Worker : Counts(tx[o], pc[o])'
<1>1. PICK t, l : /\ Moves(p, t, l) /\ Counts(t, l)
                  /\ Photo(t, l) => Photo(tx[p], pc[p])
  BY DEF Steady
<1>2. Admitted' \subseteq Admitted
  BY <1>1, AdmittedMoves
<1>3. Pending(receipts') = Pending(receipts)
  OBVIOUS
<1> QED
  BY <1>1, <1>2, <1>3, CountsMoves, SumKept DEF CapInv

\* An update that comes sees how many receipts are pending at that moment.
LEMMA BeginCap ==
    ASSUME CapInv, NEW p \in Worker, NEW r \in Request, Begin(p, r)
    PROVE  CapDiscipline' /\ \A o \in Worker : Counts(tx[o], pc[o])'
<1> DEFINE t == [NoTx EXCEPT !.op = r.op, !.target = r.receipt,
                             !.snap = user, !.pending = Pending(receipts)]
<1>1. Moves(p, t, "handle")
  BY BeginMoves DEF CapInv, IInv
<1>2. t.receipt = None /\ t.pending = Pending(receipts)
  BY DEF NoTx
<1> HIDE DEF t
<1>3. Counts(t, "handle")
  BY <1>2 DEF Counts
<1>4. receipts' = receipts
  BY DEF Begin, db
<1>5. CASE Photo(t, "handle")
  <2> DEFINE P == Pending(receipts)
  <2>1. Cardinality(P) < MaxPending
    BY <1>2, <1>5 DEF Photo
  <2>2. Admitted' \in SUBSET Worker
    BY DEF Admitted
  <2>3. /\ Cardinality(P) \in Nat /\ Cardinality(Worker) \in Nat
        /\ Cardinality(Admitted') \in Nat
        /\ Cardinality(Admitted') <= Cardinality(Worker)
    BY <2>2, FiniteCounts
  <2>4. Cardinality(P) + Cardinality(Admitted')
           <= MaxPending + Cardinality(Worker) - 1
    <3> HIDE DEF P
    <3> QED BY <2>1, <2>3, CapAssumption
  <2> QED BY <1>1, <1>3, <1>4, <2>4, CountsMoves DEF CapDiscipline
<1>6. CASE ~Photo(t, "handle")
  BY <1>1, <1>3, <1>4, <1>6, CountsMoves, SteadyCap DEF Steady
<1> QED
  BY <1>5, <1>6

\* A commit turns a photo in hand into a pending receipt, or adds none.
LEMMA CommitCap ==
    ASSUME CapInv, NEW p \in Worker, Commit(p)
    PROVE  CapDiscipline' /\ \A o \in Worker : Counts(tx[o], pc[o])'
<1> DEFINE r == tx[p].receipt
           P == Pending(receipts)  Q == Pending(receipts')
<1>1. Moves(p, NoTx, "idle") /\ Counts(NoTx, "idle") /\ ~Photo(NoTx, "idle")
  BY EndedMoves DEF CapInv, IInv, Commit, Counts, Photo, NoTx, None
<1>2. \A o \in Worker : Counts(tx[o], pc[o])'
  BY <1>1, CountsMoves
<1>3. Admitted' \subseteq Admitted \ {p}
  BY <1>1, AdmittedMoves
<1>4. IInv
  BY DEF CapInv
<1>5. CASE r # None /\ tx[p].record.status = "pending"
  <2>1. p \in Admitted
    BY <1>1, <1>5, AdmittedMoves DEF CapInv, Counts
  <2>2. Q \subseteq P \cup {r}
    BY <1>4, CommitRows DEF Pending
  <2>3. Admitted \in SUBSET Worker /\ Admitted' \in SUBSET Worker
    BY DEF Admitted
  <2>4. /\ IsFiniteSet(P) /\ Cardinality(P) \in Nat /\ Cardinality(Q) \in Nat
        /\ IsFiniteSet(Admitted) /\ Cardinality(Admitted) \in Nat
        /\ Cardinality(Admitted') \in Nat /\ Cardinality(Worker) \in Nat
    BY <2>3, FiniteCounts
  <2> HIDE DEF P, Q, r
  <2>5. IsFiniteSet(P \cup {r}) /\ Cardinality(P \cup {r}) <= Cardinality(P) + 1
    <3>1. /\ IsFiniteSet(P \cup {r})
          /\ Cardinality(P \cup {r})
                = IF r \in P THEN Cardinality(P) ELSE Cardinality(P) + 1
      BY <2>4, FS_AddElement
    <3> QED BY <2>4, <3>1
  <2>6. Cardinality(Q) <= Cardinality(P) + 1
    <3>1. Cardinality(Q) <= Cardinality(P \cup {r})
            /\ Cardinality(P \cup {r}) \in Nat
      BY <2>2, <2>5, FS_Subset, FS_CardinalityType
    <3> QED BY <2>4, <2>5, <3>1
  <2>7. /\ IsFiniteSet(Admitted \ {p})
        /\ Cardinality(Admitted \ {p}) = Cardinality(Admitted) - 1
    BY <2>1, <2>4, FS_RemoveElement
  <2>8. Cardinality(Admitted') <= Cardinality(Admitted) - 1
    BY <1>3, <2>7, FS_Subset
  <2>9. Cardinality(P) + Cardinality(Admitted)
           <= MaxPending + Cardinality(Worker) - 1
    BY DEF P, CapInv, CapDiscipline
  <2>10. Cardinality(Q) + Cardinality(Admitted')
           <= MaxPending + Cardinality(Worker) - 1
    BY <2>4, <2>6, <2>8, <2>9, CapAssumption
  <2> QED BY <1>2, <2>10 DEF Q, CapDiscipline
<1>6. CASE r = None \/ tx[p].record.status # "pending"
  <2>1. Q \subseteq P
    BY <1>4, <1>6, CommitRows DEF Pending, ReceiptId, None
  <2> QED BY <1>2, <1>3, <2>1, SumKept DEF CapInv
<1> QED
  BY <1>5, <1>6

\* The steps that touch no transaction and no status of a receipt.
LEMMA OutsideCap ==
    ASSUME CapInv, UNCHANGED <<tx, pc>>,
           \A r \in ReceiptId : receipts'[r].status = receipts[r].status
    PROVE  CapDiscipline' /\ \A o \in Worker : Counts(tx[o], pc[o])'
<1>1. Pending(receipts') = Pending(receipts) /\ Admitted' = Admitted
  BY DEF Pending, Admitted
<1>2. \A o \in Worker : Counts(tx[o], pc[o])'
  BY DEF CapInv, Counts, Photo
<1> QED
  BY <1>1, <1>2, SumKept DEF CapInv

LEMMA CrashCap ==
    ASSUME CapInv, Crash
    PROVE  CapDiscipline' /\ \A o \in Worker : Counts(tx[o], pc[o])'
<1>1. \A o \in Worker : tx'[o] = NoTx /\ pc'[o] = "idle"
  BY DEF Crash
<1>2. Admitted' \subseteq Admitted
  BY <1>1 DEF Admitted
<1>3. Pending(receipts') = Pending(receipts)
  BY DEF Crash, db
<1>4. \A o \in Worker : Counts(tx[o], pc[o])'
  BY <1>1 DEF Counts, NoTx, None
<1> QED
  BY <1>2, <1>3, <1>4, SumKept DEF CapInv

LEMMA RepostCap ==
    ASSUME CapInv, Repost
    PROVE  CapDiscipline' /\ \A o \in Worker : Counts(tx[o], pc[o])'
BY RepostKeeps, OutsideCap DEF CapInv, IInv

LEMMA CapStep ==
    ASSUME CapInv, [Next]_vars
    PROVE  CapInv'
<1>1. ASSUME NEW p \in Worker, Handle(p) \/ Fail(p)
      PROVE  CapDiscipline' /\ \A o \in Worker : Counts(tx[o], pc[o])'
  <2>1. CASE Onboard(p)
    BY <2>1, OnboardSteady, SteadyCap
       DEF Onboard, StartTap, BeginTap, Contact, NameEntered, NameRefused, db
  <2>2. CASE SendReceipt(p)
    BY <2>2, SendReceiptSteady, SteadyCap
       DEF SendReceipt, IPaid, PhotoRefused, TakeSubmitLock, SubmitRefused,
           Submit, PostCard, db
  <2>3. CASE Moderate(p)
    BY <2>3, ModerateSteady, SteadyCap
       DEF Moderate, RejectTap, Review, ReviewNothing, Announce, Ban, Unban, db
  <2>4. CASE Fail(p)
    BY <2>4, EndedSteady, SteadyCap DEF Fail, db
  <2> QED BY <1>1, <2>1, <2>2, <2>3, <2>4, CommitCap DEF Handle
<1>2. ASSUME UNCHANGED vars \/ LockExpires
      PROVE  CapDiscipline' /\ \A o \in Worker : Counts(tx[o], pc[o])'
  BY <1>2, OutsideCap DEF vars, LockExpires, db
<1>3. IInv'
  BY NextIInv DEF CapInv
<1> QED
  BY <1>1, <1>2, <1>3, BeginCap, RepostCap, CrashCap DEF Next, CapInv

\* At first no receipt is pending and no update is in hand.
LEMMA InitCap == Init => CapInv
<1> SUFFICES ASSUME Init PROVE CapInv
  OBVIOUS
<1>1. \A p \in Worker : tx[p] = NoTx /\ pc[p] = "idle"
  BY DEF Init
<1>2. \A p \in Worker : Counts(tx[p], pc[p])
  BY <1>1 DEF Counts, NoTx, None
<1>3. Admitted = {} /\ Pending(receipts) = {}
  BY <1>1 DEF Admitted, Pending, Init, NoReceipt
<1>4. Cardinality(Worker) \in Nat /\ Cardinality(Worker) # 0
  BY WorkersAssumption, FS_CardinalityType, FS_EmptySet
<1>5. CapDiscipline
  BY <1>3, <1>4, CapAssumption, FS_EmptySet DEF CapDiscipline
<1> QED
  BY <1>2, <1>5, InitIInv DEF CapInv

\* The cap on pending receipts is exceeded by fewer receipts than there are
\* updates handled at once, whatever is reviewed, fails or expires meanwhile.
THEOREM CapOverrunBounded ==
    Spec => [](Cardinality(Pending(receipts))
                  <= MaxPending + Cardinality(Worker) - 1)
<1>1. ASSUME CapInv
      PROVE  Cardinality(Pending(receipts))
                <= MaxPending + Cardinality(Worker) - 1
  <2>1. Admitted \in SUBSET Worker
    BY DEF Admitted
  <2>2. /\ Cardinality(Admitted) \in Nat /\ Cardinality(Worker) \in Nat
        /\ Cardinality(Pending(receipts)) \in Nat
    BY <2>1, FiniteCounts
  <2> QED BY <1>1, <2>2, CapAssumption DEF CapInv, CapDiscipline
<1> QED
  BY <1>1, InitCap, CapStep, PTL DEF Spec

\* If the updates are handled one at a time, the cap is never exceeded.
COROLLARY CapHoldsAlone ==
    ASSUME Cardinality(Worker) = 1
    PROVE  Spec => [](Cardinality(Pending(receipts)) <= MaxPending)
<1>1. (Cardinality(Pending(receipts)) <= MaxPending + Cardinality(Worker) - 1)
         => (Cardinality(Pending(receipts)) <= MaxPending)
  BY CapAssumption
<1> QED
  BY <1>1, CapOverrunBounded, PTL

\* The types, the transactions and the cap, which is what is checked.
THEOREM FunnelInvariant == Spec => []FunnelInv
<1>1. CapInv => FunnelInv
  BY DEF CapInv, IInv, FunnelInv
<1> QED
  BY <1>1, InitCap, CapStep, PTL DEF Spec

-----------------------------------------------------------------------------
(* What the student is told, and what becomes of a banned one. *)

\* What a transaction t at place l is about.  What it announces is the verdict
\* it will commit; a receipt that is decided is committed with a user who is no
\* longer under review; and a row written over a banned one is still banned,
\* unless it is that of /unban, or of a student not banned in the snapshot.
Fit(t, l) ==
    /\ l = "submit" => t.op = "photo"
    /\ l = "announce" => t.receipt # None /\ t.record.status = t.fate
    /\ t.receipt # None => \/ t.record.status = "pending"
                           \/ t.lock = "X" /\ t.row.status # "pending_approval"
    /\ t.lock = "X" /\ t.row.status = "pending_approval" => t.receipt # None
    /\ t.lock = "X" => \/ user.status # "banned" \/ t.row.status = "banned"
                       \/ t.op = "unban" /\ t.row.status = "approved"
                       \/ t.op \in StudentOp /\ t.snap.status # "banned"

\* A verdict v the student was sent of r is on its row, or about to be.
Kept(r, v) ==
    \/ receipts[r].status = v
    \/ \E p \in Worker : /\ pc[p] = "commit" /\ tx[p].receipt = r
                         /\ tx[p].record.status = v

\* Unless the review that sent it was rolled back.
ToldTruly ==
    \A r \in ReceiptId : \A v \in verdicts[r] : v \in undone[r] \/ Kept(r, v)

\* The inductive invariant of the review.
ReviewInv == /\ IInv
             /\ \A p \in Worker : Fit(tx[p], pc[p])
             /\ ReviewIsPending /\ ToldTruly

LEMMA BlankFit == Fit(NoTx, "idle")
BY DEF Fit, NoTx, NoUser, None

\* The others stay fit when one activation goes on without a commit.
LEMMA MovesFit ==
    ASSUME ReviewInv, user' = user, NEW p \in Worker, NEW t, NEW l,
           Moves(p, t, l), Fit(t, l)
    PROVE  \A o \in Worker : Fit(tx[o], pc[o])'
<1>1. ASSUME NEW o \in Worker, NEW u, NEW k, tx'[o] = u, pc'[o] = k, Fit(u, k)
      PROVE  Fit(tx[o], pc[o])'
  BY <1>1 DEF Fit
<1>2. ASSUME NEW o \in Worker \ {p} PROVE Fit(tx[o], pc[o]) /\ tx'[o] = tx[o] /\ pc'[o] = pc[o]
  BY DEF ReviewInv, Moves
<1>3. tx'[p] = t /\ pc'[p] = l
  BY DEF Moves
<1> QED
  BY <1>1, <1>2, <1>3

LEMMA WriteFit ==
    ASSUME ReviewInv, NEW p \in Worker, NEW to \in UserRow,
           WriteUser(p, to), Goto(p, "commit"), Handling(p, tx[p].op),
           to.status # "pending_approval",
           \/ to.status = "banned"
           \/ tx[p].op = "unban" /\ to.status = "approved"
           \/ tx[p].op \in StudentOp /\ tx[p].snap.status # "banned"
    PROVE  \E t, l : Moves(p, t, l) /\ Fit(t, l)
<1> DEFINE t == [tx[p] EXCEPT !.lock = "X", !.row = to]
<1>1. Moves(p, t, "commit")
  BY WriteUserMoves DEF ReviewInv, IInv
<1>2. tx[p] \in TxType /\ tx[p].receipt = None
  BY DEF ReviewInv, IInv, TypeOK, TxDiscipline, Handling
<1>3. /\ t.op = tx[p].op /\ t.receipt = None /\ t.lock = "X" /\ t.row = to
      /\ t.snap = tx[p].snap
  BY <1>2 DEF TxType
<1>4. Fit(t, "commit")
  <2> HIDE DEF t
  <2> QED BY <1>3 DEF Fit
<1> HIDE DEF t
<1> QED
  BY <1>1, <1>4

LEMMA StatusFit ==
    ASSUME ReviewInv, NEW p \in Worker, NEW s \in UserStatus,
           SetStatus(p, s), Goto(p, "commit"), Handling(p, tx[p].op),
           s # "pending_approval",
           \/ s = "banned"
           \/ tx[p].op = "unban" /\ s = "approved"
           \/ tx[p].op \in StudentOp /\ tx[p].snap.status # "banned"
    PROVE  \E t, l : Moves(p, t, l) /\ Fit(t, l)
<1> DEFINE to == [user EXCEPT !.status = s]
<1>1. to \in UserRow /\ to.status = s
  BY DEF ReviewInv, IInv, TypeOK, UserRow
<1>2. WriteUser(p, to)
  BY DEF SetStatus
<1> HIDE DEF to
<1> QED
  BY <1>1, <1>2, WriteFit

LEMMA EndedFit ==
    ASSUME ReviewInv, NEW p \in Worker, Ended(p)
    PROVE  \E t, l : Moves(p, t, l) /\ Fit(t, l)
BY EndedMoves, BlankFit DEF ReviewInv, IInv

LEMMA OnboardFit ==
    ASSUME ReviewInv, NEW p \in Worker, Onboard(p)
    PROVE  \E t, l : Moves(p, t, l) /\ Fit(t, l)
<1>1. CASE StartTap(p) \/ NameRefused(p)
  BY <1>1, EndedFit DEF StartTap, NameRefused
<1>2. CASE BeginTap(p)
  <2>1. CASE Ended(p)
    BY <2>1, EndedFit
  <2>2. CASE /\ tx[p].snap.status = "new"
             /\ SetStatus(p, "onboarding_phone") /\ Goto(p, "commit")
    BY <1>2, <2>2, StatusFit DEF BeginTap, Handling, UserStatus, StudentOp
  <2> QED BY <1>2, <2>1, <2>2 DEF BeginTap
<1>3. CASE Contact(p)
  <2>1. CASE Ended(p)
    BY <2>1, EndedFit
  <2>2. CASE /\ tx[p].snap.status \in {"new", "onboarding_phone"}
             /\ SetStatus(p, "onboarding_name") /\ Goto(p, "commit")
    BY <1>3, <2>2, StatusFit DEF Contact, Handling, UserStatus, StudentOp
  <2> QED BY <1>3, <2>1, <2>2 DEF Contact
<1>4. CASE NameEntered(p)
  <2>1. CASE Ended(p)
    BY <2>1, EndedFit
  <2>2. CASE /\ tx[p].snap.status # "banned" /\ Goto(p, "commit")
             /\ WriteUser(p, [user EXCEPT !.status = "pending_payment",
                                          !.code = nextCode])
    <3> DEFINE to == [user EXCEPT !.status = "pending_payment", !.code = nextCode]
    <3>1. nextCode \in 0..MaxCodes /\ user \in UserRow
      BY <1>4, LimitsAssumption DEF NameEntered, ReviewInv, IInv, TypeOK
    <3>2. to \in UserRow /\ to.status = "pending_payment"
      BY <3>1 DEF UserRow, UserStatus
    <3>3. WriteUser(p, to)
      BY <2>2
    <3> HIDE DEF to
    <3> QED BY <1>4, <2>2, <3>2, <3>3, WriteFit
            DEF NameEntered, Handling, StudentOp
  <2> QED BY <1>4, <2>1, <2>2 DEF NameEntered
<1> QED
  BY <1>1, <1>2, <1>3, <1>4 DEF Onboard

LEMMA SendReceiptFit ==
    ASSUME ReviewInv, NEW p \in Worker, SendReceipt(p)
    PROVE  \E t, l : Moves(p, t, l) /\ Fit(t, l)
<1>1. CASE IPaid(p) \/ PhotoRefused(p) \/ SubmitRefused(p)
  BY <1>1, EndedFit DEF IPaid, PhotoRefused, SubmitRefused
<1>2. tx[p] \in TxType /\ Fit(tx[p], pc[p])
  BY DEF ReviewInv, IInv, TypeOK
<1>3. CASE TakeSubmitLock(p)
  <2>1. Moves(p, tx[p], "submit")
    BY <1>3, StayMoves DEF ReviewInv, IInv, TakeSubmitLock, Place
  <2>2. Fit(tx[p], "submit")
    BY <1>2, <1>3 DEF Fit, TakeSubmitLock, Handling
  <2> QED BY <2>1, <2>2
<1>4. CASE Submit(p)
  <2>1. PICK t \in TxType :
           /\ Moves(p, t, "post")
           /\ t.receipt = nextId /\ t.snap = tx[p].snap
           /\ t.op = tx[p].op /\ t.record.status = "pending"
           /\ \/ /\ t.lock = "X" /\ CanWrite(p)
                 /\ t.row = [user EXCEPT !.status = "pending_approval"]
                 /\ tx[p].snap.status # "banned"
              \/ t.lock = "S" /\ CanShare(p)
    BY <1>4, SubmitMoves DEF ReviewInv, IInv
  <2>2. t.op \in StudentOp /\ nextId # None
    BY <1>2, <1>4, <2>1, NextIdNat
       DEF Submit, Fit, StudentOp, None, ReviewInv, IInv
  <2>3. Fit(t, "post")
    BY <2>1, <2>2 DEF Fit
  <2> QED BY <2>1, <2>3
<1>5. CASE PostCard(p)
  <2>1. PICK t \in TxType :
           /\ Moves(p, t, "commit")
           /\ t.receipt = tx[p].receipt /\ t.snap = tx[p].snap
           /\ t.lock = tx[p].lock /\ t.row = tx[p].row /\ t.op = tx[p].op
           /\ t.record.status = tx[p].record.status
    BY <1>5, PostMoves DEF ReviewInv, IInv
  <2>2. Fit(t, "commit")
    BY <1>2, <2>1 DEF Fit
  <2> QED BY <2>1, <2>2
<1> QED
  BY <1>1, <1>3, <1>4, <1>5 DEF SendReceipt

LEMMA ModerateFit ==
    ASSUME ReviewInv, NEW p \in Worker,
           RejectTap(p) \/ Review(p) \/ ReviewNothing(p) \/ Ban(p) \/ Unban(p)
    PROVE  \E t, l : Moves(p, t, l) /\ Fit(t, l)
<1>1. CASE RejectTap(p) \/ ReviewNothing(p)
  BY <1>1, EndedFit DEF RejectTap, ReviewNothing
<1>2. CASE Ban(p)
  BY <1>2, StatusFit DEF Ban, Handling, UserStatus
<1>3. CASE Unban(p)
  <2>1. CASE Ended(p)
    BY <2>1, EndedFit
  <2>2. CASE SetStatus(p, "approved") /\ Goto(p, "commit")
    BY <1>3, <2>2, StatusFit DEF Unban, Handling, UserStatus
  <2> QED BY <1>3, <2>1, <2>2 DEF Unban
<1>4. CASE Review(p)
  <2>1. PICK r \in ReceiptId, t \in TxType, l \in {"announce", "commit"} :
           /\ Moves(p, t, l)
           /\ t.receipt = r /\ t.snap = tx[p].snap /\ t.lock = "X"
           /\ l = "announce" => /\ t.fate \in {"approved", "rejected"}
                                /\ t.record.status = t.fate
           /\ \/ /\ t.record.status = "approved" /\ user.status # "banned"
                 /\ t.row = [user EXCEPT !.status = "approved",
                                         !.stamped = TRUE]
              \/ t.row = user /\ user.status = "banned"
              \/ /\ t.row = [user EXCEPT !.status = "rejected"]
                 /\ user.status # "banned"
    BY <1>4, ReviewMoves DEF ReviewInv, IInv
  <2>2. t.row.status # "pending_approval"
          /\ (user.status # "banned" \/ t.row.status = "banned")
    BY <2>1 DEF ReviewInv, IInv, TypeOK, UserRow
  <2>3. r # None
    BY DEF ReceiptId, None
  <2>4. Fit(t, l)
    BY <2>1, <2>2, <2>3 DEF Fit
  <2> QED BY <2>1, <2>4
<1> QED
  BY <1>1, <1>2, <1>3, <1>4

\* A step of one activation that announces and commits nothing; if it is rolled
\* back, what it had announced is undone.
LEMMA EarlyKeeps ==
    ASSUME ReviewInv, IInv', UNCHANGED <<db, verdicts>>,
           NEW p \in Worker, NEW t, NEW l, Moves(p, t, l), Fit(t, l),
           (UNCHANGED undone /\ pc[p] # "commit") \/ Undo({p})
    PROVE  ReviewInv'
<1>1. \A o \in Worker : Fit(tx[o], pc[o])'
  BY MovesFit DEF db
<1>2. ReviewIsPending'
  BY DEF ReviewInv, ReviewIsPending, Pending, db
<1>3. ToldTruly'
  <2> SUFFICES ASSUME NEW r \in ReceiptId, NEW v \in verdicts'[r]
               PROVE  v \in undone'[r] \/ Kept(r, v)'
    BY DEF ToldTruly
  <2>1. v \in verdicts[r] /\ (v \in undone[r] \/ Kept(r, v))
    BY DEF ReviewInv, ToldTruly
  <2>2. /\ v \in undone[r] => v \in undone'[r]
        /\ pc[p] = "commit" /\ tx[p].receipt = r /\ tx[p].record.status = v
               => v \in undone'[r]
    BY <2>1 DEF Undo
  <2>3. \A q \in Worker \ {p} : pc'[q] = pc[q] /\ tx'[q] = tx[q]
    BY DEF Moves
  <2> QED BY <2>1, <2>2, <2>3 DEF Kept, db
<1> QED
  BY <1>1, <1>2, <1>3 DEF ReviewInv

LEMMA AnnounceKeeps ==
    ASSUME ReviewInv, IInv', NEW p \in Worker, Announce(p)
    PROVE  ReviewInv'
<1>1. PICK r \in ReceiptId : r = tx[p].receipt /\ tx[p].record.status = tx[p].fate
  BY DEF ReviewInv, Fit, Announce, IInv, TypeOK, TxType
<1>2. /\ pc[p] = "announce" /\ UNCHANGED <<db, undone>>
      /\ \/ verdicts' = [verdicts EXCEPT ![r] = @ \cup {tx[p].fate}]
         \/ UNCHANGED verdicts
  BY <1>1 DEF Announce
<1>3. Moves(p, tx[p], "commit")
  BY StayMoves DEF ReviewInv, IInv, TypeOK, Announce, Place
<1>4. \A o \in Worker : Fit(tx[o], pc[o])'
  <2>1. Fit(tx[p], pc[p])
    BY DEF ReviewInv
  <2>2. Fit(tx[p], "commit")
    BY <1>2, <2>1 DEF Fit
  <2> QED BY <1>2, <1>3, <2>2, MovesFit DEF db
<1>5. ReviewIsPending'
  BY <1>2 DEF ReviewInv, ReviewIsPending, Pending, db
<1>6. ToldTruly'
  <2> SUFFICES ASSUME NEW s \in ReceiptId, NEW v \in verdicts'[s]
               PROVE  v \in undone[s] \/ Kept(s, v)'
    BY <1>2 DEF ToldTruly
  <2>1. verdicts \in [ReceiptId -> SUBSET {"approved", "rejected"}]
    BY DEF ReviewInv, IInv, TypeOK
  <2>2. pc'[p] = "commit" /\ tx'[p] = tx[p]
    BY <1>3 DEF Moves
  <2>3. v \in verdicts[s] \/ (s = r /\ v = tx[p].record.status)
    BY <1>1, <1>2, <2>1
  <2>4. CASE s = r /\ v = tx[p].record.status
    BY <1>1, <2>2, <2>4 DEF Kept
  <2>5. CASE v \in verdicts[s]
    <3>1. v \in undone[s] \/ Kept(s, v)
      BY <2>5 DEF ReviewInv, ToldTruly
    <3>2. \A q \in Worker : pc[q] = "commit" => pc'[q] = "commit" /\ tx'[q] = tx[q]
      BY <1>2, <1>3 DEF Moves
    <3> QED BY <1>2, <3>1, <3>2 DEF Kept, db
  <2> QED BY <2>3, <2>4, <2>5
<1> QED
  BY <1>4, <1>5, <1>6 DEF ReviewInv

LEMMA CommitKeeps ==
    ASSUME ReviewInv, IInv', NEW p \in Worker, Commit(p)
    PROVE  ReviewInv'
<1>1. /\ pc[p] = "commit" /\ UNCHANGED chat
      /\ user' = IF tx[p].lock = "X" THEN tx[p].row ELSE user
  BY DEF Commit, group
<1>2. Moves(p, NoTx, "idle")
  BY EndedMoves DEF Commit, ReviewInv, IInv
<1>3. Fit(tx[p], pc[p]) /\ IInv
  BY DEF ReviewInv
<1>4. ASSUME NEW o \in Worker PROVE Fit(tx[o], pc[o])'
  <2>1. CASE o = p
    BY <1>2, <2>1 DEF Moves, Fit, NoTx, NoUser, None
  <2>2. CASE o # p
    <3>1. tx'[o] = tx[o] /\ pc'[o] = pc[o] /\ Fit(tx[o], pc[o])
      BY <1>2, <2>2 DEF Moves, ReviewInv
    <3>2. tx[o].lock = "X" => user' = user
      BY <1>1, <1>3, <2>2 DEF IInv, TxDiscipline
    <3> QED BY <3>1, <3>2 DEF Fit
  <2> QED BY <2>1, <2>2
<1>5. ReviewIsPending'
  <2> SUFFICES ASSUME user'.status = "pending_approval"
               PROVE  \E r \in ReceiptId : receipts'[r].status = "pending"
    BY DEF ReviewIsPending, Pending
  <2>1. CASE tx[p].lock = "X"
    <3>1. tx[p].receipt # None /\ tx[p].record.status = "pending"
      BY <1>1, <1>3, <2>1 DEF Fit
    <3> QED BY <1>3, <3>1, CommitRows
  <2>2. CASE tx[p].lock # "X"
    <3>1. PICK r \in ReceiptId : receipts[r].status = "pending"
      BY <1>1, <2>2 DEF ReviewInv, ReviewIsPending, Pending
    <3>2. tx[p].receipt # None => tx[p].record.status = "pending"
      BY <1>3, <2>2 DEF Fit
    <3>3. r # None
      BY DEF ReceiptId, None
    <3> QED BY <1>3, <3>1, <3>2, <3>3, CommitRows
  <2> QED BY <2>1, <2>2
<1>6. ToldTruly'
  <2> SUFFICES ASSUME NEW r \in ReceiptId, NEW v \in verdicts[r], v \notin undone[r]
               PROVE  Kept(r, v)'
    BY <1>1 DEF ToldTruly, chat
  <2>1. Kept(r, v) /\ r # None
    BY DEF ReviewInv, ToldTruly, ReceiptId, None
  <2>2. CASE r = tx[p].receipt
    <3>1. receipts'[r] = tx[p].record
      BY <1>3, <2>1, <2>2, CommitRows
    <3>2. receipts[r].status \in {"absent", "pending"}
      BY <1>3, <2>1, <2>2 DEF IInv, TxDiscipline
    <3>3. v \in {"approved", "rejected"}
      BY <1>3 DEF IInv, TypeOK
    <3>4. tx[p].record.status = v
      BY <1>3, <2>1, <2>2, <3>2, <3>3 DEF IInv, TxDiscipline, Kept
    <3> QED BY <3>1, <3>4 DEF Kept
  <2>3. CASE r # tx[p].receipt
    <3>1. receipts'[r] = receipts[r]
      BY <1>3, <2>3, CommitRows
    <3>2. \A q \in Worker : tx[q].receipt = r => pc'[q] = pc[q] /\ tx'[q] = tx[q]
      BY <1>2, <2>3 DEF Moves
    <3> QED BY <2>1, <3>1, <3>2 DEF Kept
  <2> QED BY <2>2, <2>3
<1> QED
  BY <1>4, <1>5, <1>6 DEF ReviewInv

\* The steps of no activation: the job, the expiry of the lock, stuttering.
LEMMA OutsideKeeps ==
    ASSUME ReviewInv, IInv', UNCHANGED <<user, chat, tx, pc>>,
           \A r \in ReceiptId : receipts'[r].status = receipts[r].status
    PROVE  ReviewInv'
<1>1. \A o \in Worker : Fit(tx[o], pc[o])'
  BY DEF ReviewInv, Fit
<1>2. ReviewIsPending'
  BY DEF ReviewInv, ReviewIsPending, Pending
<1>3. ToldTruly'
  BY DEF ReviewInv, ToldTruly, Kept, chat
<1> QED
  BY <1>1, <1>2, <1>3 DEF ReviewInv

LEMMA CrashKeeps == ASSUME ReviewInv, IInv', Crash PROVE ReviewInv'
<1>1. /\ UNCHANGED <<db, verdicts>> /\ Undo(Worker)
      /\ \A o \in Worker : tx'[o] = NoTx /\ pc'[o] = "idle"
  BY DEF Crash
<1>2. \A o \in Worker : Fit(tx[o], pc[o])'
  BY <1>1 DEF Fit, NoTx, NoUser, None
<1>3. ReviewIsPending'
  BY <1>1 DEF ReviewInv, ReviewIsPending, Pending, db
<1>4. ToldTruly'
  <2> SUFFICES ASSUME NEW r \in ReceiptId, NEW v \in verdicts[r]
               PROVE  v \in undone'[r] \/ receipts'[r].status = v
    BY <1>1 DEF ToldTruly, Kept
  <2>1. v \in undone[r] \/ Kept(r, v)
    BY DEF ReviewInv, ToldTruly
  <2> QED BY <1>1, <2>1 DEF Kept, Undo, db
<1> QED
  BY <1>2, <1>3, <1>4 DEF ReviewInv

LEMMA NextReviewInv == ASSUME ReviewInv, [Next]_vars PROVE ReviewInv'
<1>1. IInv' /\ IInv
  BY NextIInv DEF ReviewInv
<1>2. ASSUME NEW p \in Worker, Onboard(p) PROVE ReviewInv'
  <2>1. UNCHANGED <<db, chat>> /\ pc[p] # "commit"
    BY <1>2 DEF Onboard, StartTap, BeginTap, Contact, NameEntered, NameRefused,
                Handling, group
  <2> QED BY <1>1, <1>2, <2>1, OnboardFit, EarlyKeeps DEF chat
<1>3. ASSUME NEW p \in Worker, SendReceipt(p) PROVE ReviewInv'
  <2>1. UNCHANGED <<db, chat>> /\ pc[p] # "commit"
    BY <1>3 DEF SendReceipt, IPaid, PhotoRefused, TakeSubmitLock, SubmitRefused,
                Submit, PostCard, Handling, group
  <2> QED BY <1>1, <1>3, <2>1, SendReceiptFit, EarlyKeeps DEF chat
<1>4. ASSUME NEW p \in Worker,
             RejectTap(p) \/ Review(p) \/ ReviewNothing(p) \/ Ban(p) \/ Unban(p)
      PROVE  ReviewInv'
  <2>1. UNCHANGED <<db, chat>> /\ pc[p] # "commit"
    BY <1>4 DEF RejectTap, Review, ReviewNothing, Ban, Unban, Approve, Reject,
                Handling, group
  <2> QED BY <1>1, <1>4, <2>1, ModerateFit, EarlyKeeps DEF chat
<1>5. ASSUME NEW p \in Worker, NEW r \in Request, Begin(p, r) PROVE ReviewInv'
  <2> DEFINE t == [NoTx EXCEPT !.op = r.op, !.target = r.receipt,
                               !.snap = user, !.pending = Pending(receipts)]
  <2>1. Moves(p, t, "handle")
    BY <1>1, <1>5, BeginMoves DEF IInv
  <2>2. Fit(t, "handle")
    BY DEF Fit, NoTx, NoUser, None
  <2>3. UNCHANGED <<db, chat>> /\ pc[p] # "commit"
    BY <1>5 DEF Begin, group
  <2> HIDE DEF t
  <2> QED BY <1>1, <1>2, <2>1, <2>2, <2>3, EarlyKeeps DEF chat
<1>6. ASSUME NEW p \in Worker, Fail(p) PROVE ReviewInv'
  <2>1. UNCHANGED <<db, verdicts>> /\ Undo({p})
    BY <1>6 DEF Fail
  <2>2. Moves(p, NoTx, "idle")
    BY <1>1, <1>6, EndedMoves DEF Fail, IInv
  <2> QED BY <1>1, <2>1, <2>2, BlankFit, EarlyKeeps
<1>7. CASE Repost \/ LockExpires \/ UNCHANGED vars
  <2>1. UNCHANGED <<user, chat, tx, pc>>
    BY <1>7 DEF Repost, RepostCollect, RepostSend, RepostStore, LockExpires,
                      vars, db, group
  <2>2. ASSUME NEW r \in ReceiptId PROVE receipts'[r].status = receipts[r].status
    <3>1. CASE UNCHANGED receipts
      BY <3>1
    <3>2. CASE RepostStore
      <4>1. receipts[r] \in ReceiptRow
        BY <1>1 DEF IInv, TypeOK
      <4>2. \/ receipts'[r] = receipts[r]
            \/ receipts'[r] = [receipts[r] EXCEPT !.posted = TRUE]
        BY <3>2 DEF RepostStore
      <4> QED BY <4>1, <4>2 DEF ReceiptRow
    <3> QED
      BY <1>7, <3>1, <3>2 DEF Repost, RepostCollect, RepostSend, LockExpires, vars, db
  <2> QED BY <1>1, <2>1, <2>2, OutsideKeeps
<1> QED
  BY <1>1, <1>2, <1>3, <1>4, <1>5, <1>6, <1>7, AnnounceKeeps, CommitKeeps, CrashKeeps
     DEF Next, Handle, Moderate

\* The inductive invariant of the review holds.
THEOREM ReviewInvariance == Spec => []ReviewInv
<1>1. Init => ReviewInv
  <2> SUFFICES ASSUME Init PROVE ReviewInv
    OBVIOUS
  <2>1. IInv
    BY InitIInv
  <2>2. \A p \in Worker : Fit(tx[p], pc[p])
    BY BlankFit DEF Init
  <2>3. ReviewIsPending /\ ToldTruly
    BY StartAssumption DEF Init, ReviewIsPending, ToldTruly
  <2> QED BY <2>1, <2>2, <2>3 DEF ReviewInv
<1> QED
  BY <1>1, NextReviewInv, PTL DEF Spec

\* ReviewIsPending: a student who is told that his payment is under review has a
\* receipt the admins have not decided, whatever updates of his are late.
THEOREM UnderReview == Spec => []ReviewIsPending
<1>1. ReviewInv => ReviewIsPending
  BY DEF ReviewInv
<1> QED
  BY <1>1, ReviewInvariance, PTL

\* OneVerdict: two admins never tell a student both, and what he is told of a
\* receipt is what its row says once the review is over, but for the verdicts of
\* reviews that were rolled back behind their message.
THEOREM ToldOneVerdict == Spec => []OneVerdict
<1>1. ReviewInv => OneVerdict
  BY DEF ReviewInv, ToldTruly, Kept, OneVerdict
<1> QED
  BY <1>1, ReviewInvariance, PTL

\* BanOutlivesReview: only /unban, or a handler of the student that had begun
\* before the ban, takes a ban away; the review of a receipt never does.
THEOREM BansOutlive == Spec => BanOutlivesReview
<1> DEFINE Step == user.status = "banned" /\ user'.status # "banned"
          => \E p \in Worker :
                /\ pc[p] = "commit"
                /\ \/ tx[p].op = "unban" /\ user'.status = "approved"
                   \/ tx[p].op \in StudentOp
                      /\ tx[p].snap.status # "banned"
<1>1. ReviewInv /\ [Next]_vars => [Step]_vars
  <2> SUFFICES ASSUME ReviewInv, [Next]_vars, user.status = "banned",
                      user'.status # "banned"
               PROVE  Step
    OBVIOUS
  <2>1. PICK p \in Worker : Commit(p)
    BY Writers DEF db, RepostStore
  <2>2. tx[p].lock = "X" /\ user' = tx[p].row /\ pc[p] = "commit"
    BY <2>1 DEF Commit
  <2>3. Fit(tx[p], pc[p])
    BY DEF ReviewInv
  <2> QED BY <2>2, <2>3 DEF Fit
<1>2. Spec => [][Step]_vars
  <2> HIDE DEF Step
  <2> QED BY <1>1, ReviewInvariance, PTL DEF Spec
<1> QED
  BY <1>2 DEF BanOutlivesReview
=============================================================================
