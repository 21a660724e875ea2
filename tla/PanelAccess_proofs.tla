------------------------- MODULE PanelAccess_proofs -------------------------
(***************************************************************************)
(* Theorems about PanelAccess, for any admins, tabs, codes and sessions,   *)
(* any limit of attempts and any bounds.                                   *)
(***************************************************************************)
EXTENDS PanelAccess, TLAPS

CodeRow    == [admin : Admin \cup {None}, issue : 0..MaxIssues]
SessionRow == [status : {"unused", "live", "gone"}, admin : Admin \cup {None},
               issue : 0..MaxIssues, ttl : BOOLEAN]
Window     == [count : 0..(Limit + 1), ttl : BOOLEAN]
TabPlace   == {"idle", "count", "expire", "redeem", "hset", "arm", "load",
               "slide", "admin", "in"}
TabRow     == [pc : TabPlace,
               what : {"none", "code", "get", "post", "logout", "login"},
               code : Code \cup {None}, admin : Admin \cup {None},
               issue : 0..MaxIssues, token : 0..MaxSessions,
               form : 0..MaxSessions, late : BOOLEAN]

\* TypeOK, with the records of Redis and of the requests.
Typed ==
    /\ admins \subseteq Admin
    /\ codes \in [Code -> CodeRow] /\ sessions \in [Session -> SessionRow]
    /\ windows \in [Key -> Window]
    /\ cookie \in 0..MaxSessions /\ page \in [Tab -> 0..MaxSessions]
    /\ tab \in [Tab -> TabRow]
    /\ bot \in [Admin -> {"idle", "count", "expire", "issue"}]
    /\ shown \in [Admin -> Code \cup {None}]
    /\ issued \in 0..MaxIssues /\ stranded \subseteq Key

Redeeming(t) == tab[t].pc = "hset"
Valid(c)     == codes[c] # NoCode

\* The issue of a code is in one place at a time: the code, the request that
\* redeems it, or the session it bought.
IssuesAreSpentOnce ==
    /\ \A c \in Code : Valid(c) => codes[c].issue \in 1..issued
    /\ \A t \in Tab : Redeeming(t) => tab[t].issue \in 1..issued
    /\ \A s \in Session : sessions[s].issue \in 0..issued
    /\ \A c, d \in Code :
         Valid(c) /\ Valid(d) /\ codes[c].issue = codes[d].issue => c = d
    /\ \A c \in Code, t \in Tab :
         Valid(c) /\ Redeeming(t) => codes[c].issue # tab[t].issue
    /\ \A t \in Tab, s \in Session :
         Redeeming(t) => sessions[s].issue # tab[t].issue
    /\ CodeBuysOnce

\* Whom a request is served for had a row when it was received, or is found
\* without one by the check still to come: a row that is gone stays gone.
LateIsFound ==
    /\ RequestsAreOwned
    /\ \A t \in Tab :
         tab[t].pc \in {"slide", "admin"} /\ tab[t].late => tab[t].admin \notin admins

\* The inductive invariant.
IInv == Typed /\ IssuesAreSpentOnce /\ LateIsFound

-----------------------------------------------------------------------------
(* Lemmas about what most steps leave alone. *)

LEMMA Blanks == /\ NoCode \in CodeRow /\ NoSession \in SessionRow
                /\ NoRequest \in TabRow /\ Zero \in Window
<1> USE LimitsAssumption
<1>1. NoCode \in CodeRow /\ NoSession \in SessionRow
  BY DEF NoCode, CodeRow, NoSession, SessionRow
<1>2. NoRequest \in TabRow
  BY DEF NoRequest, TabRow, TabPlace
<1>3. Zero \in Window
  BY DEF Zero, Window
<1> QED
  BY <1>1, <1>2, <1>3

LEMMA SessionNumbers == \A s \in Session : s \in 0..MaxSessions
BY LimitsAssumption DEF Session

\* The request of tab t becomes x, and no other changes.
Moves(t, x) ==
    /\ tab' \in [Tab -> TabRow] /\ tab'[t] = x
    /\ \A u \in Tab : u # t => tab'[u] = tab[u]

LEMMA TabMoves ==
    ASSUME Typed, NEW t \in Tab, NEW x \in TabRow, tab' = [tab EXCEPT ![t] = x]
    PROVE  Moves(t, x)
BY DEF Typed, Moves

\* A request that goes on to pc is the same request.
LEMMA NextFields ==
    ASSUME NEW r \in TabRow, NEW pc \in TabPlace, NEW x, x = [r EXCEPT !.pc = pc]
    PROVE  /\ x \in TabRow /\ x.pc = pc /\ x.what = r.what /\ x.admin = r.admin
           /\ x.late = r.late /\ x.form = r.form /\ x.token = r.token
BY DEF TabRow

LEMMA ToMoves ==
    ASSUME Typed, NEW t \in Tab, NEW pc \in TabPlace, To(t, pc)
    PROVE  Moves(t, [tab[t] EXCEPT !.pc = pc])
<1>1. [tab[t] EXCEPT !.pc = pc] \in TabRow
  BY DEF Typed, TabRow
<1>2. tab' = [tab EXCEPT ![t] = [tab[t] EXCEPT !.pc = pc]]
  BY DEF To, Typed
<1> QED
  BY <1>1, <1>2, TabMoves

LEMMA FinishMoves ==
    ASSUME Typed, NEW t \in Tab, Finish(t)
    PROVE  Moves(t, NoRequest)
BY Blanks, TabMoves DEF Finish

LEMMA ShowMoves ==
    ASSUME Typed, NEW t \in Tab, NEW s \in 0..MaxSessions, Show(t, s)
    PROVE  Moves(t, NoRequest) /\ page' \in [Tab -> 0..MaxSessions]
BY FinishMoves DEF Show, Typed

LEMMA LoginFormMoves ==
    ASSUME Typed, NEW t \in Tab, LoginForm(t)
    PROVE  Moves(t, NoRequest) /\ page' \in [Tab -> 0..MaxSessions]
BY ShowMoves, LimitsAssumption DEF LoginForm

\* No step but three issues, redeems or spends a code.
LEMMA IssuesKept ==
    ASSUME IInv, Typed', issued' = issued,
           \A c \in Code : codes'[c] \in {codes[c], NoCode},
           \A s \in Session : sessions'[s].issue = sessions[s].issue,
           \A t \in Tab : tab'[t].pc = "hset" => tab'[t] = tab[t]
    PROVE  IssuesAreSpentOnce'
BY DEF IInv, IssuesAreSpentOnce, CodeBuysOnce, Redeeming, Valid, NoCode

\* No step but three takes a request through the gate.
LEMMA GateKept ==
    ASSUME IInv, admins' \subseteq admins,
           \A t \in Tab : \/ tab'[t] = tab[t]
                          \/ tab'[t].pc \notin {"slide", "admin", "in"}
    PROVE  LateIsFound'
BY DEF IInv, LateIsFound, RequestsAreOwned

LEMMA HitTypes == ASSUME Typed, NEW k \in Key, Hit(k) PROVE windows' \in [Key -> Window]
<1>1. windows[k] \in Window
  BY DEF Typed
<1> DEFINE n == IF windows[k].count > Limit THEN windows[k].count ELSE windows[k].count + 1
<1>2. n \in 0..(Limit + 1)
  BY <1>1, LimitsAssumption DEF Window
<1>3. windows' = [windows EXCEPT ![k] = [windows[k] EXCEPT !.count = n]]
  BY DEF Hit, Typed
<1> HIDE DEF n
<1>4. [windows[k] EXCEPT !.count = n] \in Window
  BY <1>1, <1>2 DEF Window
<1> QED
  BY <1>3, <1>4 DEF Typed

LEMMA ArmTypes == ASSUME Typed, NEW k \in Key, Arm(k) PROVE windows' \in [Key -> Window]
<1>1. windows[k] \in Window
  BY DEF Typed
<1> DEFINE b == windows[k].ttl \/ windows[k].count > 0
<1>2. windows' = [windows EXCEPT ![k] = [windows[k] EXCEPT !.ttl = b]]
  BY DEF Arm, Typed
<1>3. [windows[k] EXCEPT !.ttl = b] \in Window
  BY <1>1 DEF Window
<1> QED
  BY <1>2, <1>3 DEF Typed

LEMMA InitIInv == Init => IInv
<1> SUFFICES ASSUME Init PROVE IInv
  OBVIOUS
<1> USE LimitsAssumption, Blanks
<1>0. PICK old \in 0..MaxSessions, a \in Admin :
         /\ old <= issued
         /\ sessions = [s \in Session |-> IF s <= old THEN Logged(a, s) ELSE NoSession]
         /\ cookie \in 0..old
         /\ page \in {[t \in Tab |-> s] : s \in {0, cookie}}
         /\ \E c \in Code \cup {None} :
              /\ c # None => old < issued
              /\ codes = [d \in Code |-> IF d = c THEN [admin |-> a, issue |-> issued]
                                                ELSE NoCode]
              /\ shown = [b \in Admin |-> IF b = a THEN c ELSE None]
  BY Zenon DEF Init
<1>1. PICK c \in Code \cup {None} :
        /\ c # None => old < issued
        /\ codes = [d \in Code |-> IF d = c THEN [admin |-> a, issue |-> issued]
                                  ELSE NoCode]
        /\ shown = [b \in Admin |-> IF b = a THEN c ELSE None]
  BY <1>0
<1>2. issued \in 0..MaxIssues /\ tab = [t \in Tab |-> NoRequest]
  BY DEF Init
<1>3. Typed
  <2>1. sessions \in [Session -> SessionRow]
    BY <1>0, <1>2 DEF Session, Logged, SessionRow
  <2>2. codes \in [Code -> CodeRow]
    BY <1>1, <1>2 DEF CodeRow
  <2>3. windows \in [Key -> Window] /\ stranded \subseteq Key
    BY DEF Init
  <2>4. cookie \in 0..MaxSessions /\ page \in [Tab -> 0..MaxSessions]
    BY <1>0
  <2>5. shown \in [Admin -> Code \cup {None}]
    BY <1>1
  <2> QED
    BY <1>2, <2>1, <2>2, <2>3, <2>4, <2>5 DEF Typed, Init
<1>4. \A s \in Session : sessions[s].issue \in {0, s} /\ sessions[s].issue \in 0..old
  BY <1>0, <1>2 DEF Session, Logged, NoSession
<1>5. \A d \in Code : Valid(d) => d = c /\ codes[d].issue = issued /\ old < issued
  BY <1>1 DEF Valid
<1>6. \A t \in Tab : tab[t].pc = "idle"
  BY <1>2 DEF NoRequest
<1>7. IssuesAreSpentOnce
  <2>1. old \in Nat /\ issued \in Nat /\ old <= issued
    BY <1>0, <1>2
  <2>2. \A s \in Session : sessions[s].issue \in 0..issued
    BY <2>1, <1>4
  <2>3. \A d \in Code : Valid(d) => codes[d].issue \in 1..issued
    BY <2>1, <1>5
  <2>4. \A s, r \in Session :
          sessions[s].issue = sessions[r].issue /\ sessions[s].issue # 0 => s = r
    BY <1>4
  <2>5. \A s \in Session, d \in Code : Valid(d) => sessions[s].issue # codes[d].issue
    BY <2>1, <1>4, <1>5
  <2> QED
    BY <2>2, <2>3, <2>4, <2>5, <1>5, <1>6
       DEF IssuesAreSpentOnce, CodeBuysOnce, Valid, Redeeming
<1>8. LateIsFound
  BY <1>6 DEF LateIsFound, RequestsAreOwned
<1> QED
  BY <1>3, <1>7, <1>8 DEF IInv

-----------------------------------------------------------------------------
(* The bot. *)

LEMMA BotTypes ==
    ASSUME Typed, NEW a \in Admin, NEW pc \in {"idle", "count", "expire", "issue"},
           BotAt(a, pc)
    PROVE  bot' \in [Admin -> {"idle", "count", "expire", "issue"}]
BY DEF Typed, BotAt

\* A step that leaves codes, sessions, requests and admins alone.
LEMMA AsideKept ==
    ASSUME IInv, Typed', UNCHANGED <<admins, codes, sessions, tab, issued>>
    PROVE  IInv'
<1>1. IssuesAreSpentOnce'
  BY IssuesKept
<1>2. LateIsFound'
  BY GateKept
<1> QED
  BY <1>1, <1>2 DEF IInv

LEMMA AskCodeKeeps == ASSUME IInv, NEW a \in Admin, AskCode(a) PROVE IInv'
<1> USE DEF AskCode, keys, browser, history
<1>1. Typed'
  BY BotTypes DEF IInv, Typed
<1> QED
  BY <1>1, AsideKept

LEMMA ThrottleHitKeeps == ASSUME IInv, NEW a \in Admin, ThrottleHit(a) PROVE IInv'
<1> USE DEF ThrottleHit, browser, history, Counted, Key
<1>1. Typed'
  BY HitTypes, BotTypes DEF IInv, Typed
<1> QED
  BY <1>1, AsideKept

LEMMA ThrottleArmKeeps == ASSUME IInv, NEW a \in Admin, ThrottleArm(a) PROVE IInv'
<1> USE DEF ThrottleArm, browser, history, Key
<1>1. Typed'
  BY ArmTypes, BotTypes DEF IInv, Typed
<1> QED
  BY <1>1, AsideKept

LEMMA ThrottleFailsKeeps == ASSUME IInv, NEW a \in Admin, ThrottleFails(a) PROVE IInv'
<1> USE DEF ThrottleFails, browser, keys, Key
<1>1. Typed'
  BY BotTypes DEF IInv, Typed
<1> QED
  BY <1>1, AsideKept

LEMMA CloseWindowKeeps == ASSUME IInv, NEW k \in Key, CloseWindow(k) PROVE IInv'
<1> USE DEF CloseWindow, browser, chats
<1>1. Typed'
  BY Blanks DEF IInv, Typed
<1> QED
  BY <1>1, AsideKept

LEMMA IssueKeeps == ASSUME IInv, NEW a \in Admin, Issue(a) PROVE IInv'
<1> USE DEF Issue, browser
<1>1. bot' \in [Admin -> {"idle", "count", "expire", "issue"}]
  BY BotTypes DEF IInv
<1>2. CASE a \in admins /\ issued < MaxIssues
  <2>1. PICK c \in Code :
          /\ codes[c] = NoCode
          /\ issued' = issued + 1
          /\ codes' = [codes EXCEPT ![c] = [admin |-> a, issue |-> issued']]
          /\ shown' = [shown EXCEPT ![a] = c]
    BY <1>2
  <2>2. issued' \in 1..MaxIssues /\ issued \in 0..MaxIssues
    BY <1>2, <2>1, LimitsAssumption DEF IInv, Typed
  <2>3. [admin |-> a, issue |-> issued'] \in CodeRow
    BY <2>2 DEF CodeRow
  <2>4. Typed'
    BY <1>1, <2>1, <2>2, <2>3 DEF IInv, Typed
  <2>5. /\ codes'[c].issue = issued + 1 /\ ~Valid(c)
        /\ \A d \in Code : d # c => codes'[d] = codes[d]
    BY <2>1 DEF IInv, Typed, Valid
  <2>6. IssuesAreSpentOnce'
    BY <2>1, <2>2, <2>5 DEF IInv, IssuesAreSpentOnce, CodeBuysOnce, Valid, Redeeming
  <2>7. LateIsFound'
    BY GateKept
  <2> QED
    BY <2>4, <2>6, <2>7 DEF IInv
<1>3. CASE ~(a \in admins /\ issued < MaxIssues)
  <2>1. Typed'
    BY <1>1, <1>3 DEF IInv, Typed
  <2> QED
    BY <1>3, <2>1, AsideKept
<1> QED
  BY <1>2, <1>3

LEMMA ExpireCodeKeeps == ASSUME IInv, NEW c \in Code, ExpireCode(c) PROVE IInv'
<1> USE DEF ExpireCode, browser, chats, history
<1>1. Typed'
  BY Blanks DEF IInv, Typed
<1>2. IssuesAreSpentOnce'
  BY <1>1, IssuesKept DEF IInv, Typed
<1>3. LateIsFound'
  BY GateKept
<1> QED
  BY <1>1, <1>2, <1>3 DEF IInv

LEMMA RemoveAdminKeeps == ASSUME IInv, NEW a \in Admin, RemoveAdmin(a) PROVE IInv'
<1> USE DEF RemoveAdmin, keys, browser, chats, history
<1>1. Typed'
  BY DEF IInv, Typed
<1>2. IssuesAreSpentOnce'
  BY <1>1, IssuesKept
<1>3. LateIsFound'
  BY GateKept
<1> QED
  BY <1>1, <1>2, <1>3 DEF IInv

-----------------------------------------------------------------------------
(* The login form. *)

\* A step of tab t that redeems no code, spends none and enters no gate.
LEMMA FormKept ==
    ASSUME IInv, Typed', NEW t \in Tab, NEW x \in TabRow, Moves(t, x),
           x.pc \notin {"hset", "slide", "admin", "in"},
           UNCHANGED <<admins, codes, issued>>,
           \A s \in Session : sessions'[s].issue = sessions[s].issue
    PROVE  IInv'
<1>1. IssuesAreSpentOnce'
  BY IssuesKept DEF Moves
<1>2. LateIsFound'
  BY GateKept DEF Moves
<1> QED
  BY <1>1, <1>2 DEF IInv

LEMMA SubmitCodeKeeps == ASSUME IInv, NEW t \in Tab, SubmitCode(t) PROVE IInv'
<1> USE DEF SubmitCode, keys, chats, history
<1>1. PICK c \in TypedCode \cup {None} :
        tab' = [tab EXCEPT ![t] = [NoRequest EXCEPT
                   !.pc = "count", !.what = "code", !.code = c]]
  OBVIOUS
<1> DEFINE x == [NoRequest EXCEPT !.pc = "count", !.what = "code", !.code = c]
<1>2. c \in Code \cup {None}
  BY DEF TypedCode, IInv, Typed
<1>3. x \in TabRow /\ x.pc = "count"
  BY <1>2, Blanks DEF TabRow, TabPlace, NoRequest
<1> HIDE DEF x
<1>4. Moves(t, x)
  BY <1>1, <1>3, TabMoves DEF IInv, x
<1>5. Typed'
  BY <1>4 DEF IInv, Typed, Moves
<1> QED
  BY <1>3, <1>4, <1>5, FormKept

LEMMA AttemptHitKeeps == ASSUME IInv, NEW t \in Tab, AttemptHit(t) PROVE IInv'
<1> DEFINE next == Counted(windows'[Address].count, "redeem", "drop")
<1> USE DEF AttemptHit, chats, history
<1>1. windows' \in [Key -> Window]
  BY HitTypes DEF IInv, Key
<1>2. next \in {"expire", "redeem", "drop"}
  BY DEF Counted
<1> HIDE DEF next
<1>3. CASE next = "drop"
  <2>1. Moves(t, NoRequest) /\ page' \in [Tab -> 0..MaxSessions]
    BY <1>3, LoginFormMoves DEF IInv, next
  <2>2. Typed'
    BY <1>1, <2>1 DEF IInv, Typed, Moves
  <2> QED
    BY <2>1, <2>2, FormKept, Blanks DEF NoRequest
<1>4. CASE next # "drop"
  <2> DEFINE x == [tab[t] EXCEPT !.pc = next]
  <2>1. To(t, next) /\ UNCHANGED page
    BY <1>4 DEF next
  <2>2. Moves(t, x)
    BY <1>2, <1>4, <2>1, ToMoves DEF IInv, TabPlace
  <2>3. x \in TabRow /\ x.pc = next
    <3>1. tab[t] \in TabRow /\ next \in TabPlace
      BY <1>2, <1>4 DEF IInv, Typed, TabPlace
    <3> QED
      BY <3>1, NextFields
  <2> HIDE DEF x
  <2>4. Typed'
    BY <1>1, <2>1, <2>2 DEF IInv, Typed, Moves
  <2> QED
    BY <1>2, <2>2, <2>3, <2>4, FormKept
<1> QED
  BY <1>3, <1>4

LEMMA AttemptArmKeeps == ASSUME IInv, NEW t \in Tab, AttemptArm(t) PROVE IInv'
<1> DEFINE x == [tab[t] EXCEPT !.pc = "redeem"]
<1> USE DEF AttemptArm, chats, history
<1>1. windows' \in [Key -> Window]
  BY ArmTypes DEF IInv, Key
<1>2. Moves(t, x)
  BY ToMoves DEF IInv, TabPlace
<1>3. x \in TabRow /\ x.pc = "redeem"
  BY <1>2 DEF Moves, IInv, Typed, TabRow
<1> HIDE DEF x
<1>4. Typed'
  BY <1>1, <1>2 DEF IInv, Typed, Moves
<1> QED
  BY <1>2, <1>3, <1>4, FormKept

LEMMA AttemptFailsKeeps == ASSUME IInv, NEW t \in Tab, AttemptFails(t) PROVE IInv'
<1> USE DEF AttemptFails, keys, chats
<1>1. Moves(t, NoRequest) /\ page' \in [Tab -> 0..MaxSessions]
  BY LoginFormMoves DEF IInv
<1>2. Typed'
  BY <1>1 DEF IInv, Typed, Moves, Key
<1> QED
  BY <1>1, <1>2, FormKept, Blanks DEF NoRequest

\* GETDEL moves the issue from the code to the request.
LEMMA RedeemKeeps == ASSUME IInv, NEW t \in Tab, Redeem(t) PROVE IInv'
<1> USE DEF Redeem, chats, history
<1>1. PICK c \in Code \cup {None} : c = tab[t].code
  BY DEF IInv, Typed, TabRow
<1> DEFINE x == [NoRequest EXCEPT !.pc = "hset", !.what = "code",
                    !.admin = codes[c].admin, !.issue = codes[c].issue]
<1>2. CASE c = None \/ codes[c] = NoCode
  <2>1. Moves(t, NoRequest) /\ page' \in [Tab -> 0..MaxSessions] /\ UNCHANGED codes
    BY <1>1, <1>2, LoginFormMoves DEF IInv
  <2>2. Typed'
    BY <2>1 DEF IInv, Typed, Moves
  <2> QED
    BY <2>1, <2>2, FormKept, Blanks DEF NoRequest
<1>3. CASE ~(c = None \/ codes[c] = NoCode)
  <2>1. /\ RedeemedBy(t, c) /\ UNCHANGED page
        /\ codes' = [codes EXCEPT ![c] = NoCode]
        /\ c \in Code /\ Valid(c)
    BY <1>1, <1>3 DEF Valid
  <2>2. x \in TabRow /\ x.pc = "hset" /\ x.issue = codes[c].issue
    BY <2>1, Blanks DEF IInv, Typed, CodeRow, TabRow, TabPlace, NoRequest
  <2>3. Moves(t, x)
    BY <1>1, <2>1, <2>2, TabMoves DEF RedeemedBy, IInv
  <2> HIDE DEF x
  <2>4. Typed'
    BY <2>1, <2>3, Blanks DEF IInv, Typed, Moves
  <2>5. /\ ~Valid(c)' /\ \A d \in Code : d # c => codes'[d] = codes[d]
        /\ \A d \in Code : Valid(d)' => d # c /\ Valid(d)
    BY <2>1 DEF Valid, IInv, Typed, NoCode
  <2>6. \A u \in Tab : Redeeming(u)' => \/ u = t /\ tab'[u].issue = codes[c].issue
                                        \/ u # t /\ tab'[u] = tab[u] /\ Redeeming(u)
    BY <2>2, <2>3 DEF Moves, Redeeming
  <2>7. IssuesAreSpentOnce'
    <3>1. /\ \A d \in Code : Valid(d)' => codes'[d].issue \in 1..issued
          /\ \A u \in Tab : Redeeming(u)' => tab'[u].issue \in 1..issued
      BY <2>1, <2>5, <2>6 DEF IInv, IssuesAreSpentOnce
    <3>2. \A d \in Code, u \in Tab :
            Valid(d)' /\ Redeeming(u)' => codes'[d].issue # tab'[u].issue
      BY <2>1, <2>5, <2>6 DEF IInv, IssuesAreSpentOnce
    <3>3. \A u \in Tab, s \in Session :
            Redeeming(u)' => sessions[s].issue # tab'[u].issue
      BY <2>1, <2>6 DEF IInv, IssuesAreSpentOnce, CodeBuysOnce, Valid
    <3>4. \A u, v \in Tab : Redeeming(u)' /\ Redeeming(v)'
            /\ tab'[u].issue = tab'[v].issue => u = v
      BY <2>1, <2>6 DEF IInv, IssuesAreSpentOnce, CodeBuysOnce, Redeeming
    <3>5. \A d, e \in Code : Valid(d)' /\ Valid(e)'
            /\ codes'[d].issue = codes'[e].issue => d = e
      BY <2>5 DEF IInv, IssuesAreSpentOnce
    <3>6. \A s \in Session, d \in Code : Valid(d)' => sessions[s].issue # codes'[d].issue
      BY <2>5 DEF IInv, IssuesAreSpentOnce, CodeBuysOnce, Valid
    <3> QED
      BY <3>1, <3>2, <3>3, <3>4, <3>5, <3>6
         DEF IInv, IssuesAreSpentOnce, CodeBuysOnce, Valid, Redeeming
  <2>8. LateIsFound'
    BY <2>2, <2>3, GateKept DEF Moves
  <2> QED
    BY <2>4, <2>7, <2>8 DEF IInv
<1> QED
  BY <1>2, <1>3

\* HSET moves the issue on, from the request to the session.
LEMMA CreateSessionKeeps == ASSUME IInv, NEW t \in Tab, CreateSession(t) PROVE IInv'
<1> USE DEF chats, history
<1>1. PICK s \in Session :
        /\ Fresh(s)
        /\ sessions' = [sessions EXCEPT ![s] = [status |-> "live",
               admin |-> tab[t].admin, issue |-> tab[t].issue, ttl |-> FALSE]]
        /\ tab' = [tab EXCEPT ![t] = [NoRequest EXCEPT
                       !.pc = "arm", !.what = "code", !.token = s]]
  BY DEF CreateSession
<1> DEFINE x == [NoRequest EXCEPT !.pc = "arm", !.what = "code", !.token = s]
<1>2. /\ Redeeming(t)
      /\ UNCHANGED <<admins, codes, windows, cookie, page, chats, history>>
  BY DEF CreateSession, Redeeming
<1>3. x \in TabRow /\ x.pc = "arm"
  <2>1. s \in 0..MaxSessions
    BY SessionNumbers
  <2> QED
    BY <2>1, Blanks DEF TabRow, TabPlace, NoRequest
<1>4. Moves(t, x)
  BY <1>1, <1>3, TabMoves DEF IInv
<1> HIDE DEF x
<1>5. sessions' \in [Session -> SessionRow]
  BY <1>1 DEF IInv, Typed, SessionRow, TabRow
<1>6. /\ sessions'[s].issue = tab[t].issue
      /\ \A r \in Session : r # s => sessions'[r] = sessions[r]
  BY <1>1 DEF IInv, Typed
<1>7. Typed'
  BY <1>2, <1>4, <1>5 DEF IInv, Typed, Moves
<1>8. \A u \in Tab : Redeeming(u)' => u # t /\ tab'[u] = tab[u] /\ Redeeming(u)
  BY <1>3, <1>4 DEF Moves, Redeeming
<1>9. IssuesAreSpentOnce'
  <2> USE DEF IInv, IssuesAreSpentOnce
  <2>1. /\ \A c \in Code : Valid(c)' => codes'[c].issue \in 1..issued
        /\ \A u \in Tab : Redeeming(u)' => tab'[u].issue \in 1..issued
        /\ \A c, d \in Code : Valid(c)' /\ Valid(d)'
              /\ codes'[c].issue = codes'[d].issue => c = d
        /\ \A c \in Code, u \in Tab :
              Valid(c)' /\ Redeeming(u)' => codes'[c].issue # tab'[u].issue
    BY <1>2, <1>8 DEF Valid
  <2>2. \A r \in Session : sessions'[r].issue \in 0..issued
    BY <1>2, <1>6 DEF Typed
  <2>3. \A u \in Tab, r \in Session : Redeeming(u)' => sessions'[r].issue # tab'[u].issue
    BY <1>2, <1>6, <1>8 DEF CodeBuysOnce, Redeeming
  <2>4. \A r, q \in Session :
          sessions'[r].issue = sessions'[q].issue /\ sessions'[r].issue # 0 => r = q
    BY <1>2, <1>6 DEF CodeBuysOnce
  <2>5. \A r \in Session, c \in Code : Valid(c)' => sessions'[r].issue # codes'[c].issue
    BY <1>2, <1>6 DEF CodeBuysOnce, Valid
  <2>6. \A u, v \in Tab : Redeeming(u)' /\ Redeeming(v)'
          /\ tab'[u].issue = tab'[v].issue => u = v
    BY <1>8 DEF CodeBuysOnce, Redeeming
  <2> QED
    BY <1>2, <2>1, <2>2, <2>3, <2>4, <2>5, <2>6 DEF CodeBuysOnce, Redeeming, Valid
<1>10. LateIsFound'
  BY <1>2, <1>3, <1>4, GateKept DEF Moves
<1> QED
  BY <1>7, <1>9, <1>10 DEF IInv

\* EXPIRE and Drop change a session's TTL and status only.
LEMMA SessionTypes ==
    ASSUME Typed, NEW s \in 0..MaxSessions, NEW b \in BOOLEAN,
           \/ sessions' = [sessions EXCEPT ![s].ttl = b]
           \/ Drop(s)
    PROVE  /\ sessions' \in [Session -> SessionRow]
           /\ \A r \in Session : sessions'[r].issue = sessions[r].issue
<1>1. sessions \in [Session -> SessionRow]
  BY DEF Typed
<1>2. CASE s \notin Session
  BY <1>1, <1>2 DEF Drop
<1>3. CASE s \in Session
  <2> DEFINE armed == [sessions[s] EXCEPT !.ttl = b]
             gone  == [sessions[s] EXCEPT !.status = "gone", !.ttl = FALSE]
  <2>1. \/ sessions' = [sessions EXCEPT ![s] = armed]
        \/ sessions' = [sessions EXCEPT ![s] = gone]
    BY <1>1, <1>3 DEF Drop
  <2>2. /\ armed \in SessionRow /\ armed.issue = sessions[s].issue
        /\ gone \in SessionRow /\ gone.issue = sessions[s].issue
    BY <1>1, <1>3 DEF SessionRow
  <2> HIDE DEF armed, gone
  <2> QED
    BY <1>1, <1>3, <2>1, <2>2
<1> QED
  BY <1>2, <1>3

LEMMA ArmSessionKeeps == ASSUME IInv, NEW t \in Tab, ArmSession(t) PROVE IInv'
<1> USE DEF ArmSession, chats, history
<1>1. tab[t].token \in 0..MaxSessions /\ Live(tab[t].token) \in BOOLEAN
  BY DEF IInv, Typed, TabRow, Live
<1>2. /\ sessions' \in [Session -> SessionRow]
      /\ \A r \in Session : sessions'[r].issue = sessions[r].issue
  BY <1>1, SessionTypes DEF IInv
<1>3. Moves(t, NoRequest)
  BY FinishMoves DEF IInv
<1>4. Typed'
  BY <1>1, <1>2, <1>3 DEF IInv, Typed, Moves
<1> QED
  BY <1>2, <1>3, <1>4, FormKept, Blanks DEF NoRequest

-----------------------------------------------------------------------------
(* The gate of the panel. *)

\* A step of tab t to a place in the gate.
LEMMA EnterKept ==
    ASSUME IInv, Typed', NEW t \in Tab, NEW x \in TabRow, Moves(t, x),
           x.pc \in {"slide", "admin", "in"},
           x.pc = "in" => ~x.late /\ (x.what # "get" => x.form = x.token),
           x.pc \in {"slide", "admin"} /\ x.late => x.admin \notin admins,
           UNCHANGED <<admins, codes, issued>>,
           \A s \in Session : sessions'[s].issue = sessions[s].issue
    PROVE  IInv'
<1>1. IssuesAreSpentOnce'
  BY IssuesKept DEF Moves
<1>2. LateIsFound'
  BY DEF IInv, LateIsFound, RequestsAreOwned, Moves
<1> QED
  BY <1>1, <1>2 DEF IInv

LEMMA RequestKeeps == ASSUME IInv, NEW t \in Tab, Request(t) PROVE IInv'
<1> USE DEF Request, keys, chats, history
<1>1. PICK what \in {"get", "post", "logout", "login"} :
        tab' = [tab EXCEPT ![t] = [NoRequest EXCEPT !.pc = "load", !.what = what,
                   !.token = cookie, !.form = page[t]]]
  OBVIOUS
<1> DEFINE x == [NoRequest EXCEPT !.pc = "load", !.what = what,
                    !.token = cookie, !.form = page[t]]
<1>2. x \in TabRow /\ x.pc = "load"
  BY Blanks DEF IInv, Typed, TabRow, TabPlace, NoRequest
<1>3. Moves(t, x)
  BY <1>1, <1>2, TabMoves DEF IInv
<1> HIDE DEF x
<1>4. Typed'
  BY <1>3 DEF IInv, Typed, Moves
<1> QED
  BY <1>2, <1>3, <1>4, FormKept

LEMMA LoadSessionKeeps == ASSUME IInv, NEW t \in Tab, LoadSession(t) PROVE IInv'
<1> USE DEF LoadSession, keys, chats, history
<1>1. PICK s \in 0..MaxSessions : s = tab[t].token
  BY DEF IInv, Typed, TabRow
<1>2. CASE Live(s)
  <2> DEFINE x == [tab[t] EXCEPT !.pc = "slide", !.admin = sessions[s].admin,
                                 !.late = sessions[s].admin \notin admins]
  <2>1. tab' = [tab EXCEPT ![t] = x] /\ UNCHANGED page
    BY <1>1, <1>2 DEF IInv, Typed
  <2>2. s \in Session
    BY <1>2 DEF Live, Session
  <2>3. /\ x \in TabRow /\ x.pc = "slide" /\ x.admin = sessions[s].admin
        /\ x.late => x.admin \notin admins
    <3>1. tab[t] \in TabRow
      BY DEF IInv, Typed
    <3>2. sessions[s].admin \in Admin \cup {None}
      BY <2>2 DEF IInv, Typed, SessionRow
    <3> QED
      BY <3>1, <3>2 DEF TabRow, TabPlace
  <2> HIDE DEF x
  <2>4. Moves(t, x)
    BY <2>1, <2>3, TabMoves DEF IInv
  <2>5. Typed'
    BY <2>1, <2>4 DEF IInv, Typed, Moves
  <2> QED
    BY <2>3, <2>4, <2>5, EnterKept
<1>3. CASE ~Live(s)
  <2>1. Moves(t, NoRequest) /\ page' \in [Tab -> 0..MaxSessions]
    BY <1>1, <1>3, LoginFormMoves DEF IInv
  <2>2. Typed'
    BY <2>1 DEF IInv, Typed, Moves
  <2> QED
    BY <2>1, <2>2, FormKept, Blanks DEF NoRequest
<1> QED
  BY <1>2, <1>3

LEMMA SlideKeeps == ASSUME IInv, NEW t \in Tab, Slide(t) PROVE IInv'
<1> USE DEF Slide, chats, history
<1>1. tab[t].token \in 0..MaxSessions /\ Live(tab[t].token) \in BOOLEAN
  BY DEF IInv, Typed, TabRow, Live
<1>2. /\ sessions' \in [Session -> SessionRow]
      /\ \A r \in Session : sessions'[r].issue = sessions[r].issue
  BY <1>1, SessionTypes DEF IInv
<1>3. CASE tab[t].what = "login"
  <2>1. Moves(t, NoRequest)
    BY <1>3, FinishMoves DEF IInv, AfterSlide
  <2>2. Typed'
    BY <1>2, <2>1 DEF IInv, Typed, Moves
  <2> QED
    BY <1>2, <2>1, <2>2, FormKept, Blanks DEF NoRequest
<1>4. CASE tab[t].what # "login"
  <2> DEFINE x == [tab[t] EXCEPT !.pc = "admin"]
  <2>1. Moves(t, x)
    BY <1>4, ToMoves DEF IInv, AfterSlide, TabPlace
  <2>2. x \in TabRow /\ x.pc = "admin" /\ (x.late => x.admin \notin admins)
    BY <2>1 DEF Moves, IInv, Typed, TabRow, LateIsFound
  <2> HIDE DEF x
  <2>3. Typed'
    BY <1>2, <2>1 DEF IInv, Typed, Moves
  <2> QED
    BY <1>2, <2>1, <2>2, <2>3, EnterKept
<1> QED
  BY <1>3, <1>4

LEMMA CheckAdminKeeps == ASSUME IInv, NEW t \in Tab, CheckAdmin(t) PROVE IInv'
<1> USE DEF CheckAdmin, chats, history
<1>1. CASE tab[t].admin \in admins
  <2>1. Enter(t) /\ UNCHANGED <<sessions, page>>
    BY <1>1
  <2>2. CASE FormAccepted(t)
    <3> DEFINE x == [tab[t] EXCEPT !.pc = "in"]
    <3>1. Moves(t, x)
      BY <2>1, <2>2, ToMoves DEF IInv, Enter, TabPlace
    <3>2. ~tab[t].late
      BY <1>1 DEF IInv, LateIsFound
    <3>3. /\ x \in TabRow /\ x.pc = "in" /\ ~x.late
          /\ x.what # "get" => x.form = x.token
      <4>1. tab[t] \in TabRow /\ "in" \in TabPlace
        BY DEF IInv, Typed, TabPlace
      <4>2. /\ x \in TabRow /\ x.pc = "in" /\ x.late = tab[t].late
            /\ x.what = tab[t].what /\ x.form = tab[t].form /\ x.token = tab[t].token
        BY <4>1, NextFields
      <4> QED
        BY <2>2, <3>2, <4>2 DEF FormAccepted
    <3> HIDE DEF x
    <3>4. Typed'
      BY <2>1, <3>1 DEF IInv, Typed, Moves
    <3> QED
      BY <2>1, <3>1, <3>3, <3>4, EnterKept
  <2>3. CASE ~FormAccepted(t)
    <3>1. Moves(t, NoRequest)
      BY <2>1, <2>3, FinishMoves DEF IInv, Enter
    <3>2. Typed'
      BY <2>1, <3>1 DEF IInv, Typed, Moves
    <3> QED
      BY <2>1, <3>1, <3>2, FormKept, Blanks DEF NoRequest
  <2> QED
    BY <2>2, <2>3
<1>2. CASE tab[t].admin \notin admins
  <2>1. Moves(t, NoRequest) /\ page' \in [Tab -> 0..MaxSessions]
    BY <1>2, LoginFormMoves DEF IInv
  <2>2. tab[t].token \in 0..MaxSessions
    BY DEF IInv, Typed, TabRow
  <2>3. /\ sessions' \in [Session -> SessionRow]
        /\ \A r \in Session : sessions'[r].issue = sessions[r].issue
    BY <1>2, <2>2, SessionTypes DEF IInv
  <2>4. Typed'
    BY <2>1, <2>3 DEF IInv, Typed, Moves
  <2> QED
    BY <2>1, <2>3, <2>4, FormKept, Blanks DEF NoRequest
<1> QED
  BY <1>1, <1>2

LEMMA ServeKeeps == ASSUME IInv, NEW t \in Tab, Serve(t) PROVE IInv'
<1> USE DEF Serve, keys, chats, history
<1>1. tab[t].token \in 0..MaxSessions
  BY DEF IInv, Typed, TabRow
<1>2. Moves(t, NoRequest) /\ page' \in [Tab -> 0..MaxSessions]
  BY <1>1, ShowMoves DEF IInv
<1>3. Typed'
  BY <1>2 DEF IInv, Typed, Moves
<1> QED
  BY <1>2, <1>3, FormKept, Blanks DEF NoRequest

LEMMA LogoutKeeps == ASSUME IInv, NEW t \in Tab, Logout(t) PROVE IInv'
<1> USE DEF Logout, chats, history
<1>1. tab[t].token \in 0..MaxSessions
  BY DEF IInv, Typed, TabRow
<1>2. /\ sessions' \in [Session -> SessionRow]
      /\ \A r \in Session : sessions'[r].issue = sessions[r].issue
  BY <1>1, SessionTypes DEF IInv
<1>3. Moves(t, NoRequest) /\ page' \in [Tab -> 0..MaxSessions]
  BY LoginFormMoves DEF IInv
<1>4. Typed'
  BY <1>2, <1>3, LimitsAssumption DEF IInv, Typed, Moves
<1> QED
  BY <1>2, <1>3, <1>4, FormKept, Blanks DEF NoRequest

LEMMA ExpireSessionKeeps == ASSUME IInv, NEW s \in Session, ExpireSession(s) PROVE IInv'
<1> USE DEF ExpireSession, browser, chats, history
<1>1. /\ sessions' \in [Session -> SessionRow]
      /\ \A r \in Session : sessions'[r].issue = sessions[r].issue
  BY SessionTypes, SessionNumbers DEF IInv
<1>2. Typed'
  BY <1>1 DEF IInv, Typed
<1>3. IssuesAreSpentOnce' /\ LateIsFound'
  BY <1>1, <1>2, IssuesKept, GateKept
<1> QED
  BY <1>2, <1>3 DEF IInv

LEMMA CrashKeeps == ASSUME IInv, Crash PROVE IInv'
<1> USE DEF Crash, keys
<1>1. \A t \in Tab : tab'[t] = NoRequest
  OBVIOUS
<1>2. Typed'
  <2>1. stranded' \subseteq Key
    BY DEF IInv, Typed, Key
  <2> QED
    BY <2>1, Blanks DEF IInv, Typed
<1>3. IssuesAreSpentOnce' /\ LateIsFound'
  BY <1>1, <1>2, IssuesKept, GateKept DEF NoRequest
<1> QED
  BY <1>2, <1>3 DEF IInv

-----------------------------------------------------------------------------
LEMMA NextIInv == IInv /\ [Next]_vars => IInv'
<1> SUFFICES ASSUME IInv, [Next]_vars PROVE IInv'
  OBVIOUS
<1>1. ASSUME NEW a \in Admin,
             AskCode(a) \/ Weblogin(a) \/ ThrottleFails(a) \/ RemoveAdmin(a)
      PROVE  IInv'
  BY <1>1, AskCodeKeeps, ThrottleHitKeeps, ThrottleArmKeeps, IssueKeeps,
     ThrottleFailsKeeps, RemoveAdminKeeps DEF Weblogin
<1>2. ASSUME NEW t \in Tab, SubmitCode(t) \/ Request(t) \/ Login(t) \/ AttemptFails(t)
      PROVE  IInv'
  BY <1>2, SubmitCodeKeeps, RequestKeeps, AttemptHitKeeps, AttemptArmKeeps, RedeemKeeps,
     CreateSessionKeeps, ArmSessionKeeps, AttemptFailsKeeps DEF Login
<1>3. ASSUME NEW t \in Tab, Gate(t) PROVE IInv'
  BY <1>3, LoadSessionKeeps, SlideKeeps, CheckAdminKeeps, ServeKeeps, LogoutKeeps DEF Gate
<1>4. ASSUME NEW c \in Code, ExpireCode(c) PROVE IInv'
  BY <1>4, ExpireCodeKeeps
<1>5. ASSUME NEW s \in Session, ExpireSession(s) PROVE IInv'
  BY <1>5, ExpireSessionKeeps
<1>6. ASSUME NEW k \in Key, CloseWindow(k) PROVE IInv'
  BY <1>6, CloseWindowKeeps
<1>7. CASE UNCHANGED vars
  <2> USE <1>7 DEF vars, keys, browser, chats, history
  <2>1. Typed'
    BY DEF IInv, Typed
  <2> QED
    BY <2>1, AsideKept
<1> QED
  BY <1>1, <1>2, <1>3, <1>4, <1>5, <1>6, <1>7, CrashKeeps DEF Next

\* The inductive invariant holds: the issue of a code is in one place, and a
\* request of somebody who was no admin any more is still to be found out.
THEOREM Invariance == Spec => []IInv
BY InitIInv, NextIInv, PTL DEF Spec

\* In every reachable state a login code that was issued has bought at most one
\* session, of its admin, whichever tabs submitted it (app/web/auth.py).
THEOREM CodesBuyOnce == Spec => []PanelInv
<1>1. Typed => TypeOK
  <2>1. Session \cup {0} = 0..MaxSessions
    BY LimitsAssumption DEF Session
  <2> QED
    BY <2>1 DEF Typed, TypeOK, CodeRow, SessionRow, Window, TabRow
<1>2. IInv => PanelInv
  BY <1>1 DEF IInv, PanelInv, IssuesAreSpentOnce
<1> QED
  BY <1>2, Invariance, PTL

\* Every request that is let in was received while its admin had a row, and
\* every form that is carried out belongs to the session it is sent under.
THEOREM RequestsAreAlwaysOwned == Spec => []RequestsAreOwned
<1>1. IInv => RequestsAreOwned
  BY DEF IInv, LateIsFound
<1> QED
  BY <1>1, Invariance, PTL

\* A session that is gone stays gone: no EXPIRE or HSET of a request that read
\* it before brings it back.
THEOREM GoneForGood == Spec => SessionsStayGone
<1> DEFINE StaysGone == \A s \in Session :
              sessions[s].status = "gone" => sessions'[s].status = "gone"
<1>1. IInv /\ [Next]_vars => StaysGone
  <2> SUFFICES ASSUME IInv, [Next]_vars, NEW s \in Session,
                      sessions[s].status = "gone"
               PROVE  sessions'[s].status = "gone"
    OBVIOUS
  <2>1. sessions \in [Session -> SessionRow]
    BY DEF IInv, Typed
  <2>2. ASSUME NEW r \in 0..MaxSessions, NEW b \in BOOLEAN,
               sessions' = [sessions EXCEPT ![r].ttl = b]
        PROVE  sessions'[s].status = "gone"
    BY <2>1, <2>2 DEF SessionRow
  <2>3. ASSUME NEW r \in 0..MaxSessions, Drop(r) PROVE sessions'[s].status = "gone"
    BY <2>1, <2>3 DEF SessionRow, Drop
  <2>4. CASE sessions' = sessions
    BY <2>4
  <2>5. ASSUME NEW t \in Tab, CreateSession(t) PROVE sessions'[s].status = "gone"
    BY <2>1, <2>5 DEF CreateSession, Fresh, NoSession
  <2>6. ASSUME NEW t \in Tab, ArmSession(t) \/ Slide(t) PROVE sessions'[s].status = "gone"
    BY <2>2, <2>6 DEF ArmSession, Slide, IInv, Typed, TabRow, Live
  <2>7. ASSUME NEW t \in Tab, CheckAdmin(t) \/ Logout(t)
        PROVE  sessions'[s].status = "gone"
    BY <2>3, <2>4, <2>7 DEF CheckAdmin, Logout, IInv, Typed, TabRow
  <2>8. ASSUME NEW r \in Session, ExpireSession(r) PROVE sessions'[s].status = "gone"
    BY <2>3, <2>8 DEF ExpireSession, Session
  <2>9. ASSUME NEW a \in Admin,
               AskCode(a) \/ Weblogin(a) \/ ThrottleFails(a) \/ RemoveAdmin(a)
        PROVE  sessions' = sessions
    BY <2>9 DEF AskCode, Weblogin, ThrottleHit, ThrottleArm, Issue, ThrottleFails,
       RemoveAdmin, keys
  <2>10. ASSUME NEW t \in Tab,
                \/ SubmitCode(t) \/ Request(t) \/ AttemptHit(t) \/ AttemptArm(t)
                \/ Redeem(t) \/ AttemptFails(t) \/ LoadSession(t) \/ Serve(t)
         PROVE  sessions' = sessions
    BY <2>10 DEF SubmitCode, Request, AttemptHit, AttemptArm, Redeem, AttemptFails,
       LoadSession, Serve, keys
  <2>11. ASSUME \/ \E c \in Code : ExpireCode(c)
                \/ \E k \in Key : CloseWindow(k)
                \/ Crash \/ UNCHANGED vars
         PROVE  sessions' = sessions
    BY <2>11 DEF ExpireCode, CloseWindow, Crash, vars, keys
  <2> QED
    BY <2>4, <2>5, <2>6, <2>7, <2>8, <2>9, <2>10, <2>11 DEF Next, Login, Gate
<1>2. Spec => [][StaysGone]_vars
  <2> HIDE DEF StaysGone
  <2> QED
    BY <1>1, Invariance, PTL DEF Spec
<1> QED
  BY <1>2 DEF SessionsStayGone
=============================================================================
