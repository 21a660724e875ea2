----------------------------- MODULE PanelAccess -----------------------------
(***************************************************************************)
(* How an admin gets into the web panel: the bot issues a login code, a    *)
(* browser redeems it for a session, and every request is let through by   *)
(* its session, the admin's row and the token of the form.  Codes,         *)
(* sessions and the counters of the two rate limits live in Redis, and     *)
(* every call to it is a step of its own.  One browser with several tabs:  *)
(* they share the cookie and the address that attempts are counted by.     *)
(***************************************************************************)
EXTENDS Integers

CONSTANTS
    Admin,       \* the rows of `admins' at the beginning
    Tab,         \* the tabs of the browser: requests handled at once
    Code,        \* the six-digit numbers
    MaxIssues,   \* bound: codes ever issued
    MaxSessions, \* bound: sessions ever made
    Limit,       \* web_login_max_attempts, and max_per_second of the throttle
    MaxFaults,   \* bound: crashes and failed calls
    None

ASSUME LimitsAssumption ==
    /\ MaxIssues \in Nat /\ MaxSessions \in Nat
    /\ Limit \in Nat \ {0} /\ MaxFaults \in Nat
    /\ None \notin Admin \cup Code

Session == 1..MaxSessions
Address == "address"
Key     == {Address} \cup Admin   \* what is counted by: the address, a Telegram id

VARIABLES
    admins,   \* the rows of `admins'
    codes,    \* {env}:weblogin:{code}: whose it is, and the how-manieth issue
    sessions, \* {env}:websession:{token}
    windows,  \* {env}:weblogin_attempts:{ip} and throttle:{id}: counter and TTL
    cookie,   \* panel_session of the browser
    page,     \* the session whose form token the page open in a tab carries
    tab,      \* the request of each tab
    bot,      \* the /weblogin update of each admin
    shown,    \* the code last shown in the chat of each admin
    issued,   \* history: the number of codes issued
    stranded, \* history: counters whose first hit failed before its EXPIRE
    faults    \* history

keys    == <<codes, sessions, windows>>
browser == <<cookie, page, tab>>
chats   == <<bot, shown>>
history == <<issued, stranded, faults>>
vars    == <<admins, keys, browser, chats, history>>

NoCode     == [admin |-> None, issue |-> 0]
NoSession  == [status |-> "unused", admin |-> None, issue |-> 0, ttl |-> FALSE]
NoRequest  == [pc |-> "idle", what |-> "none", code |-> None, admin |-> None,
               issue |-> 0, token |-> 0, form |-> 0, late |-> FALSE]
Zero       == [count |-> 0, ttl |-> FALSE]

Live(s) == s # 0 /\ sessions[s].status = "live"

-----------------------------------------------------------------------------
(* The rate limits: INCR, then EXPIRE by whoever counted to one. *)

\* Beyond Limit + 1 all counts are alike.
Hit(k) == windows' = [windows EXCEPT ![k].count = IF @ > Limit THEN @ ELSE @ + 1]

Arm(k) == windows' = [windows EXCEPT ![k].ttl = @ \/ windows[k].count > 0]

\* Variant: the window is armed by the hit that finds the counter at zero.
ArmsLate(count) == count = 0

Arms(count) == count = 1

\* Where a request that counted to `count' goes on.
Counted(count, pass, drop) ==
    IF Arms(count) THEN "expire" ELSE IF count <= Limit THEN pass ELSE drop

CloseWindow(k) ==
    /\ windows[k].ttl
    /\ windows' = [windows EXCEPT ![k] = Zero]
    /\ stranded' = stranded \ {k}
    /\ UNCHANGED <<admins, codes, sessions, browser, chats, issued, faults>>

-----------------------------------------------------------------------------
(* /weblogin: the throttle, then the command. *)

BotAt(a, pc) == bot' = [bot EXCEPT ![a] = pc]

AskCode(a) ==
    /\ bot[a] = "idle" /\ issued < MaxIssues
    /\ BotAt(a, "count")
    /\ UNCHANGED <<admins, keys, browser, shown, history>>

ThrottleHit(a) ==
    /\ bot[a] = "count"
    /\ Hit(a)
    /\ BotAt(a, Counted(windows'[a].count, "issue", "idle"))
    /\ UNCHANGED <<admins, codes, sessions, browser, shown, history>>

ThrottleArm(a) ==
    /\ bot[a] = "expire"
    /\ Arm(a)
    /\ BotAt(a, "issue")
    /\ UNCHANGED <<admins, codes, sessions, browser, shown, history>>

\* SET NX EX: a number that is another's code is not taken.
Issue(a) ==
    /\ bot[a] = "issue"
    /\ BotAt(a, "idle")
    /\ IF a \in admins /\ issued < MaxIssues
       THEN \E c \in Code :
              /\ codes[c] = NoCode
              /\ issued' = issued + 1
              /\ codes' = [codes EXCEPT ![c] = [admin |-> a, issue |-> issued']]
              /\ shown' = [shown EXCEPT ![a] = c]
       ELSE UNCHANGED <<codes, shown, issued>>
    /\ UNCHANGED <<admins, sessions, windows, browser, stranded, faults>>

Weblogin(a) == ThrottleHit(a) \/ ThrottleArm(a) \/ Issue(a)

\* The throttle fails open: the update is handled.
ThrottleFails(a) ==
    /\ bot[a] \in {"count", "expire"} /\ faults < MaxFaults
    /\ BotAt(a, "issue")
    /\ stranded' = IF bot[a] = "expire" THEN stranded \cup {a} ELSE stranded
    /\ faults' = faults + 1
    /\ UNCHANGED <<admins, keys, browser, shown, issued>>

ExpireCode(c) ==
    /\ codes[c] # NoCode
    /\ codes' = [codes EXCEPT ![c] = NoCode]
    /\ UNCHANGED <<admins, sessions, windows, browser, chats, history>>

-----------------------------------------------------------------------------
(* The login form. *)

To(t, pc)   == tab' = [tab EXCEPT ![t].pc = pc]
Finish(t)   == tab' = [tab EXCEPT ![t] = NoRequest]
Show(t, s)  == Finish(t) /\ page' = [page EXCEPT ![t] = s]
LoginForm(t) == Show(t, 0)   \* it carries no token of a session
TypedCode   == {shown[a] : a \in Admin}

\* The code in the chat of some admin, or a number mistyped for it.
SubmitCode(t) ==
    /\ tab[t].pc = "idle"
    /\ \E c \in TypedCode \cup {None} :
         tab' = [tab EXCEPT ![t] = [NoRequest EXCEPT
                    !.pc = "count", !.what = "code", !.code = c]]
    /\ UNCHANGED <<admins, keys, cookie, page, chats, history>>

AttemptHit(t) ==
    /\ tab[t].pc = "count"
    /\ Hit(Address)
    /\ LET next == Counted(windows'[Address].count, "redeem", "drop")
       IN  IF next = "drop" THEN LoginForm(t) ELSE To(t, next) /\ UNCHANGED page
    /\ UNCHANGED <<admins, codes, sessions, cookie, chats, history>>

AttemptArm(t) ==
    /\ tab[t].pc = "expire"
    /\ Arm(Address)
    /\ To(t, "redeem")
    /\ UNCHANGED <<admins, codes, sessions, cookie, page, chats, history>>

RedeemedBy(t, c) ==
    tab' = [tab EXCEPT ![t] = [NoRequest EXCEPT !.pc = "hset", !.what = "code",
                !.admin = codes[c].admin, !.issue = codes[c].issue]]

\* Variant: GET, and the code is left to its TTL.
RedeemByGet(t) ==
    LET c == tab[t].code
    IN  /\ tab[t].pc = "redeem"
        /\ IF c = None \/ codes[c] = NoCode THEN LoginForm(t)
           ELSE RedeemedBy(t, c) /\ UNCHANGED page
        /\ UNCHANGED <<admins, keys, cookie, chats, history>>

\* GETDEL.
Redeem(t) ==
    LET c == tab[t].code
    IN  /\ tab[t].pc = "redeem"
        /\ IF c = None \/ codes[c] = NoCode
           THEN LoginForm(t) /\ UNCHANGED codes
           ELSE /\ RedeemedBy(t, c) /\ UNCHANGED page
                /\ codes' = [codes EXCEPT ![c] = NoCode]
        /\ UNCHANGED <<admins, sessions, windows, cookie, chats, history>>

Fresh(s) == sessions[s] = NoSession /\ \A r \in 1..(s - 1) : sessions[r] # NoSession

\* HSET of a random token.
CreateSession(t) ==
    /\ tab[t].pc = "hset"
    /\ \E s \in Session :
         /\ Fresh(s)
         /\ sessions' = [sessions EXCEPT ![s] = [status |-> "live",
                admin |-> tab[t].admin, issue |-> tab[t].issue, ttl |-> FALSE]]
         /\ tab' = [tab EXCEPT ![t] = [NoRequest EXCEPT
                        !.pc = "arm", !.what = "code", !.token = s]]
    /\ UNCHANGED <<admins, codes, windows, cookie, page, chats, history>>

\* EXPIRE, and the answer with the cookie.
ArmSession(t) ==
    /\ tab[t].pc = "arm"
    /\ sessions' = [sessions EXCEPT ![tab[t].token].ttl = Live(tab[t].token)]
    /\ cookie' = tab[t].token
    /\ Finish(t)
    /\ UNCHANGED <<admins, codes, windows, page, chats, history>>

Login(t) == \/ AttemptHit(t) \/ AttemptArm(t) \/ Redeem(t) \/ CreateSession(t)
            \/ ArmSession(t)

\* This limit fails closed.
AttemptFails(t) ==
    /\ tab[t].pc \in {"count", "expire"} /\ faults < MaxFaults
    /\ LoginForm(t)
    /\ stranded' = IF tab[t].pc = "expire" THEN stranded \cup {Address} ELSE stranded
    /\ faults' = faults + 1
    /\ UNCHANGED <<admins, keys, cookie, chats, issued>>

-----------------------------------------------------------------------------
(* The gate of the panel. *)

\* A page, a form of the page that is open, the logout button, the login page.
Request(t) ==
    /\ tab[t].pc = "idle" /\ cookie # 0
    /\ \E what \in {"get", "post", "logout", "login"} :
         tab' = [tab EXCEPT ![t] = [NoRequest EXCEPT !.pc = "load", !.what = what,
                    !.token = cookie, !.form = page[t]]]
    /\ UNCHANGED <<admins, keys, cookie, page, chats, history>>

\* HGETALL; without a session the answer is the login form.
LoadSession(t) ==
    LET s == tab[t].token
    IN  /\ tab[t].pc = "load"
        /\ IF Live(s)
           THEN /\ tab' = [tab EXCEPT ![t] = [@ EXCEPT !.pc = "slide",
                        !.admin = sessions[s].admin,
                        !.late  = sessions[s].admin \notin admins]]
                /\ UNCHANGED page
           ELSE LoginForm(t)
        /\ UNCHANGED <<admins, keys, cookie, chats, history>>

\* Who is logged in is sent on from the login page.
AfterSlide(t) == IF tab[t].what = "login" THEN Finish(t) ELSE To(t, "admin")

\* Variant: the session is written back with its new TTL.
SlideByRewriting(t) ==
    /\ tab[t].pc = "slide"
    /\ sessions' = [sessions EXCEPT ![tab[t].token] =
                        [@ EXCEPT !.status = "live", !.ttl = TRUE]]
    /\ AfterSlide(t)
    /\ UNCHANGED <<admins, codes, windows, cookie, page, chats, history>>

\* EXPIRE does nothing to a session that is gone by now.
Slide(t) ==
    /\ tab[t].pc = "slide"
    /\ sessions' = [sessions EXCEPT ![tab[t].token].ttl = Live(tab[t].token)]
    /\ AfterSlide(t)
    /\ UNCHANGED <<admins, codes, windows, cookie, page, chats, history>>

Drop(s) == sessions' = [sessions EXCEPT ![s].status = "gone", ![s].ttl = FALSE]

FormAccepted(t) == tab[t].what = "get" \/ tab[t].form = tab[t].token

Enter(t) == IF FormAccepted(t) THEN To(t, "in") ELSE Finish(t)

\* Variant: the admin's row is looked up for pages only.
CheckAdminOfPages(t) ==
    /\ tab[t].pc = "admin"
    /\ IF tab[t].what # "get" \/ tab[t].admin \in admins
       THEN Enter(t) /\ UNCHANGED <<sessions, page>>
       ELSE Drop(tab[t].token) /\ LoginForm(t)
    /\ UNCHANGED <<admins, codes, windows, cookie, chats, history>>

\* The row must still be there; a form must carry the token of the session.
CheckAdmin(t) ==
    /\ tab[t].pc = "admin"
    /\ IF tab[t].admin \in admins
       THEN Enter(t) /\ UNCHANGED <<sessions, page>>
       ELSE Drop(tab[t].token) /\ LoginForm(t)
    /\ UNCHANGED <<admins, codes, windows, cookie, chats, history>>

\* The handler answers with a page of the session.
Serve(t) ==
    /\ tab[t].pc = "in" /\ tab[t].what # "logout"
    /\ Show(t, tab[t].token)
    /\ UNCHANGED <<admins, keys, cookie, chats, history>>

\* The session is dropped, and the answer clears the cookie, whoever set it.
Logout(t) ==
    /\ tab[t].pc = "in" /\ tab[t].what = "logout"
    /\ Drop(tab[t].token)
    /\ cookie' = 0
    /\ LoginForm(t)
    /\ UNCHANGED <<admins, codes, windows, chats, history>>

Gate(t) == LoadSession(t) \/ Slide(t) \/ CheckAdmin(t) \/ Serve(t) \/ Logout(t)

ExpireSession(s) ==
    /\ Live(s) /\ sessions[s].ttl
    /\ Drop(s)
    /\ UNCHANGED <<admins, codes, windows, browser, chats, history>>

-----------------------------------------------------------------------------
(* The environment. *)

\* The row is deleted by hand, for good.
RemoveAdmin(a) ==
    /\ a \in admins
    /\ admins' = admins \ {a}
    /\ UNCHANGED <<keys, browser, chats, history>>

\* Requests and updates are lost, Redis is not.
Crash ==
    /\ faults < MaxFaults
    /\ faults' = faults + 1
    /\ stranded' = stranded \cup {a \in Admin : bot[a] = "expire"}
            \cup (IF \E t \in Tab : tab[t].pc = "expire" THEN {Address} ELSE {})
    /\ tab' = [t \in Tab |-> NoRequest]
    /\ bot' = [a \in Admin |-> "idle"]
    /\ UNCHANGED <<admins, keys, cookie, page, shown, issued>>

Logged(a, n) == [status |-> "live", admin |-> a, issue |-> n, ttl |-> TRUE]

\* Codes were issued before.  Each is lost, or bought a session, which may be
\* the one of the browser, with its page open in every tab or in none; the last
\* may be outstanding.
Init ==
    /\ admins = Admin
    /\ issued \in 0..MaxIssues
    /\ \E old \in 0..MaxSessions, a \in Admin :
         /\ old <= issued
         /\ sessions = [s \in Session |-> IF s <= old THEN Logged(a, s) ELSE NoSession]
         /\ cookie \in 0..old
         /\ page \in {[t \in Tab |-> s] : s \in {0, cookie}}
         /\ \E c \in Code \cup {None} :
              /\ c # None => old < issued
              /\ codes = [d \in Code |-> IF d = c THEN [admin |-> a, issue |-> issued]
                                                ELSE NoCode]
              /\ shown = [b \in Admin |-> IF b = a THEN c ELSE None]
    /\ windows  = [k \in Key |-> Zero]
    /\ tab      = [t \in Tab |-> NoRequest]
    /\ bot      = [a \in Admin |-> "idle"]
    /\ stranded = {}
    /\ faults   \in 0..MaxFaults

Next ==
    \/ \E a \in Admin : AskCode(a) \/ Weblogin(a) \/ ThrottleFails(a) \/ RemoveAdmin(a)
    \/ \E t \in Tab : SubmitCode(t) \/ Request(t) \/ Login(t) \/ Gate(t) \/ AttemptFails(t)
    \/ \E c \in Code : ExpireCode(c)
    \/ \E s \in Session : ExpireSession(s)
    \/ \E k \in Key : CloseWindow(k)
    \/ Crash

\* What was begun goes on, and Redis expires the counters that have a TTL.
Fairness ==
    /\ \A a \in Admin : WF_vars(Weblogin(a))
    /\ \A t \in Tab : WF_vars(Login(t) \/ Gate(t))
    /\ \A k \in Key : WF_vars(CloseWindow(k))

Spec == Init /\ [][Next]_vars /\ Fairness

-----------------------------------------------------------------------------
(* Properties. *)

TypeOK ==
    /\ admins \subseteq Admin
    /\ \A c \in Code : codes[c].admin \in Admin \cup {None}
                       /\ codes[c].issue \in 0..MaxIssues
    /\ \A s \in Session : sessions[s].status \in {"unused", "live", "gone"}
    /\ \A k \in Key : windows[k].count \in 0..(Limit + 1) /\ windows[k].ttl \in BOOLEAN
    /\ cookie \in Session \cup {0} /\ page \in [Tab -> Session \cup {0}]
    /\ \A t \in Tab : tab[t].token \in Session \cup {0} /\ tab[t].late \in BOOLEAN
    /\ shown \in [Admin -> Code \cup {None}]
    /\ issued \in 0..MaxIssues /\ stranded \subseteq Key

\* A code that was issued buys at most one session, of the admin it was issued
\* to, however many tabs submit it at once.
CodeBuysOnce ==
    /\ \A s, r \in Session :
         sessions[s].issue = sessions[r].issue /\ sessions[s].issue # 0 => s = r
    /\ \A s \in Session, c \in Code :
         codes[c] # NoCode => sessions[s].issue # codes[c].issue
    /\ \A t, u \in Tab :
         tab[t].pc = "hset" /\ tab[u].pc = "hset" /\ tab[t].issue = tab[u].issue => t = u

PanelInv == TypeOK /\ CodeBuysOnce

\* A request that is let in was received while its admin had a row; a form that
\* is carried out was opened under the very session that carries it out, so a
\* page left open over a logout and a new login does nothing.
RequestsAreOwned ==
    \A t \in Tab : tab[t].pc = "in" =>
        /\ ~tab[t].late
        /\ tab[t].what # "get" => tab[t].form = tab[t].token

\* A session that was logged out, revoked or expired never comes back, not by a
\* request either that read it before and extends it after.
SessionsStayGone ==
    [][\A s \in Session :
         sessions[s].status = "gone" => sessions'[s].status = "gone"]_vars

\* A lockout ends: a counter over the limit goes back to zero, unless the call
\* that was to give it a TTL failed; then nothing ever resets it.
LockoutEnds ==
    \A k \in Key : windows[k].count > Limit ~> windows[k].count = 0 \/ k \in stranded
=============================================================================
