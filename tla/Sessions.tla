------------------------------ MODULE Sessions ------------------------------
(***************************************************************************)
(* Accounts and sessions (handler/auth.go, middleware/auth.go).            *)
(*                                                                         *)
(* The API processes keep nothing of a session: accounts and sessions are  *)
(* rows of the shared database, and the browser carries the key of its     *)
(* session in a cookie.  A browser may have several requests under way; a  *)
(* request carries the cookie the jar held when it was sent, and an answer *)
(* changes the jar when it arrives, in whatever order that is.             *)
(*                                                                         *)
(* A row is named by the request that wrote it: account r is what Register *)
(* r inserted, session r what Register or Login r inserted (the token of   *)
(* generateToken is drawn afresh, so no two requests share one).  A fault  *)
(* is a statement that comes back with an error, after it took effect or   *)
(* before; a cancelled request context is one too.                         *)
(***************************************************************************)
EXTENDS Integers

CONSTANTS
    Requests,   \* the requests that will ever be sent
    Browsers,   \* their senders
    Forms,      \* what Register and Login may be sent: [name, mail, word]
    Nobody,     \* no account, no cookie, no form
    MaxFaults   \* how many statements come back with an error

ASSUME FaultsAssumption == MaxFaults \in Nat

VARIABLES
    users,    \* the accounts
    sess,     \* sess[r]: the session r wrote
    jar,      \* jar[b]: the cookie session_id of browser b
    pc,       \* pc[r]: the statement r is before
    sent,     \* sent[r]: what r is, Nobody until it is sent
    as,       \* as[r]: the account r is handled for
    code,     \* code[r]: its status, 0 until there is one
    faults,   \* faults so far
    faulty,   \* faulty[r]: one of them hit r
    before    \* before[r]: [users, ended] when r was sent

db == <<users, sess>>
request == <<pc, as, code>>
seen == <<sent, before>>
trouble == <<faults, faulty>>
vars == <<db, jar, request, seen, trouble>>

SignIns == {"register", "login"}
Kinds == SignIns \union {"logout", "act", "browse"}
Steps == {"unsent", "auth", "user", "lookup", "session", "delete", "work", "answer", "over"}
Codes == {0, 200, 201, 401, 409, 500}

Cookies == Requests \union {Nobody}
Sent == [by : Browsers, kind : Kinds, form : Forms \union {Nobody}, cookie : Cookies]

ASSUME NobodyAssumption == Nobody \notin Requests \union Sent

(* Sessions a logout was answered with status 200 for.                     *)
Ended == {sent[l].cookie : l \in {r \in Requests :
              pc[r] = "over" /\ code[r] = 200 /\ sent[r].kind = "logout"}}

TypeOK ==
    /\ users \in SUBSET Requests
    /\ sess \in [Requests -> {"none", "live", "expired", "gone"}]
    /\ jar \in [Browsers -> Cookies]
    /\ pc \in [Requests -> Steps]
    /\ sent \in [Requests -> Sent \union {Nobody}]
    /\ as \in [Requests -> Cookies]
    /\ code \in [Requests -> Codes]
    /\ faults \in 0 .. MaxFaults
    /\ faulty \in [Requests -> BOOLEAN]
    /\ before \in [Requests -> [users : SUBSET Requests, ended : SUBSET Cookies]]

Init ==
    /\ users = {}
    /\ sess = [r \in Requests |-> "none"]
    /\ jar = [b \in Browsers |-> Nobody]
    /\ pc = [r \in Requests |-> "unsent"]
    /\ sent = [r \in Requests |-> Nobody]
    /\ as = [r \in Requests |-> Nobody]
    /\ code = [r \in Requests |-> 0]
    /\ faults = 0
    /\ faulty = [r \in Requests |-> FALSE]
    /\ before = [r \in Requests |-> [users |-> {}, ended |-> {}]]

-----------------------------------------------------------------------------
To(r, step) == pc' = [pc EXCEPT ![r] = step]

Reply(r, status) ==
    /\ To(r, "answer")
    /\ code' = [code EXCEPT ![r] = status]

Fault(r) ==
    /\ faults < MaxFaults
    /\ faults' = faults + 1
    /\ faulty' = [faulty EXCEPT ![r] = TRUE]

Send(r, what, step) ==
    /\ pc[r] = "unsent"
    /\ To(r, step)
    /\ sent' = [sent EXCEPT ![r] = what]
    /\ before' = [before EXCEPT ![r] = [users |-> users, ended |-> Ended]]
    /\ UNCHANGED <<db, jar, as, code, trouble>>

(* main.go, routes: these two do not pass through the middleware.          *)
SignIn(r, b) ==
    \E form \in Forms :
        LET what(kind) == [by |-> b, kind |-> kind, form |-> form, cookie |-> Nobody]
        IN  Send(r, what("register"), "user") \/ Send(r, what("login"), "lookup")

Ask(r, b) ==
    \E kind \in Kinds \ SignIns :
        Send(r, [by |-> b, kind |-> kind, form |-> Nobody, cookie |-> jar[b]], "auth")

-----------------------------------------------------------------------------
(* The middleware: Required refuses whatever it cannot look up, Optional   *)
(* goes on without an account.                                             *)

Live(cookie) == cookie # Nobody /\ sess[cookie] = "live"

Admit(r) ==
    /\ as' = [as EXCEPT ![r] = as[sent[r].cookie]]
    /\ To(r, IF sent[r].kind = "logout" THEN "delete" ELSE "work")
    /\ UNCHANGED code

Refuse(r) ==
    /\ IF sent[r].kind = "browse" THEN To(r, "work") /\ UNCHANGED code ELSE Reply(r, 401)
    /\ UNCHANGED as

Auth(r) ==
    /\ pc[r] = "auth"
    /\ \/ Live(sent[r].cookie) /\ Admit(r) /\ UNCHANGED trouble
       \/ ~ Live(sent[r].cookie) /\ Refuse(r) /\ UNCHANGED trouble
       \/ sent[r].cookie # Nobody /\ Fault(r) /\ Refuse(r)
    /\ UNCHANGED <<db, jar, seen>>

(* What the handlers behind the middleware do for as[r].                   *)
Work(r) ==
    /\ pc[r] = "work"
    /\ Reply(r, 200)
    /\ UNCHANGED <<db, jar, as, seen, trouble>>

-----------------------------------------------------------------------------
(* Register.  username and email are UNIQUE.                               *)

Form(r) == sent[r].form

Clash(r, u) == Form(u).name = Form(r).name \/ Form(u).mail = Form(r).mail

Taken(r) == \E u \in users : Clash(r, u)

InsertUser(r) ==
    /\ pc[r] = "user"
    /\ \/ /\ Taken(r)
          /\ Reply(r, 409)
          /\ UNCHANGED <<users, as, trouble>>
       \/ /\ ~ Taken(r)
          /\ users' = users \union {r}
          /\ as' = [as EXCEPT ![r] = r]
          /\ To(r, "session")
          /\ UNCHANGED <<code, trouble>>
       \/ /\ Fault(r)
          /\ Reply(r, 500)
          /\ UNCHANGED users \/ (~ Taken(r) /\ users' = users \union {r})
          /\ UNCHANGED as
    /\ UNCHANGED <<sess, jar, seen>>

(* Login.  bcrypt tells whether the password is the account's; an error of *)
(* the query is answered like a wrong password.                            *)
OwnsByMail(r, u) == Form(u).mail = Form(r).mail

Owns(r, u) == Form(u).mail = Form(r).mail /\ Form(u).word = Form(r).word

Lookup(r) ==
    /\ pc[r] = "lookup"
    /\ \/ /\ \E u \in users : Owns(r, u) /\ as' = [as EXCEPT ![r] = u]
          /\ To(r, "session")
          /\ UNCHANGED <<code, trouble>>
       \/ /\ \A u \in users : ~ Owns(r, u)
          /\ Reply(r, 401)
          /\ UNCHANGED <<as, trouble>>
       \/ Fault(r) /\ Reply(r, 401) /\ UNCHANGED as
    /\ UNCHANGED <<db, jar, seen>>

(* Both end with the session.  An error there, or of fetchUser before it,  *)
(* leaves a registered account behind without a session; what happens to   *)
(* fetchUser after it changes nothing.                                     *)
InsertSessionHidesFault(r) ==
    /\ pc[r] = "session"
    /\ \/ sess' = [sess EXCEPT ![r] = "live"] /\ UNCHANGED trouble
       \/ Fault(r) /\ UNCHANGED sess
    /\ Reply(r, IF sent[r].kind = "register" THEN 201 ELSE 200)
    /\ UNCHANGED <<users, jar, as, seen>>

InsertSession(r) ==
    /\ pc[r] = "session"
    /\ \/ /\ sess' = [sess EXCEPT ![r] = "live"]
          /\ Reply(r, IF sent[r].kind = "register" THEN 201 ELSE 200)
          /\ UNCHANGED trouble
       \/ /\ Fault(r)
          /\ sess' \in {sess, [sess EXCEPT ![r] = "live"]}
          /\ Reply(r, 500)
    /\ UNCHANGED <<users, jar, as, seen>>

-----------------------------------------------------------------------------
(* Logout deletes the row, and clears the cookie only if that succeeded.   *)

DeleteRegardless(r) ==
    LET row == sent[r].cookie
        without == [sess EXCEPT ![row] = "gone"]
    IN
    /\ pc[r] = "delete"
    /\ \/ sess' = without /\ UNCHANGED trouble
       \/ Fault(r) /\ sess' \in {sess, without}
    /\ Reply(r, 200)
    /\ UNCHANGED <<users, jar, as, seen>>

Delete(r) ==
    LET row == sent[r].cookie
        without == [sess EXCEPT ![row] = "gone"]
    IN
    /\ pc[r] = "delete"
    /\ \/ sess' = without /\ Reply(r, 200) /\ UNCHANGED trouble
       \/ Fault(r) /\ sess' \in {sess, without} /\ Reply(r, 500)
    /\ UNCHANGED <<users, jar, as, seen>>

-----------------------------------------------------------------------------
(* The answer, with its Set-Cookie, arrives or is lost on the way.         *)
SetCookie(r) ==
    IF sent[r].kind \in SignIns /\ code[r] \in {200, 201} THEN r
    ELSE IF sent[r].kind = "logout" /\ code[r] = 200 THEN Nobody
    ELSE jar[sent[r].by]

Answer(r) ==
    /\ pc[r] = "answer"
    /\ To(r, "over")
    /\ jar' \in {jar, [jar EXCEPT ![sent[r].by] = SetCookie(r)]}
    /\ UNCHANGED <<db, as, code, seen, trouble>>

(* 24 hours pass: expires_at in the row, Expires in the cookie.            *)
Expire(r) ==
    /\ sess[r] = "live"
    /\ sess' = [sess EXCEPT ![r] = "expired"]
    /\ UNCHANGED <<users, jar, request, seen, trouble>>

Forget(b) ==
    /\ jar[b] # Nobody
    /\ sess[jar[b]] = "expired"
    /\ jar' = [jar EXCEPT ![b] = Nobody]
    /\ UNCHANGED <<db, request, seen, trouble>>

-----------------------------------------------------------------------------
Serve(r) ==
    \/ Auth(r) \/ Work(r)
    \/ InsertUser(r) \/ Lookup(r) \/ InsertSession(r)
    \/ Delete(r)
    \/ Answer(r)

Next ==
    \/ \E r \in Requests, b \in Browsers : SignIn(r, b) \/ Ask(r, b)
    \/ \E r \in Requests : Serve(r) \/ Expire(r)
    \/ \E b \in Browsers : Forget(b)

Spec == Init /\ [][Next]_vars

-----------------------------------------------------------------------------
(* A request acts as an account only if its own browser once proved it     *)
(* with the account's mail and password (Register, Login, Required,        *)
(* Optional), whatever collides, is retried or answers late.               *)
ActsAsProven ==
    \A r \in Requests :
        as[r] # Nobody /\ sent[r].kind \notin SignIns =>
            LET s == sent[r].cookie
            IN  /\ s # Nobody /\ sent[s].by = sent[r].by
                /\ Form(s).mail = Form(as[r]).mail /\ Form(s).word = Form(as[r]).word

(* Once a logout is answered with status 200 (auth.go, Logout: the cookie  *)
(* is not cleared if the DELETE failed), no request sent later acts with   *)
(* that session, even if the answer was lost and the cookie is still sent. *)
NoActAfterLogout ==
    \A r \in Requests :
        sent[r] # Nobody /\ sent[r].cookie \in before[r].ended
            /\ sent[r].kind \notin SignIns => as[r] = Nobody

(* Without a fault of the database, a refusal has a cause: status 409 of   *)
(* Register a row with that name or mail, status 401 of Login an account   *)
(* that was not there or another password, status 401 of the middleware a  *)
(* cookie that is missing, expired or logged out.                          *)
RefusedForCause ==
    \A r \in Requests : ~ faulty[r] =>
        /\ code[r] = 409 => \E u \in users \ {r} : Clash(r, u)
        /\ code[r] = 401 /\ sent[r].kind = "login" =>
            \A u \in before[r].users :
                Form(u).mail # Form(r).mail \/ Form(u).word # Form(r).word
        /\ code[r] = 401 /\ sent[r].kind # "login" =>
            \/ sent[r].cookie = Nobody
            \/ sess[sent[r].cookie] \in {"expired", "gone"}
=============================================================================
