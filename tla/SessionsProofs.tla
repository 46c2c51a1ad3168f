--------------------------- MODULE SessionsProofs ---------------------------
(***************************************************************************)
(* Theorems about accounts and sessions (module Sessions), for any number  *)
(* of browsers, requests, forms and faults.                                *)
(*                                                                         *)
(* The argument.  A session row names the account its request proved, and  *)
(* is written once; a cookie reaches a jar only in the answer of the       *)
(* request that wrote its row, so every cookie ever sent names a row of    *)
(* the same browser (Good).  A row once deleted or expired never lives     *)
(* again, so what a logout has ended stays ended.                          *)
(***************************************************************************)
EXTENDS Sessions, TLAPS

(* The account r is handled for is one whose mail and password r gave.     *)
Proven(r) ==
    /\ as[r] \in users
    /\ Form(r).mail = Form(as[r]).mail /\ Form(r).word = Form(as[r]).word

(* A cookie of browser b.                                                  *)
Good(s, b) ==
    /\ s \in Requests /\ sent[s] # Nobody
    /\ sent[s].kind \in SignIns /\ sent[s].by = b
    /\ sess[s] # "none" /\ Proven(s)

Stage(r) ==
    /\ pc[r] = "unsent" <=> sent[r] = Nobody
    /\ pc[r] \in {"unsent", "auth"} => as[r] = Nobody
    /\ pc[r] \notin {"answer", "over"} => code[r] = 0
    /\ pc[r] = "auth" => sent[r].kind \notin SignIns
    /\ pc[r] = "work" => sent[r].kind \in {"act", "browse"}
    /\ pc[r] = "user" => sent[r].kind = "register"
    /\ pc[r] = "lookup" => sent[r].kind = "login"
    /\ pc[r] = "session" => sent[r].kind \in SignIns /\ Proven(r)
    /\ pc[r] = "delete" => sent[r].kind = "logout" /\ sent[r].cookie # Nobody

Rows(r) ==
    /\ r \in users => sent[r] # Nobody /\ sent[r].kind = "register" /\ pc[r] # "user"
    /\ sess[r] # "none" =>
        /\ sent[r] # Nobody /\ sent[r].kind \in SignIns
        /\ pc[r] \in {"answer", "over"} /\ Proven(r)

Granted(r) ==
    sent[r] # Nobody /\ sent[r].kind \in SignIns /\ code[r] \in {200, 201} => sess[r] # "none"

Cookie(r) ==
    sent[r] # Nobody /\ sent[r].cookie # Nobody =>
        sent[r].kind \notin SignIns /\ Good(sent[r].cookie, sent[r].by)

Acts(r) ==
    sent[r] # Nobody /\ sent[r].kind \notin SignIns /\ as[r] # Nobody =>
        sent[r].cookie # Nobody /\ as[r] = as[sent[r].cookie]

LoggedOut(r) ==
    sent[r] # Nobody /\ sent[r].kind = "logout" /\ code[r] = 200 =>
        sent[r].cookie # Nobody /\ sess[sent[r].cookie] = "gone"

Earlier(r) ==
    /\ before[r].users \subseteq users
    /\ \A c \in before[r].ended : c \in Requests /\ sess[c] = "gone"

LateActs(r) ==
    sent[r] # Nobody /\ sent[r].cookie \in before[r].ended
        /\ sent[r].kind \notin SignIns => as[r] = Nobody

Refused(r) ==
    sent[r] # Nobody /\ ~ faulty[r] =>
        /\ code[r] = 409 => \E u \in users \ {r} : Clash(r, u)
        /\ code[r] = 401 /\ sent[r].kind = "login" =>
            \A u \in before[r].users :
                Form(u).mail # Form(r).mail \/ Form(u).word # Form(r).word
        /\ code[r] = 401 /\ sent[r].kind # "login" =>
            \/ sent[r].cookie = Nobody
            \/ sess[sent[r].cookie] \in {"expired", "gone"}

Req(r) ==
    /\ Stage(r) /\ Rows(r) /\ Granted(r) /\ Cookie(r) /\ Acts(r)
    /\ LoggedOut(r) /\ Earlier(r) /\ LateActs(r) /\ Refused(r)

Jars == \A b \in Browsers : jar[b] # Nobody => Good(jar[b], b)

Inv == TypeOK /\ Jars /\ \A r \in Requests : Req(r)

-----------------------------------------------------------------------------
(* Types.  That a request beyond "unsent" has been sent is part of the     *)
(* induction because Ended looks into it.                                  *)
Asked == \A r \in Requests : pc[r] = "unsent" <=> sent[r] = Nobody

TroubleOK == faults \in 0 .. MaxFaults /\ faulty \in [Requests -> BOOLEAN]

LEMMA TroubleStep ==
    ASSUME TroubleOK, NEW r \in Requests, Fault(r) \/ UNCHANGED trouble
    PROVE  TroubleOK'
<1>1. CASE Fault(r)
    BY <1>1, FaultsAssumption DEF TroubleOK, Fault
<1>2. CASE UNCHANGED trouble
    BY <1>2 DEF TroubleOK, trouble
<1>3. QED
    BY <1>1, <1>2

RequestOK ==
    /\ pc \in [Requests -> Steps]
    /\ as \in [Requests -> Cookies]
    /\ code \in [Requests -> Codes]

Same(q) == pc'[q] = "unsent" <=> pc[q] = "unsent"

PcMove(r) == \E step \in Steps \ {"unsent"} : pc' = [pc EXCEPT ![r] = step]

CodeMove(r) == UNCHANGED code \/ \E status \in Codes : code' = [code EXCEPT ![r] = status]

AsMove(r) == UNCHANGED as \/ \E account \in Cookies : as' = [as EXCEPT ![r] = account]

LEMMA Moves ==
    ASSUME RequestOK, NEW r \in Requests, pc[r] # "unsent",
           PcMove(r), CodeMove(r), AsMove(r)
    PROVE  RequestOK' /\ \A q \in Requests : Same(q)
<1>1. pc' \in [Requests -> Steps] /\ \A q \in Requests : Same(q)
    <2>1. PICK step \in Steps \ {"unsent"} : pc' = [pc EXCEPT ![r] = step]
        BY DEF PcMove
    <2>2. QED
        BY <2>1 DEF RequestOK, Same
<1>2. code' \in [Requests -> Codes]
    BY DEF RequestOK, CodeMove
<1>3. as' \in [Requests -> Cookies]
    BY DEF RequestOK, AsMove
<1>4. QED
    BY <1>1, <1>2, <1>3 DEF RequestOK

LEMMA ReplyMoves ==
    ASSUME NEW r, NEW status \in {200, 201, 401, 409, 500}, Reply(r, status)
    PROVE  PcMove(r) /\ CodeMove(r)
<1>1. "answer" \in Steps \ {"unsent"} /\ status \in Codes
    BY DEF Steps, Codes
<1>2. pc' = [pc EXCEPT ![r] = "answer"] /\ code' = [code EXCEPT ![r] = status]
    BY DEF Reply, To
<1>3. QED
    BY <1>1, <1>2, Zenon DEF PcMove, CodeMove

LEMMA StepMoves ==
    ASSUME NEW r, NEW step \in {"over", "delete", "work", "session"},
           To(r, step), UNCHANGED code
    PROVE  PcMove(r) /\ CodeMove(r)
<1>1. step \in Steps \ {"unsent"}
    BY DEF Steps
<1>2. QED
    BY <1>1, Zenon DEF PcMove, CodeMove, To

LEMMA AsMoves ==
    ASSUME NEW r, as' = as \/ \E account \in Cookies : as' = [as EXCEPT ![r] = account]
    PROVE  AsMove(r)
BY Zenon DEF AsMove

(* What a step of r leaves alone keeps its type.                           *)
LEMMA TypesFrom ==
    ASSUME TypeOK, Asked, UNCHANGED seen, NEW r \in Requests,
           users' \in SUBSET Requests,
           sess' \in [Requests -> {"none", "live", "expired", "gone"}],
           jar' \in [Browsers -> Cookies],
           RequestOK', Fault(r) \/ UNCHANGED trouble,
           \A q \in Requests : Same(q)
    PROVE  TypeOK' /\ Asked'
<1>1. TroubleOK'
    BY TroubleStep DEF TypeOK, TroubleOK
<1>2. sent' = sent /\ before' = before
    BY DEF seen
<1>3. Asked'
    BY <1>2 DEF Asked, Same
<1>4. QED
    BY <1>1, <1>2, <1>3 DEF TypeOK, TroubleOK, RequestOK

LEMMA ServeTypes ==
    ASSUME TypeOK, Asked, NEW r \in Requests, Serve(r) \/ Expire(r)
    PROVE  TypeOK' /\ Asked'
<1> DEFINE SessOK == sess \in [Requests -> {"none", "live", "expired", "gone"}]
           JarOK == jar \in [Browsers -> Cookies]
           UsersOK == users \in SUBSET Requests
           Quiet == Fault(r) \/ UNCHANGED trouble
<1>1. RequestOK /\ UsersOK /\ SessOK /\ JarOK
    BY DEF TypeOK, RequestOK
<1>2. Requests \subseteq Cookies /\ Nobody \in Cookies
    BY DEF Cookies
<1>3. pc[r] # "unsent" => sent[r] \in Sent /\ sent[r].cookie \in Cookies
    BY DEF Asked, Sent, TypeOK
<1>4. ASSUME pc[r] # "unsent", PcMove(r), CodeMove(r), AsMove(r), UNCHANGED seen, Quiet,
             UsersOK', SessOK', JarOK'
      PROVE  TypeOK' /\ Asked'
    BY <1>1, <1>4, Moves, TypesFrom
<1>5. CASE Auth(r)
    <2>1. UNCHANGED <<users, sess, jar, seen>> /\ pc[r] # "unsent" /\ Quiet
        BY <1>5 DEF Auth, db
    <2>2. UsersOK' /\ SessOK' /\ JarOK'
        BY <1>1, <2>1
    <2>3. (Admit(r) /\ Live(sent[r].cookie)) \/ Refuse(r)
        BY <1>5 DEF Auth
    <2>4. CASE Admit(r) /\ Live(sent[r].cookie)
        <3>1. as[sent[r].cookie] \in Cookies
            BY <1>1, <1>3, <2>1, <2>4 DEF Live, Cookies, RequestOK
        <3>2. AsMove(r)
            BY <2>4, <3>1, AsMoves DEF Admit
        <3>3. (To(r, "delete") \/ To(r, "work")) /\ UNCHANGED code
            BY <2>4 DEF Admit
        <3>4. PcMove(r) /\ CodeMove(r)
            BY <3>3, StepMoves
        <3>5. QED
            BY <1>4, <2>1, <2>2, <3>2, <3>4
    <2>5. CASE Refuse(r)
        <3>1. AsMove(r)
            BY <2>5, AsMoves DEF Refuse
        <3>2. (To(r, "work") /\ UNCHANGED code) \/ Reply(r, 401)
            BY <2>5 DEF Refuse
        <3>3. PcMove(r) /\ CodeMove(r)
            BY <3>2, StepMoves, ReplyMoves
        <3>4. QED
            BY <1>4, <2>1, <2>2, <3>1, <3>3
    <2>6. QED
        BY <2>3, <2>4, <2>5
<1>6. CASE Work(r)
    <2>1. Reply(r, 200) /\ as' = as /\ pc[r] # "unsent"
          /\ UNCHANGED <<users, sess, jar, seen, trouble>>
        BY <1>6 DEF Work, db
    <2>2. UsersOK' /\ SessOK' /\ JarOK'
        BY <1>1, <2>1
    <2>3. PcMove(r) /\ CodeMove(r) /\ AsMove(r)
        BY <2>1, ReplyMoves, AsMoves
    <2>4. QED
        BY <1>4, <2>1, <2>2, <2>3
<1>7. CASE InsertUser(r)
    <2>1. pc[r] # "unsent" /\ UNCHANGED <<sess, jar, seen>> /\ Quiet
        BY <1>7 DEF InsertUser
    <2>2. users' = users \/ users' = users \union {r}
        BY <1>7 DEF InsertUser
    <2>3. UsersOK' /\ SessOK' /\ JarOK'
        BY <1>1, <2>1, <2>2
    <2>4. as' = as \/ as' = [as EXCEPT ![r] = r]
        BY <1>7 DEF InsertUser
    <2>5. AsMove(r)
        BY <1>2, <2>4, AsMoves
    <2>6. (To(r, "session") /\ UNCHANGED code) \/ Reply(r, 409) \/ Reply(r, 500)
        BY <1>7 DEF InsertUser
    <2>7. PcMove(r) /\ CodeMove(r)
        BY <2>6, StepMoves, ReplyMoves
    <2>8. QED
        BY <1>4, <2>1, <2>3, <2>5, <2>7
<1>8. CASE Lookup(r)
    <2>1. pc[r] # "unsent" /\ UNCHANGED <<users, sess, jar, seen>> /\ Quiet
        BY <1>8 DEF Lookup, db
    <2>2. UsersOK' /\ SessOK' /\ JarOK'
        BY <1>1, <2>1
    <2>3. (To(r, "session") /\ UNCHANGED code) \/ Reply(r, 401)
        BY <1>8 DEF Lookup
    <2>4. PcMove(r) /\ CodeMove(r)
        BY <2>3, StepMoves, ReplyMoves
    <2>5. as' = as \/ \E u \in users : as' = [as EXCEPT ![r] = u]
        BY <1>8 DEF Lookup
    <2>6. AsMove(r)
        BY <1>1, <1>2, <2>5, AsMoves, Zenon
    <2>7. QED
        BY <1>4, <2>1, <2>2, <2>4, <2>6
<1>9. CASE InsertSession(r)
    <2>1. pc[r] # "unsent" /\ UNCHANGED <<users, jar, as, seen>> /\ Quiet
        BY <1>9 DEF InsertSession
    <2>2. sess' = sess \/ sess' = [sess EXCEPT ![r] = "live"]
        BY <1>9 DEF InsertSession
    <2>3. UsersOK' /\ SessOK' /\ JarOK'
        BY <1>1, <2>1, <2>2
    <2>4. Reply(r, 200) \/ Reply(r, 201) \/ Reply(r, 500)
        BY <1>9 DEF InsertSession
    <2>5. PcMove(r) /\ CodeMove(r) /\ AsMove(r)
        BY <2>1, <2>4, ReplyMoves, AsMoves
    <2>6. QED
        BY <1>4, <2>1, <2>3, <2>5
<1>10. CASE Delete(r)
    <2>1. pc[r] # "unsent" /\ UNCHANGED <<users, jar, as, seen>> /\ Quiet
        BY <1>10 DEF Delete
    <2>2. sess' = sess \/ sess' = [sess EXCEPT ![sent[r].cookie] = "gone"]
        BY <1>10 DEF Delete
    <2>3. UsersOK' /\ SessOK' /\ JarOK'
        BY <1>1, <2>1, <2>2
    <2>4. Reply(r, 200) \/ Reply(r, 500)
        BY <1>10 DEF Delete
    <2>5. PcMove(r) /\ CodeMove(r) /\ AsMove(r)
        BY <2>1, <2>4, ReplyMoves, AsMoves
    <2>6. QED
        BY <1>4, <2>1, <2>3, <2>5
<1>11. CASE Answer(r)
    <2>1. pc[r] # "unsent" /\ UNCHANGED <<users, sess, as, code, seen, trouble>>
          /\ To(r, "over")
        BY <1>11 DEF Answer, db
    <2>2. SetCookie(r) \in Cookies \/ sent[r].by \notin Browsers
        BY <1>1, <1>2 DEF SetCookie
    <2>3. sent[r].by \in Browsers
        BY <1>3, <2>1 DEF Sent
    <2>4. jar' = jar \/ jar' = [jar EXCEPT ![sent[r].by] = SetCookie(r)]
        BY <1>11 DEF Answer
    <2>5. UsersOK' /\ SessOK' /\ JarOK'
        BY <1>1, <2>1, <2>2, <2>3, <2>4
    <2>6. PcMove(r) /\ CodeMove(r) /\ AsMove(r)
        BY <2>1, StepMoves, AsMoves
    <2>7. QED
        BY <1>4, <2>1, <2>5, <2>6
<1>12. CASE Expire(r)
    <2>1. sess' = [sess EXCEPT ![r] = "expired"]
          /\ UNCHANGED <<users, jar, pc, as, code, seen, trouble>>
        BY <1>12 DEF Expire, request
    <2>2. UsersOK' /\ SessOK' /\ JarOK'
        BY <1>1, <2>1
    <2>3. RequestOK' /\ \A q \in Requests : Same(q)
        BY <1>1, <2>1 DEF RequestOK, Same
    <2>4. QED
        BY <2>1, <2>2, <2>3, TypesFrom
<1>13. QED
    BY <1>5, <1>6, <1>7, <1>8, <1>9, <1>10, <1>11, <1>12 DEF Serve

LEMMA TypeStep == TypeOK /\ Asked /\ [Next]_vars => TypeOK' /\ Asked'
<1> SUFFICES ASSUME TypeOK, Asked, [Next]_vars PROVE TypeOK' /\ Asked'
    OBVIOUS
<1>1. ASSUME NEW r \in Requests, NEW what \in Sent, NEW step \in Steps \ {"unsent"},
             Send(r, what, step)
      PROVE  TypeOK' /\ Asked'
    <2>1. Ended \in SUBSET Cookies
        BY DEF Ended, TypeOK, Asked, Sent
    <2>2. QED
        BY <1>1, <2>1, NobodyAssumption DEF TypeOK, Send, To, db, trouble, Asked
<1>2. ASSUME NEW r \in Requests, NEW b \in Browsers, SignIn(r, b) \/ Ask(r, b)
      PROVE  TypeOK' /\ Asked'
    <2>1. \A kind \in Kinds, form \in Forms \union {Nobody}, cookie \in Cookies :
              [by |-> b, kind |-> kind, form |-> form, cookie |-> cookie] \in Sent
        BY DEF Sent
    <2>2. jar[b] \in Cookies /\ Nobody \in Cookies
        BY DEF TypeOK, Cookies
    <2>3. QED
        BY <1>1, <1>2, <2>1, <2>2 DEF SignIn, Ask, SignIns, Kinds, Steps
<1>3. ASSUME NEW b \in Browsers, Forget(b)
      PROVE  TypeOK' /\ Asked'
    BY <1>3 DEF Forget, TypeOK, Asked, Cookies, db, request, seen, trouble
<1>4. CASE UNCHANGED vars
    BY <1>4 DEF vars, TypeOK, Asked, db, request, seen, trouble
<1>5. QED
    BY <1>2, <1>3, <1>4, ServeTypes DEF Next

LEMMA TypeInit == Init => TypeOK /\ Asked
BY FaultsAssumption DEF Init, TypeOK, Asked, Steps, Codes, Cookies

(* Every state has its type.                                               *)
THEOREM Typing == Spec => []TypeOK
BY TypeInit, TypeStep, PTL DEF Spec

-----------------------------------------------------------------------------
(* What a step never takes back: accounts, requests sent, rows written,    *)
(* and the end of a session.                                               *)
Grow ==
    /\ users \subseteq users'
    /\ \A q \in Requests :
        /\ sent[q] # Nobody => sent'[q] = sent[q]
        /\ sess[q] # "none" => sess'[q] # "none" /\ as'[q] = as[q]
        /\ sess[q] \in {"expired", "gone"} => sess'[q] \in {"expired", "gone"}
        /\ sess[q] = "gone" => sess'[q] = "gone"

Untouched(q) ==
    /\ pc'[q] = pc[q] /\ sent'[q] = sent[q] /\ as'[q] = as[q] /\ code'[q] = code[q]
    /\ faulty'[q] = faulty[q] /\ before'[q] = before[q]
    /\ sess'[q] = "none" <=> sess[q] = "none"
    /\ q \in users' <=> q \in users

UsersSent == users \subseteq Requests /\ \A u \in users : sent[u] # Nobody

LEMMA ProvenStays ==
    ASSUME Grow, UsersSent, NEW q \in Requests, sent[q] # Nobody, as'[q] = as[q], Proven(q)
    PROVE  Proven(q)'
BY DEF Grow, UsersSent, Proven, Form

LEMMA GoodStays ==
    ASSUME Grow, UsersSent, NEW s, NEW b, Good(s, b)
    PROVE  Good(s, b)'
<1>1. s \in Requests /\ sent'[s] = sent[s] /\ sess'[s] # "none" /\ as'[s] = as[s]
    BY DEF Grow, Good
<1>2. Proven(s)'
    BY <1>1, ProvenStays DEF Good
<1>3. QED
    BY <1>1, <1>2 DEF Good

LEMMA RefusedStays ==
    ASSUME Grow, UsersSent, NEW q \in Requests,
           sent'[q] = sent[q], code'[q] = code[q], faulty'[q] = faulty[q],
           before'[q] = before[q], Cookie(q), Earlier(q), Refused(q)
    PROVE  Refused(q)'
<1>1. SUFFICES ASSUME sent[q] # Nobody, ~ faulty[q] PROVE Refused(q)'
    BY DEF Refused
<1>2. \A u \in users : sent'[u] = sent[u] /\ u \in users'
    BY DEF Grow, UsersSent
<1>3. code[q] = 409 => \E u \in users' \ {q} : Clash(q, u)'
    BY <1>1, <1>2 DEF Refused, Clash, Form
<1>4. code[q] = 401 /\ sent[q].kind = "login" =>
          \A u \in before[q].users :
              Form(u)'.mail # Form(q)'.mail \/ Form(u)'.word # Form(q)'.word
    BY <1>1, <1>2 DEF Refused, Earlier, Form
<1>5. code[q] = 401 /\ sent[q].kind # "login" =>
          sent[q].cookie = Nobody \/ sess'[sent[q].cookie] \in {"expired", "gone"}
    BY <1>1 DEF Refused, Cookie, Good, Grow
<1>6. QED
    BY <1>1, <1>3, <1>4, <1>5 DEF Refused

LEMMA ReqStays ==
    ASSUME Grow, UsersSent, NEW q \in Requests, Untouched(q), Req(q)
    PROVE  Req(q)'
<1> USE DEF Req, Untouched
<1>1. sent[q] # Nobody /\ Proven(q) => Proven(q)'
    BY ProvenStays
<1>2. Stage(q)'
    BY <1>1 DEF Stage
<1>3. Rows(q)' /\ Granted(q)'
    BY <1>1 DEF Rows, Granted
<1>4. Cookie(q)'
    BY GoodStays DEF Cookie
<1>5. sent[q] # Nobody /\ sent[q].cookie # Nobody =>
          /\ sent[q].cookie \in Requests /\ sess[sent[q].cookie] # "none"
    BY DEF Cookie, Good
<1>6. Acts(q)' /\ LoggedOut(q)'
    <2>1. Acts(q)'
        BY <1>5 DEF Acts, Grow
    <2>2. sent[q] # Nobody /\ sent[q].cookie # Nobody =>
              (sess[sent[q].cookie] = "gone" => sess'[sent[q].cookie] = "gone")
        BY <1>5 DEF Grow
    <2>3. sent'[q] = sent[q] /\ code'[q] = code[q]
        OBVIOUS
    <2>4. LoggedOut(q)'
        BY <2>2, <2>3 DEF LoggedOut
    <2>5. QED
        BY <2>1, <2>4
<1>7. Earlier(q)' /\ LateActs(q)'
    BY DEF Earlier, LateActs, Grow
<1>8. Refused(q)'
    BY RefusedStays
<1>9. QED
    BY <1>2, <1>3, <1>4, <1>6, <1>7, <1>8

LEMMA At ==
    ASSUME NEW D, NEW R, NEW f \in [D -> R], NEW d \in D, NEW v, NEW g,
           g = [f EXCEPT ![d] = v]
    PROVE  g[d] = v /\ \A q \in D \ {d} : g[q] = f[q]
OBVIOUS

(* The functions a step changes at one request.                            *)
Maps ==
    /\ pc \in [Requests -> Steps] /\ as \in [Requests -> Cookies]
    /\ code \in [Requests -> Codes] /\ faulty \in [Requests -> BOOLEAN]
    /\ sess \in [Requests -> {"none", "live", "expired", "gone"}]

LEMMA MapsTyped == Inv => Maps
BY DEF Inv, TypeOK, Maps

(* A step of r leaves the other requests alone.                            *)
LEMMA Elsewhere ==
    ASSUME Maps, NEW r \in Requests, PcMove(r), CodeMove(r), AsMove(r),
           Fault(r) \/ UNCHANGED trouble, NEW q \in Requests \ {r}
    PROVE  /\ pc'[q] = pc[q] /\ as'[q] = as[q] /\ code'[q] = code[q]
           /\ faulty'[q] = faulty[q]
<1>1. pc'[q] = pc[q]
    BY DEF Maps, PcMove
<1>2. as'[q] = as[q]
    BY DEF Maps, AsMove
<1>3. code'[q] = code[q]
    BY DEF Maps, CodeMove
<1>4. faulty'[q] = faulty[q]
    BY DEF Maps, Fault, trouble
<1>5. QED
    BY <1>1, <1>2, <1>3, <1>4

LEMMA UsersAreSent == ASSUME TypeOK, \A q \in Requests : Req(q) PROVE UsersSent
BY DEF TypeOK, UsersSent, Req, Rows

(* A step of r that keeps Grow, and the invariant of r and of the jars.    *)
LEMMA StepKeeps ==
    ASSUME Inv, TypeOK', Grow, NEW r \in Requests, Req(r)', Jars',
           \A q \in Requests \ {r} : Untouched(q)
    PROVE  Inv'
<1>1. UsersSent
    BY UsersAreSent DEF Inv
<1>2. \A q \in Requests \ {r} : Req(q)'
    BY <1>1, ReqStays DEF Inv
<1>3. QED
    BY <1>2 DEF Inv

LEMMA JarsStay == ASSUME Inv, Grow, UNCHANGED jar PROVE Jars'
BY UsersAreSent, GoodStays DEF Inv, Jars

LEMMA SendStep ==
    ASSUME Inv, TypeOK', NEW r \in Requests, NEW b \in Browsers,
           NEW what \in Sent, NEW step \in {"user", "lookup", "auth"}, Send(r, what, step),
           what.by = b,
           step = "user" => what.kind = "register",
           step = "lookup" => what.kind = "login",
           step = "auth" => what.kind \notin SignIns,
           what.cookie # Nobody => what.kind \notin SignIns /\ what.cookie = jar[b]
    PROVE  Inv'
<1>1. /\ pc[r] = "unsent" /\ pc'[r] = step /\ sent'[r] = what /\ sent[r] = Nobody
      /\ before'[r] = [users |-> users, ended |-> Ended]
      /\ UNCHANGED <<users, sess, jar, as, code, faults, faulty>>
      /\ \A q \in Requests \ {r} : pc'[q] = pc[q] /\ sent'[q] = sent[q] /\ before'[q] = before[q]
    <2>1. pc[r] = "unsent" /\ sent[r] = Nobody
        BY DEF Send, Inv, Req, Stage
    <2>2. /\ pc \in [Requests -> Steps]
          /\ DOMAIN sent = Requests /\ sent = [q \in Requests |-> sent[q]]
          /\ DOMAIN before = Requests /\ before = [q \in Requests |-> before[q]]
        BY DEF Inv, TypeOK
    <2>3. QED
        BY <2>1, <2>2 DEF Send, To, db, trouble
<1>2. Grow
    BY <1>1 DEF Grow
<1>3. /\ sess[r] = "none" /\ r \notin users /\ code[r] = 0 /\ as[r] = Nobody
      /\ \A q \in Requests : Req(q)
    BY <1>1 DEF Inv, Req, Rows, Stage
<1>4. what # Nobody
    BY NobodyAssumption
<1>5. Stage(r)' /\ Rows(r)' /\ Granted(r)' /\ Acts(r)' /\ LoggedOut(r)' /\ LateActs(r)' /\ Refused(r)'
    BY <1>1, <1>3, <1>4 DEF Stage, Rows, Granted, Acts, LoggedOut, LateActs, Refused
<1>6. Cookie(r)'
    <2>1. what.cookie # Nobody => Good(what.cookie, b)
        BY DEF Inv, Jars
    <2>2. what.cookie # Nobody => Good(what.cookie, b)'
        BY <1>2, <2>1, GoodStays, UsersAreSent DEF Inv
    <2>3. QED
        BY <1>1, <2>2 DEF Cookie
<1>7. Earlier(r)'
    <2>1. ASSUME NEW c \in Ended PROVE c \in Requests /\ sess[c] = "gone"
        <3>1. PICK l \in Requests : pc[l] = "over" /\ code[l] = 200
                                     /\ sent[l].kind = "logout" /\ c = sent[l].cookie
            BY <2>1 DEF Ended
        <3>2. sent[l] # Nobody
            BY <1>3, <3>1 DEF Req, Stage
        <3>3. QED
            BY <1>3, <3>1, <3>2 DEF Req, LoggedOut, Cookie, Good
    <2>2. QED
        BY <1>1, <2>1 DEF Earlier
<1>8. Req(r)'
    BY <1>5, <1>6, <1>7 DEF Req
<1>9. QED
    BY <1>1, <1>2, <1>8, JarsStay, StepKeeps DEF Untouched

LEMMA AuthStep ==
    ASSUME Inv, TypeOK', NEW r \in Requests, Auth(r)
    PROVE  Inv'
<1>1. /\ pc[r] = "auth" /\ UNCHANGED <<users, sess, jar, sent, before>>
      /\ sent[r] # Nobody /\ sent[r].kind \notin SignIns
      /\ Req(r) /\ as[r] = Nobody /\ code[r] = 0 /\ sess[r] = "none" /\ r \notin users
    BY DEF Auth, db, seen, Inv, Req, Stage, SignIns, Rows
<1>2. sent[r].kind \in {"logout", "act", "browse"}
    BY <1>1 DEF Inv, TypeOK, Sent, Kinds
<1>3. \A q \in Requests \ {r} : pc'[q] = pc[q] /\ as'[q] = as[q] /\ code'[q] = code[q]
                                  /\ faulty'[q] = faulty[q]
    <2>1. faulty' = faulty \/ faulty' = [faulty EXCEPT ![r] = TRUE]
        BY DEF Auth, Fault, trouble
    <2>2. Admit(r) \/ Refuse(r)
        BY DEF Auth
    <2>3. PICK step : pc' = [pc EXCEPT ![r] = step]
        BY <2>2 DEF Admit, Refuse, To, Reply
    <2>4. code' = code \/ code' = [code EXCEPT ![r] = 401]
        BY <2>2 DEF Admit, Refuse, Reply
    <2>5. PICK account : as' = as \/ as' = [as EXCEPT ![r] = account]
        BY <2>2 DEF Admit, Refuse
    <2>6. TAKE q \in Requests \ {r}
    <2>7. pc'[q] = pc[q] /\ as'[q] = as[q]
        BY <2>3, <2>5, MapsTyped DEF Maps
    <2>8. code'[q] = code[q] /\ faulty'[q] = faulty[q]
        BY <2>1, <2>4, MapsTyped DEF Maps
    <2>9. QED
        BY <2>7, <2>8
<1>4. Grow
    BY <1>1, <1>3 DEF Grow
<1>5. CASE Live(sent[r].cookie) /\ Admit(r)
    <2>1. /\ as'[r] = as[sent[r].cookie] /\ code' = code
          /\ pc'[r] = IF sent[r].kind = "logout" THEN "delete" ELSE "work"
        <3>1. /\ pc \in [Requests -> Steps] /\ as \in [Requests -> Cookies]
            BY MapsTyped DEF Maps
        <3>2. QED
            BY <1>5, <3>1 DEF Admit, To
    <2>2. /\ sent[r].cookie \in Requests /\ sent[r].cookie # Nobody
          /\ sess[sent[r].cookie] = "live" /\ sent[r].cookie # r
        BY <1>1, <1>5 DEF Live, Req, Cookie, Good
    <2>3. as'[sent[r].cookie] = as[sent[r].cookie]
        BY <1>3, <2>2
    <2>4. Stage(r)'
        BY <1>1, <1>2, <2>1, <2>2 DEF Stage
    <2>5. Rows(r)' /\ Granted(r)' /\ LoggedOut(r)' /\ Refused(r)'
        BY <1>1, <2>1 DEF Rows, Granted, LoggedOut, Refused
    <2>6. Acts(r)' /\ Earlier(r)' /\ LateActs(r)'
        BY <1>1, <2>1, <2>2, <2>3 DEF Acts, Req, Earlier, LateActs
    <2>7. Cookie(r)'
        BY <1>1, <1>4, GoodStays, UsersAreSent DEF Req, Cookie, Inv
    <2>8. Req(r)'
        BY <2>4, <2>5, <2>6, <2>7 DEF Req
    <2>9. QED
        BY <1>1, <1>3, <1>4, <2>8, JarsStay, StepKeeps DEF Untouched
<1>6. CASE Refuse(r)
    <2>1. /\ as' = as
          /\ \/ pc'[r] = "work" /\ code'[r] = 0 /\ sent[r].kind = "browse"
             \/ pc'[r] = "answer" /\ code'[r] = 401
        <3>1. pc \in [Requests -> Steps] /\ code \in [Requests -> Codes]
            BY MapsTyped DEF Maps
        <3>2. CASE sent[r].kind = "browse"
            BY <1>1, <1>6, <3>1, <3>2 DEF Refuse, To
        <3>3. CASE sent[r].kind # "browse"
            BY <1>1, <1>6, <3>1, <3>3 DEF Refuse, To, Reply
        <3>4. QED
            BY <3>2, <3>3
    <2>2. CASE ~ faulty'[r] /\ Live(sent[r].cookie)
        <3>1. Admit(r)
            BY <2>2, MapsTyped DEF Auth, Fault, Maps
        <3>2. QED
            BY <1>5, <2>2, <3>1
    <2> SUFFICES ASSUME faulty'[r] \/ ~ Live(sent[r].cookie) PROVE Inv'
        BY <2>2
    <2>3. Stage(r)'
        BY <1>1, <2>1 DEF Stage
    <2>4. Rows(r)' /\ Granted(r)' /\ LoggedOut(r)'
        BY <1>1, <2>1 DEF Rows, Granted, LoggedOut
    <2>5. Acts(r)' /\ Earlier(r)' /\ LateActs(r)'
        <3>1. Acts(r)' /\ LateActs(r)'
            BY <1>1, <2>1 DEF Acts, LateActs, Req
        <3>2. Earlier(r)'
            BY <1>1 DEF Earlier, Req
        <3>3. QED
            BY <3>1, <3>2
    <2>6. Cookie(r)'
        BY <1>1, <1>4, GoodStays, UsersAreSent DEF Req, Cookie, Inv
    <2>7. Refused(r)'
        <3>1. ASSUME ~ faulty'[r], sent[r].cookie # Nobody
              PROVE  sess[sent[r].cookie] \in {"expired", "gone"}
            <4>1. sent[r].cookie \in Requests /\ sess[sent[r].cookie] # "none"
                BY <1>1, <3>1 DEF Req, Cookie, Good
            <4>2. sess[sent[r].cookie] # "live"
                BY <3>1 DEF Live
            <4>3. QED
                BY <4>1, <4>2 DEF Inv, TypeOK
        <3>2. QED
            BY <1>1, <2>1, <3>1 DEF Refused, SignIns
    <2>8. Req(r)'
        BY <2>3, <2>4, <2>5, <2>6, <2>7 DEF Req
    <2>9. QED
        BY <1>1, <1>3, <1>4, <2>8, JarsStay, StepKeeps DEF Untouched
<1>7. QED
    BY <1>5, <1>6 DEF Auth

LEMMA WorkStep ==
    ASSUME Inv, TypeOK', NEW r \in Requests, Work(r)
    PROVE  Inv'
<1>1. /\ pc[r] = "work" /\ pc'[r] = "answer" /\ code'[r] = 200
      /\ UNCHANGED <<users, sess, jar, as, sent, before, faulty>>
      /\ \A q \in Requests \ {r} : pc'[q] = pc[q] /\ code'[q] = code[q]
      /\ Req(r) /\ sess[r] = "none" /\ r \notin users /\ sent[r] # Nobody
      /\ sent[r].kind \in {"act", "browse"}
    BY MapsTyped DEF Work, To, Reply, db, seen, trouble, Maps, Inv, Req, Stage, Rows, SignIns
<1>2. Grow
    BY <1>1 DEF Grow
<1>3. Stage(r)' /\ Rows(r)' /\ Granted(r)' /\ LoggedOut(r)' /\ Refused(r)'
    BY <1>1 DEF Stage, Rows, Granted, LoggedOut, Refused, SignIns
<1>4. Acts(r)' /\ Earlier(r)' /\ LateActs(r)'
    BY <1>1 DEF Req, Acts, Earlier, LateActs
<1>5. Cookie(r)'
    BY <1>1, <1>2, GoodStays, UsersAreSent DEF Req, Cookie, Inv
<1>6. Req(r)'
    BY <1>3, <1>4, <1>5 DEF Req
<1>7. QED
    BY <1>1, <1>2, <1>6, JarsStay, StepKeeps DEF Untouched

(* The three outcomes of the INSERT of an account.                         *)
TakenReply(r) ==
    /\ Taken(r)
    /\ Reply(r, 409)
    /\ UNCHANGED <<users, as, trouble>>

Added(r) ==
    /\ ~ Taken(r)
    /\ users' = users \union {r}
    /\ as' = [as EXCEPT ![r] = r]
    /\ To(r, "session")
    /\ UNCHANGED <<code, trouble>>

FaultReply(r) ==
    /\ Fault(r)
    /\ Reply(r, 500)
    /\ UNCHANGED users \/ (~ Taken(r) /\ users' = users \union {r})
    /\ UNCHANGED as

LEMMA Outcomes ==
    ASSUME NEW r \in Requests, InsertUser(r)
    PROVE  TakenReply(r) \/ Added(r) \/ FaultReply(r)
BY DEF InsertUser, TakenReply, Added, FaultReply

LEMMA InsertUserStep ==
    ASSUME Inv, TypeOK', NEW r \in Requests, InsertUser(r)
    PROVE  Inv'
<1>1. /\ pc[r] = "user" /\ UNCHANGED <<sess, jar, sent, before>>
      /\ sent[r] # Nobody /\ sent[r].kind = "register" /\ sent[r].cookie = Nobody
      /\ Req(r) /\ code[r] = 0 /\ sess[r] = "none" /\ r \notin users
    BY DEF InsertUser, seen, Inv, Req, Stage, Rows, Cookie, SignIns
<1>2. TakenReply(r) \/ Added(r) \/ FaultReply(r)
    BY Outcomes
<1>3. users' = users \/ users' = users \union {r}
    BY <1>2 DEF TakenReply, Added, FaultReply
<1>4. ASSUME NEW q \in Requests \ {r}
      PROVE  /\ pc'[q] = pc[q] /\ as'[q] = as[q] /\ code'[q] = code[q]
             /\ faulty'[q] = faulty[q] /\ (q \in users' <=> q \in users)
    <2>1. PcMove(r) /\ CodeMove(r)
        <3>1. (To(r, "session") /\ UNCHANGED code) \/ Reply(r, 409) \/ Reply(r, 500)
            BY <1>2 DEF TakenReply, Added, FaultReply
        <3>2. QED
            BY <3>1, StepMoves, ReplyMoves
    <2>2. as' = as \/ as' = [as EXCEPT ![r] = r]
        BY <1>2 DEF TakenReply, Added, FaultReply
    <2>3. AsMove(r)
        BY <2>2 DEF AsMove, Cookies
    <2>4. Fault(r) \/ UNCHANGED trouble
        BY <1>2 DEF TakenReply, Added, FaultReply
    <2>5. q \in users' <=> q \in users
        BY <1>3
    <2>6. QED
        BY <2>1, <2>3, <2>4, <2>5, Elsewhere, MapsTyped
<1>5. Grow
    BY <1>1, <1>3, <1>4 DEF Grow
<1>6. Earlier(r)'
    BY <1>1, <1>5 DEF Req, Earlier, Grow
<1>7. Req(r)' => Inv'
    BY <1>1, <1>4, <1>5, JarsStay, StepKeeps DEF Untouched
<1>8. ASSUME NEW status \in {409, 500}, Reply(r, status), UNCHANGED as,
             status = 409 => Taken(r)
      PROVE  Inv'
    <2>1. pc'[r] = "answer" /\ code'[r] = status
        BY <1>8, MapsTyped DEF Reply, To, Maps
    <2>2. code'[r] \notin {200, 201, 401}
        BY <2>1
    <2>3. Stage(r)' /\ Rows(r)'
        BY <1>1, <1>8, <2>1 DEF Stage, Rows
    <2>4. Granted(r)' /\ LoggedOut(r)'
        BY <2>2 DEF Granted, LoggedOut
    <2>5. Acts(r)' /\ LateActs(r)' /\ Cookie(r)'
        BY <1>1 DEF Acts, LateActs, Cookie, SignIns
    <2>6. code'[r] = 409 => \E u \in users' \ {r} : Clash(r, u)'
        BY <1>1, <1>3, <1>8, <2>1 DEF Taken, Clash, Form
    <2>7. Refused(r)'
        BY <2>2, <2>6 DEF Refused
    <2>8. QED
        BY <1>6, <1>7, <2>3, <2>4, <2>5, <2>7 DEF Req
<1>9. CASE Added(r)
    <2>1. /\ pc'[r] = "session" /\ code'[r] = 0 /\ as'[r] = r /\ r \in users'
        BY <1>1, <1>9, MapsTyped DEF Added, To, Maps
    <2>2. Proven(r)'
        BY <2>1 DEF Proven
    <2>3. Stage(r)' /\ Rows(r)'
        BY <1>1, <2>1, <2>2 DEF Stage, Rows, SignIns
    <2>4. Granted(r)' /\ LoggedOut(r)' /\ Refused(r)'
        BY <2>1 DEF Granted, LoggedOut, Refused
    <2>5. Acts(r)' /\ LateActs(r)' /\ Cookie(r)'
        BY <1>1 DEF Acts, LateActs, Cookie, SignIns
    <2>6. QED
        BY <1>6, <1>7, <2>3, <2>4, <2>5 DEF Req
<1>10. CASE TakenReply(r)
    BY <1>8, <1>10 DEF TakenReply
<1>11. CASE FaultReply(r)
    BY <1>8, <1>11 DEF FaultReply
<1>12. QED
    BY <1>2, <1>9, <1>10, <1>11

LEMMA LookupStep ==
    ASSUME Inv, TypeOK', NEW r \in Requests, Lookup(r)
    PROVE  Inv'
<1>1. /\ pc[r] = "lookup" /\ UNCHANGED <<users, sess, jar, sent, before>>
      /\ sent[r] # Nobody /\ sent[r].kind = "login" /\ sent[r].cookie = Nobody
      /\ Req(r) /\ code[r] = 0 /\ sess[r] = "none" /\ r \notin users
    BY DEF Lookup, db, seen, Inv, Req, Stage, Rows, Cookie, SignIns
<1>2. Fault(r) \/ UNCHANGED trouble
    BY DEF Lookup
<1>3. \/ /\ \E u \in users : Owns(r, u) /\ as' = [as EXCEPT ![r] = u]
         /\ pc' = [pc EXCEPT ![r] = "session"] /\ code' = code
      \/ /\ as' = as /\ pc' = [pc EXCEPT ![r] = "answer"]
         /\ code' = [code EXCEPT ![r] = 401]
         /\ (\A u \in users : ~ Owns(r, u)) \/ faulty' = [faulty EXCEPT ![r] = TRUE]
    BY DEF Lookup, To, Reply, Fault
<1>4. ASSUME NEW q \in Requests \ {r}
      PROVE  /\ pc'[q] = pc[q] /\ as'[q] = as[q] /\ code'[q] = code[q]
             /\ faulty'[q] = faulty[q]
    <2>1. PcMove(r) /\ CodeMove(r)
        <3>1. (To(r, "session") /\ UNCHANGED code) \/ Reply(r, 401)
            BY DEF Lookup
        <3>2. QED
            BY <3>1, StepMoves, ReplyMoves
    <2>2. AsMove(r)
        BY <1>3, MapsTyped DEF AsMove, Cookies, Inv, TypeOK
    <2>3. QED
        BY <1>2, <2>1, <2>2, Elsewhere, MapsTyped
<1>5. Grow
    BY <1>1, <1>4 DEF Grow
<1>6. \/ /\ \E u \in users : Owns(r, u) /\ as'[r] = u
         /\ pc'[r] = "session" /\ code'[r] = 0
      \/ /\ as'[r] = as[r] /\ pc'[r] = "answer" /\ code'[r] = 401
         /\ (\A u \in users : ~ Owns(r, u)) \/ faulty'[r]
    <2>1. /\ pc \in [Requests -> Steps] /\ as \in [Requests -> Cookies]
          /\ code \in [Requests -> Codes] /\ faulty \in [Requests -> BOOLEAN]
        BY MapsTyped DEF Maps
    <2>2. CASE /\ \E u \in users : Owns(r, u) /\ as' = [as EXCEPT ![r] = u]
               /\ pc' = [pc EXCEPT ![r] = "session"] /\ code' = code
        <3>1. PICK u \in users : Owns(r, u) /\ as' = [as EXCEPT ![r] = u]
            BY <2>2
        <3>2. as'[r] = u
            BY <2>1, <3>1
        <3>3. pc'[r] = "session" /\ code'[r] = 0
            BY <1>1, <2>1, <2>2
        <3>4. QED
            BY <3>1, <3>2, <3>3
    <2>3. CASE /\ as' = as /\ pc' = [pc EXCEPT ![r] = "answer"]
               /\ code' = [code EXCEPT ![r] = 401]
               /\ (\A u \in users : ~ Owns(r, u)) \/ faulty' = [faulty EXCEPT ![r] = TRUE]
        <3>1. pc'[r] = "answer" /\ code'[r] = 401 /\ as'[r] = as[r]
            BY <2>1, <2>3
        <3>2. (\A u \in users : ~ Owns(r, u)) \/ faulty'[r]
            BY <2>1, <2>3
        <3>3. QED
            BY <3>1, <3>2
    <2>4. QED
        BY <1>3, <2>2, <2>3
<1>7. Stage(r)' /\ Rows(r)'
    BY <1>1, <1>6 DEF Stage, Rows, Proven, Owns, Form, SignIns
<1>8. Granted(r)' /\ Acts(r)' /\ LoggedOut(r)' /\ LateActs(r)' /\ Cookie(r)'
    <2>1. code'[r] \notin {200, 201} /\ sent'[r] = sent[r]
        <3>1. code'[r] = 0 \/ code'[r] = 401
            BY <1>6, Zenon
        <3>2. QED
            BY <1>1, <3>1
    <2>2. Granted(r)' /\ LoggedOut(r)'
        BY <2>1 DEF Granted, LoggedOut
    <2>3. Acts(r)' /\ LateActs(r)' /\ Cookie(r)'
        BY <1>1, <2>1 DEF Acts, LateActs, Cookie, SignIns
    <2>4. QED
        BY <2>2, <2>3
<1>9. Earlier(r)'
    BY <1>1 DEF Req, Earlier
<1>10. Refused(r)'
    <2>1. code'[r] = 401 /\ ~ faulty'[r] => \A u \in users : ~ Owns(r, u)
        BY <1>1, <1>6
    <2>2. code'[r] # 409 /\ before[r].users \subseteq users
        <3>1. code'[r] = 0 \/ code'[r] = 401
            BY <1>6, Zenon
        <3>2. QED
            BY <1>1, <3>1 DEF Req, Earlier
    <2>3. code'[r] = 401 /\ ~ faulty'[r] =>
              \A u \in before[r].users : Form(u).mail # Form(r).mail \/ Form(u).word # Form(r).word
        BY <2>1, <2>2 DEF Owns
    <2>4. QED
        BY <1>1, <2>2, <2>3 DEF Refused, Form
<1>11. Req(r)'
    BY <1>7, <1>8, <1>9, <1>10 DEF Req
<1>12. QED
    BY <1>1, <1>4, <1>5, <1>11, JarsStay, StepKeeps DEF Untouched

LEMMA InsertSessionStep ==
    ASSUME Inv, TypeOK', NEW r \in Requests, InsertSession(r)
    PROVE  Inv'
<1>1. /\ pc[r] = "session" /\ UNCHANGED <<users, as, jar, sent, before>>
      /\ sent[r] # Nobody /\ sent[r].kind \in SignIns /\ sent[r].cookie = Nobody
      /\ Req(r) /\ Proven(r) /\ sess[r] = "none"
    BY DEF InsertSession, seen, Inv, Req, Stage, Rows, Cookie
<1>2. /\ faulty' = faulty \/ faulty' = [faulty EXCEPT ![r] = TRUE]
      /\ pc' = [pc EXCEPT ![r] = "answer"]
      /\ \/ /\ sess' = [sess EXCEPT ![r] = "live"]
            /\ code' = [code EXCEPT ![r] = 200] \/ code' = [code EXCEPT ![r] = 201]
         \/ /\ sess' = sess \/ sess' = [sess EXCEPT ![r] = "live"]
            /\ code' = [code EXCEPT ![r] = 500]
    BY DEF InsertSession, Fault, trouble, To, Reply
<1>3. ASSUME NEW q \in Requests \ {r}
      PROVE  /\ pc'[q] = pc[q] /\ sess'[q] = sess[q] /\ code'[q] = code[q]
             /\ faulty'[q] = faulty[q]
    <2>1. pc'[q] = pc[q] /\ sess'[q] = sess[q]
        BY <1>2, MapsTyped DEF Maps
    <2>2. code'[q] = code[q] /\ faulty'[q] = faulty[q]
        BY <1>2, MapsTyped DEF Maps
    <2>3. QED
        BY <2>1, <2>2
<1>4. /\ pc'[r] = "answer" /\ sess'[r] \in {"none", "live"}
      /\ code'[r] = 500 \/ (code'[r] \in {200, 201} /\ sess'[r] = "live")
    BY <1>1, <1>2, MapsTyped DEF Maps
<1>5. Grow
    BY <1>1, <1>3, <1>4 DEF Grow
<1>6. Proven(r)'
    BY <1>1 DEF Proven, Form
<1>7. Stage(r)' /\ Rows(r)'
    BY <1>1, <1>4, <1>6 DEF Req, Stage, Rows
<1>8. Granted(r)' /\ Acts(r)' /\ LoggedOut(r)' /\ LateActs(r)' /\ Cookie(r)' /\ Refused(r)'
    <2>1. sent'[r] = sent[r] /\ code'[r] \notin {401, 409} /\ sent[r].kind # "logout"
        BY <1>1, <1>4 DEF SignIns
    <2>2. Granted(r)'
        BY <1>4 DEF Granted
    <2>3. LoggedOut(r)' /\ Refused(r)'
        BY <2>1 DEF LoggedOut, Refused
    <2>4. Acts(r)' /\ LateActs(r)' /\ Cookie(r)'
        BY <1>1 DEF Acts, LateActs, Cookie
    <2>5. QED
        BY <2>2, <2>3, <2>4
<1>9. Earlier(r)'
    BY <1>1, <1>5 DEF Req, Earlier, Grow
<1>10. Req(r)'
    BY <1>7, <1>8, <1>9 DEF Req
<1>11. QED
    BY <1>1, <1>3, <1>5, <1>10, JarsStay, StepKeeps DEF Untouched

LEMMA DeleteStep ==
    ASSUME Inv, TypeOK', NEW r \in Requests, Delete(r)
    PROVE  Inv'
<1> DEFINE row == sent[r].cookie
<1>1. /\ pc[r] = "delete" /\ UNCHANGED <<users, as, jar, sent, before>>
      /\ sent[r] # Nobody /\ sent[r].kind = "logout" /\ row # Nobody
      /\ Req(r) /\ sess[r] = "none" /\ r \notin users
    BY DEF Delete, seen, Inv, Req, Stage, Rows, SignIns
<1>2. row \in Requests /\ sess[row] # "none" /\ row # r
    BY <1>1 DEF Req, Cookie, Good
<1> HIDE DEF row
<1>3. /\ faulty' = faulty \/ faulty' = [faulty EXCEPT ![r] = TRUE]
      /\ pc' = [pc EXCEPT ![r] = "answer"]
      /\ \/ /\ sess' = [sess EXCEPT ![row] = "gone"]
            /\ code' = [code EXCEPT ![r] = 200]
         \/ /\ sess' = sess \/ sess' = [sess EXCEPT ![row] = "gone"]
            /\ code' = [code EXCEPT ![r] = 500]
    BY DEF Delete, Fault, trouble, To, Reply, row
<1>4. \A q \in Requests \ {r} : pc'[q] = pc[q] /\ code'[q] = code[q] /\ faulty'[q] = faulty[q]
    BY <1>3, MapsTyped DEF Maps
<1>5. \A q \in Requests : sess'[q] = sess[q] \/ (q = row /\ sess'[q] = "gone")
    BY <1>3, MapsTyped DEF Maps
<1>6. /\ pc'[r] = "answer"
      /\ code'[r] = 500 \/ (code'[r] = 200 /\ sess'[row] = "gone")
    BY <1>2, <1>3, MapsTyped DEF Maps
<1>7. Grow
    BY <1>1, <1>2, <1>5 DEF Grow
<1>8. Stage(r)' /\ Rows(r)' /\ Granted(r)' /\ LoggedOut(r)' /\ Refused(r)'
    BY <1>1, <1>2, <1>5, <1>6 DEF Stage, Rows, Granted, LoggedOut, Refused, SignIns, row
<1>9. Acts(r)' /\ LateActs(r)'
    BY <1>1 DEF Req, Acts, LateActs
<1>10. Earlier(r)'
    BY <1>1, <1>7 DEF Req, Earlier, Grow
<1>11. Cookie(r)'
    BY <1>1, <1>7, GoodStays, UsersAreSent DEF Req, Cookie, Inv
<1>12. Req(r)'
    BY <1>8, <1>9, <1>10, <1>11 DEF Req
<1>13. \A q \in Requests \ {r} : Untouched(q)
    BY <1>1, <1>2, <1>4, <1>5 DEF Untouched
<1>14. QED
    BY <1>1, <1>7, <1>12, <1>13, JarsStay, StepKeeps

LEMMA AnswerStep ==
    ASSUME Inv, TypeOK', NEW r \in Requests, Answer(r)
    PROVE  Inv'
<1>1. /\ pc[r] = "answer" /\ UNCHANGED <<users, sess, as, code, sent, before, faulty>>
      /\ jar' = jar \/ jar' = [jar EXCEPT ![sent[r].by] = SetCookie(r)]
    BY DEF Answer, db, seen, trouble
<1>2. pc'[r] = "over" /\ \A q \in Requests \ {r} : pc'[q] = pc[q]
    BY MapsTyped DEF Answer, To, Maps
<1>3. Grow
    BY <1>1 DEF Grow
<1>4. Req(r) /\ sent[r] # Nobody
    BY <1>1 DEF Inv, Req, Stage
<1>5. Proven(r)' <=> Proven(r)
    BY <1>1 DEF Proven, Form
<1>6. Stage(r)' /\ Rows(r)' /\ Granted(r)' /\ Acts(r)' /\ LoggedOut(r)'
    <2>1. Stage(r)'
        BY <1>1, <1>2, <1>4, <1>5 DEF Req, Stage
    <2>2. Rows(r)'
        BY <1>1, <1>2, <1>4, <1>5 DEF Req, Rows
    <2>3. Granted(r)' /\ Acts(r)' /\ LoggedOut(r)'
        BY <1>1, <1>4 DEF Req, Granted, Acts, LoggedOut
    <2>4. QED
        BY <2>1, <2>2, <2>3
<1>7. Cookie(r)'
    BY <1>1, <1>3, <1>4, GoodStays, UsersAreSent DEF Req, Cookie, Inv
<1>8. Earlier(r)' /\ LateActs(r)' /\ Refused(r)'
    <2>1. Earlier(r)' /\ LateActs(r)'
        BY <1>1, <1>4 DEF Req, Earlier, LateActs
    <2>2. Refused(r)'
        BY <1>1, <1>3, <1>4, RefusedStays, UsersAreSent DEF Req, Inv
    <2>3. QED
        BY <2>1, <2>2
<1>9. Jars'
    <2>1. SUFFICES ASSUME NEW b \in Browsers, jar'[b] # Nobody PROVE Good(jar'[b], b)
        BY <1>3, GoodStays, UsersAreSent DEF Inv, Jars
    <2>2. jar[b] # Nobody => Good(jar[b], b)
        BY DEF Inv, Jars
    <2>3. jar'[b] = jar[b] \/ (b = sent[r].by /\ jar'[b] = SetCookie(r))
        BY <1>1 DEF Inv, TypeOK
    <2>4. ASSUME sent[r].kind \in SignIns, code[r] \in {200, 201}
          PROVE  Good(r, sent[r].by)
        BY <1>4, <2>4 DEF Req, Granted, Rows, Good
    <2>5. QED
        BY <2>1, <2>2, <2>3, <2>4 DEF SetCookie
<1>10. Req(r)'
    BY <1>6, <1>7, <1>8 DEF Req
<1>11. QED
    BY <1>1, <1>2, <1>3, <1>9, <1>10, StepKeeps DEF Untouched

(* Steps that touch no request.                                            *)
LEMMA AllStay ==
    ASSUME Inv, TypeOK', Grow, Jars', \A q \in Requests : Untouched(q)
    PROVE  Inv'
BY UsersAreSent, ReqStays DEF Inv

LEMMA ExpireStep ==
    ASSUME Inv, TypeOK', NEW r \in Requests, Expire(r)
    PROVE  Inv'
<1>1. /\ UNCHANGED <<users, jar, pc, as, code, sent, before, faulty>>
      /\ sess[r] = "live" /\ sess' = [sess EXCEPT ![r] = "expired"]
    BY DEF Expire, request, seen, trouble
<1>2. \A q \in Requests : sess'[q] = sess[q] \/ (sess[q] = "live" /\ sess'[q] = "expired")
    BY <1>1, MapsTyped DEF Maps
<1>3. Grow
    BY <1>1, <1>2 DEF Grow
<1>4. \A q \in Requests : Untouched(q)
    BY <1>1, <1>2 DEF Untouched
<1>5. QED
    BY <1>1, <1>3, <1>4, JarsStay, AllStay

LEMMA ForgetStep ==
    ASSUME Inv, TypeOK', NEW b \in Browsers, Forget(b)
    PROVE  Inv'
<1>1. /\ UNCHANGED <<users, sess, pc, as, code, sent, before, faulty>>
      /\ jar' = [jar EXCEPT ![b] = Nobody]
    BY DEF Forget, db, request, seen, trouble
<1>2. Grow
    BY <1>1 DEF Grow
<1>3. \A c \in Browsers : jar'[c] = Nobody \/ jar'[c] = jar[c]
    BY <1>1 DEF Inv, TypeOK
<1>4. Jars'
    BY <1>2, <1>3, GoodStays, UsersAreSent DEF Inv, Jars
<1>5. \A q \in Requests : Untouched(q)
    BY <1>1 DEF Untouched
<1>6. QED
    BY <1>2, <1>4, <1>5, AllStay

LEMMA InvInit == Init => Inv
<1> SUFFICES ASSUME Init PROVE Inv
    OBVIOUS
<1>1. TypeOK
    BY TypeInit
<1>2. Jars
    BY DEF Init, Jars
<1>3. ASSUME NEW r \in Requests PROVE Req(r)
    <2>1. /\ pc[r] = "unsent" /\ sent[r] = Nobody /\ as[r] = Nobody /\ code[r] = 0
          /\ users = {} /\ sess[r] = "none" /\ before[r] = [users |-> {}, ended |-> {}]
        BY DEF Init
    <2>2. Stage(r) /\ Rows(r) /\ Granted(r) /\ Cookie(r) /\ Acts(r)
        BY <2>1 DEF Stage, Rows, Granted, Cookie, Acts
    <2>3. LoggedOut(r) /\ Earlier(r) /\ LateActs(r) /\ Refused(r)
        BY <2>1 DEF LoggedOut, Earlier, LateActs, Refused
    <2>4. QED
        BY <2>2, <2>3 DEF Req
<1>4. QED
    BY <1>1, <1>2, <1>3 DEF Inv

LEMMA InvStep == Inv /\ [Next]_vars => Inv'
<1> SUFFICES ASSUME Inv, [Next]_vars PROVE Inv'
    OBVIOUS
<1>1. TypeOK'
    BY TypeStep DEF Inv, Req, Stage, Asked
<1>2. ASSUME NEW r \in Requests, NEW b \in Browsers, SignIn(r, b)
      PROVE  Inv'
    <2>1. PICK form \in Forms :
              \/ Send(r, [by |-> b, kind |-> "register", form |-> form, cookie |-> Nobody], "user")
              \/ Send(r, [by |-> b, kind |-> "login", form |-> form, cookie |-> Nobody], "lookup")
        BY <1>2 DEF SignIn
    <2>2. \A kind \in SignIns :
              [by |-> b, kind |-> kind, form |-> form, cookie |-> Nobody] \in Sent
        BY DEF Sent, SignIns, Kinds, Cookies
    <2>3. QED
        BY <1>1, <2>1, <2>2, SendStep DEF SignIns
<1>3. ASSUME NEW r \in Requests, NEW b \in Browsers, Ask(r, b)
      PROVE  Inv'
    <2>1. PICK kind \in Kinds \ SignIns :
              Send(r, [by |-> b, kind |-> kind, form |-> Nobody, cookie |-> jar[b]], "auth")
        BY <1>3 DEF Ask
    <2>2. [by |-> b, kind |-> kind, form |-> Nobody, cookie |-> jar[b]] \in Sent
        BY DEF Sent, Inv, TypeOK
    <2>3. QED
        BY <1>1, <2>1, <2>2, SendStep
<1>4. ASSUME NEW r \in Requests, Serve(r)
      PROVE  Inv'
    BY <1>1, <1>4, AuthStep, WorkStep, InsertUserStep, LookupStep, InsertSessionStep,
       DeleteStep, AnswerStep DEF Serve
<1>5. CASE UNCHANGED vars
    <2>1. /\ UNCHANGED <<users, sess, jar, pc, as, code, sent, before, faulty>>
        BY <1>5 DEF vars, db, request, seen, trouble
    <2>2. Grow
        BY <2>1 DEF Grow
    <2>3. \A q \in Requests : Untouched(q)
        BY <2>1 DEF Untouched
    <2>4. QED
        BY <1>1, <2>1, <2>2, <2>3, JarsStay, AllStay
<1>6. QED
    BY <1>1, <1>2, <1>3, <1>4, <1>5, ExpireStep, ForgetStep DEF Next

LEMMA Invariance == Spec => []Inv
BY InvInit, InvStep, PTL DEF Spec

-----------------------------------------------------------------------------
LEMMA Unsent ==
    ASSUME Inv, NEW r \in Requests, sent[r] = Nobody
    PROVE  as[r] = Nobody
BY DEF Inv, Req, Stage

(* A request acts as an account only if its own browser once proved it     *)
(* with the account's mail and password: the middleware never admits one   *)
(* person as another.                                                      *)
THEOREM OnlyOwnAccount == Spec => []ActsAsProven
<1>1. Inv => ActsAsProven
    <2> SUFFICES ASSUME Inv, NEW r \in Requests, as[r] # Nobody, sent[r].kind \notin SignIns
                 PROVE  LET s == sent[r].cookie
                        IN  /\ s # Nobody /\ sent[s].by = sent[r].by
                            /\ Form(s).mail = Form(as[r]).mail /\ Form(s).word = Form(as[r]).word
        BY DEF ActsAsProven
    <2>1. sent[r] # Nobody
        BY Unsent
    <2>2. QED
        BY <2>1 DEF Inv, Req, Acts, Cookie, Good, Proven
<1>2. QED
    BY <1>1, Invariance, PTL

(* After the answer to a logout no request acts with the session it ended. *)
THEOREM EndedForGood == Spec => []NoActAfterLogout
<1>1. Inv => NoActAfterLogout
    BY DEF Inv, Req, LateActs, NoActAfterLogout
<1>2. QED
    BY <1>1, Invariance, PTL

(* Without a fault of the database a refusal has a cause.                  *)
THEOREM NoIdleRefusal == Spec => []RefusedForCause
<1>1. Inv => RefusedForCause
    <2> SUFFICES ASSUME Inv, NEW r \in Requests, ~ faulty[r]
                 PROVE  /\ code[r] = 409 => \E u \in users \ {r} : Clash(r, u)
                        /\ code[r] = 401 /\ sent[r].kind = "login" =>
                            \A u \in before[r].users :
                                Form(u).mail # Form(r).mail \/ Form(u).word # Form(r).word
                        /\ code[r] = 401 /\ sent[r].kind # "login" =>
                            \/ sent[r].cookie = Nobody
                            \/ sess[sent[r].cookie] \in {"expired", "gone"}
        BY DEF RefusedForCause
    <2>1. CASE sent[r] = Nobody
        <3>1. Stage(r) /\ pc[r] = "unsent"
            BY <2>1 DEF Inv, Req, Stage
        <3>2. code[r] = 0
            BY <3>1 DEF Stage
        <3>3. QED
            BY <3>2
    <2>2. CASE sent[r] # Nobody
        BY <2>2 DEF Inv, Req, Refused
    <2>3. QED
        BY <2>1, <2>2
<1>2. QED
    BY <1>1, Invariance, PTL
=============================================================================
