----------------------------- MODULE AdminProofs -----------------------------
(***************************************************************************)
(* RotationRevokes, CommandHonoured and type correctness for any number of *)
(* browsers, operators, rotations, logins, commands and flags.  A session  *)
(* is only as good as the login that inserts it, so the first invariant    *)
(* follows the logins in flight: one that began before the last deletion   *)
(* is in `late`, any other was verified with the present password.  The    *)
(* second follows the PATCH of a command from its body to its answer.      *)
(***************************************************************************)
EXTENDS Admin, TLAPS

Types ==
    /\ password \in Nat /\ cleared \in Nat /\ cleared <= password
    /\ login_pc \in [Browsers -> {"idle", "create"}]
    /\ login_pw \in [Browsers -> Nat]
    /\ late \subseteq Browsers

LoginsKnown ==
    cleared = password =>
        \A b \in Browsers : login_pc[b] = "create" => login_pw[b] = password \/ b \in late

SInv == Types /\ LoginsKnown /\ RotationRevokes

-----------------------------------------------------------------------------

\* No password, no session and no login: the invariant holds when the daemon is
\* first installed.
LEMMA InitSInv == Init => SInv
  BY SMT DEF Init, SessionsInit, SInv, Types, LoginsKnown, RotationRevokes

\* What the invariant is about.
inv_vars == <<password, sessions, login_pc, login_pw, cleared, late>>

\* It is only about the password, the rows and the logins.
LEMMA FrameSInv == SInv /\ UNCHANGED inv_vars => SInv'
  BY SMT DEF SInv, Types, LoginsKnown, RotationRevokes, inv_vars

\* The handlers of the flags and variants, the package page and `paur flag`
\* read the password and the sessions and write neither.
LEMMA FlagsLeaveSessions == FlagsNext => UNCHANGED session_vars
<1> SUFFICES ASSUME FlagsNext PROVE UNCHANGED session_vars
    OBVIOUS
<1>1. ASSUME NEW b \in Browsers, Page(b) PROVE UNCHANGED session_vars
    BY <1>1 DEF Page, onMount, refresh_get, refresh_set, toggleFlag, toggleVariant,
                Toggle, toggle_answer
<1>2. ASSUME NEW c \in Clis, Command(c) PROVE UNCHANGED session_vars
    BY <1>2 DEF Command, flag, flag_get, flag_answer, flag_end
<1>3. ASSUME NEW r \in Reqs, Handler(r) \/ patch_error(r) PROVE UNCHANGED session_vars
    BY <1>3 DEF Handler, extract, patch_write, patch_reread, patch_error
<1> QED BY <1>1, <1>2, <1>3 DEF FlagsNext

-----------------------------------------------------------------------------

\* A login verifies the typed password against the hash that is stored.
LEMMA ReadSInv == ASSUME NEW b \in Browsers, SInv, login_read(b) PROVE SInv'
<1> USE DEF SInv, login_read
<1>1. Types'
    BY SMT DEF Types
<1>2. LoginsKnown'
    BY SMT DEF Types, LoginsKnown
<1>3. RotationRevokes'
    BY SMT DEF RotationRevokes
<1> QED BY <1>1, <1>2, <1>3

\* The row a login inserts has the password it was verified with, and is marked
\* if the sessions were deleted meanwhile.
LEMMA CreateSInv == ASSUME NEW b \in Browsers, SInv, login_create(b) PROVE SInv'
<1> USE DEF SInv, login_create, login_end
<1>1. Types'
    BY SMT DEF Types
<1>2. LoginsKnown'
    BY SMT DEF Types, LoginsKnown
<1>3. ASSUME cleared' = password', NEW s \in sessions' PROVE s.pw = password' \/ s.over
    <2>1. CASE s \in sessions
        BY <1>3, <2>1 DEF RotationRevokes
    <2>2. CASE s \notin sessions
        <3>1. s.pw = login_pw[b] /\ s.over = (b \in late)
            BY <1>3, <2>2
        <3> QED BY <1>3, <3>1 DEF LoginsKnown
    <2> QED BY <2>1, <2>2
<1>4. RotationRevokes'
    BY <1>3 DEF RotationRevokes
<1> QED BY <1>1, <1>2, <1>4

\* A login whose insert fails is over.
LEMMA ErrorSInv == ASSUME NEW b \in Browsers, SInv, login_error(b) PROVE SInv'
<1> USE DEF SInv, login_error, login_end
<1>1. Types'
    BY SMT DEF Types
<1>2. LoginsKnown'
    BY SMT DEF Types, LoginsKnown
<1>3. RotationRevokes'
    BY SMT DEF RotationRevokes
<1> QED BY <1>1, <1>2, <1>3

\* A logout takes rows away.
LEMMA LogoutSInv == ASSUME NEW b \in Browsers, SInv, logout(b) PROVE SInv'
<1>1. sessions' \subseteq sessions
    BY DEF logout
<1> QED BY <1>1, SMT DEF logout, SInv, Types, LoginsKnown, RotationRevokes

\* A new password is one the sessions were not yet deleted for.
LEMMA RotateSInv == ASSUME NEW o \in Operators, SInv, run_passwd_set(o) PROVE SInv'
<1>1. cleared' # password'
    BY SMT DEF SInv, Types, run_passwd_set
<1>2. Types'
    BY SMT DEF SInv, Types, run_passwd_set
<1> QED BY <1>1, <1>2 DEF SInv, LoginsKnown, RotationRevokes

\* The deletion leaves no row, and notes the logins it cannot reach.
LEMMA ClearSInv == ASSUME NEW o \in Operators, SInv, run_passwd_clear(o) PROVE SInv'
<1> USE DEF SInv, run_passwd_clear
<1>1. Types'
    BY SMT DEF Types
<1>2. LoginsKnown'
    BY SMT DEF Types, LoginsKnown
<1>3. RotationRevokes'
    BY SMT DEF RotationRevokes
<1> QED BY <1>1, <1>2, <1>3

\* Every step of the admin's side keeps the invariant.
LEMMA NextSInv == SInv /\ [Next]_vars => SInv'
<1> SUFFICES ASSUME SInv, [Next]_vars PROVE SInv'
    OBVIOUS
<1>1. ASSUME SessionsNext PROVE SInv'
    <2>1. ASSUME NEW o \in Operators, run_passwd_error(o) PROVE SInv'
        BY <2>1, FrameSInv DEF run_passwd_error, inv_vars
    <2>2. ASSUME tick PROVE SInv'
        BY <2>2, FrameSInv DEF tick, inv_vars
    <2> QED BY <1>1, <2>1, <2>2, ReadSInv, CreateSInv, ErrorSInv, LogoutSInv, RotateSInv,
               ClearSInv DEF SessionsNext
<1>2. ASSUME UNCHANGED session_vars PROVE SInv'
    BY <1>2, FrameSInv DEF session_vars, inv_vars
<1>3. ASSUME NEW b \in Browsers, refreshAuth(b) PROVE SInv'
    BY <1>3, FrameSInv DEF refreshAuth, status, inv_vars
<1>4. CASE Next
    BY <1>4, <1>1, <1>2, <1>3, FlagsLeaveSessions DEF Next
<1>5. CASE UNCHANGED vars
    BY <1>5, <1>2 DEF vars
<1> QED BY <1>4, <1>5

\* Once the sessions were deleted after the last rotation, a session of an
\* earlier password belongs to a login that had read the old hash and had not
\* yet inserted its row at that time (main.rs:125-143, auth.rs:67-116).
THEOREM Revokes == Spec => []RotationRevokes
<1>1. SInv => RotationRevokes
    BY DEF SInv
<1> QED BY InitSInv, NextSInv, <1>1, PTL DEF Spec

-----------------------------------------------------------------------------
(* Types *)

\* A body, and what a page would go back to, are columns of the request's kind.
Whole(col) == IF col = "flags" THEN Flag ELSE Optional

\* Requests and commands that have the locals their next step uses: an answer
\* "ok" brings a row, a command that has read one knows it.
GoodReq == {q \in Req : /\ q.body \subseteq Whole(q.col) /\ q.prev \subseteq Whole(q.col)
                        /\ q.pc = "answered" /\ q.code = "ok" => q.dto \in Row}
GoodCli == {x \in Cli : x.pc \in {"flags", "variants", "end"} => x.cur \in Row}

\* A login in flight was verified with a password.
SessionTypes ==
    SessionsTypeOK /\ \A b \in Browsers : login_pc[b] = "create" => login_pw[b] # 0

FlagTypes ==
    /\ row \in Row /\ ver \in Nat
    /\ req \in [Reqs -> GoodReq] /\ cli \in [Clis -> GoodCli]
    /\ page \in [Browsers -> Row \cup {NoRow}] /\ fetched \in [Browsers -> Row \cup {NoRow}]
    /\ view \in [Browsers -> {"page", "login"}]
    /\ ops \in 0..MaxOps

LEMMA InitTypes == Init => SessionTypes /\ FlagTypes
<1> SUFFICES ASSUME Init PROVE SessionTypes /\ FlagTypes
    OBVIOUS
<1>1. SessionTypes
    BY SessionsAssumption DEF Init, SessionsInit, SessionTypes, SessionsTypeOK, SessionsAssumption
<1>2. NoReq \in GoodReq
    BY DEF NoReq, GoodReq, Req, Column, Whole
<1>3. NoCli \in GoodCli
    BY DEF NoCli, GoodCli, Cli
<1>4. FlagTypes
    BY <1>2, <1>3, FlagsAssumption DEF Init, FlagsInit, FlagTypes, Row, FlagsAssumption
<1> QED BY <1>1, <1>4

\* Sessions, cookies and logins stay of their kind.
LEMMA SessionTypesKept ==
    ASSUME SessionTypes, SessionsNext \/ (\E b \in Browsers : status(b)) \/ UNCHANGED session_vars
    PROVE  SessionTypes'
<1> USE SessionsAssumption DEF SessionTypes, SessionsTypeOK, SessionsAssumption
<1>1. ASSUME NEW b \in Browsers, login_read(b) PROVE SessionTypes'
    BY <1>1 DEF login_read
<1>2. ASSUME NEW b \in Browsers, login_create(b) PROVE SessionTypes'
    <2> DEFINE s == [token |-> minted + 1, pw |-> login_pw[b], over |-> b \in late,
                     exp |-> login_exp[b]]
    <2>1. /\ minted + 1 \in 1..MaxLogins /\ login_pw[b] \in 1..MaxPw
          /\ login_exp[b] \in 0..(MaxNow + Ttl) /\ (b \in late) \in BOOLEAN
        BY <1>2 DEF login_create
    <2>2. s \in Session
        BY <2>1 DEF Session
    <2>3. sessions' = sessions \cup {s}
        BY <1>2 DEF login_create
    <2> HIDE DEF s
    <2>4. sessions' \subseteq Session
        BY <2>2, <2>3
    <2>5. cookie' \in [Browsers -> 0..MaxLogins] /\ shown' \in [Browsers -> BOOLEAN]
        <3>1. CASE UNCHANGED <<cookie, shown>>
            BY <3>1
        <3>2. CASE /\ cookie' = [cookie EXCEPT ![b] = minted + 1]
                   /\ shown' = [shown EXCEPT ![b] = TRUE]
            <4> DEFINE n == minted + 1
            <4>1. n \in 0..MaxLogins /\ cookie' = [cookie EXCEPT ![b] = n]
                BY <2>1, <3>2
            <4> HIDE DEF n
            <4>2. cookie' \in [Browsers -> 0..MaxLogins]
                BY <4>1
            <4> QED BY <3>2, <4>2
        <3> QED BY <1>2, <3>1, <3>2 DEF login_create
    <2>6. /\ minted' \in 0..MaxLogins /\ late' \subseteq Browsers
          /\ login_pc' \in [Browsers -> {"idle", "create"}]
          /\ login_pw' \in [Browsers -> 0..MaxPw] /\ login_exp' \in [Browsers -> 0..(MaxNow + Ttl)]
          /\ \A d \in Browsers : login_pc'[d] = "create" => login_pw'[d] # 0
        BY <1>2, <2>1 DEF login_create, login_end
    <2> QED BY <1>2, <2>4, <2>5, <2>6 DEF login_create
<1>3. ASSUME NEW b \in Browsers, login_error(b) PROVE SessionTypes'
    BY <1>3 DEF login_error, login_end
<1>4. ASSUME NEW b \in Browsers, logout(b) PROVE SessionTypes'
    BY <1>4 DEF logout
<1>5. ASSUME NEW b \in Browsers, status(b) PROVE SessionTypes'
    <2>1. session_user(b) \in BOOLEAN
        BY DEF session_user
    <2> QED BY <1>5, <2>1 DEF status
<1>6. ASSUME NEW o \in Operators, run_passwd_set(o) PROVE SessionTypes'
    BY <1>6 DEF run_passwd_set
<1>7. ASSUME NEW o \in Operators, run_passwd_clear(o) \/ run_passwd_error(o) PROVE SessionTypes'
    BY <1>7 DEF run_passwd_clear, run_passwd_error
<1>8. CASE tick
    BY <1>8 DEF tick
<1>9. CASE UNCHANGED session_vars
    BY <1>9 DEF session_vars
<1> QED BY <1>1, <1>2, <1>3, <1>4, <1>5, <1>6, <1>7, <1>8, <1>9 DEF SessionsNext

\* A PATCH that is sent, and one that is refused, are good.
LEMMA SentGood ==
    ASSUME NEW col \in Column, NEW body \in SUBSET Whole(col), NEW prev \in SUBSET Whole(col),
           NEW named \in BOOLEAN
    PROVE  LET q == [NoReq EXCEPT !.pc = "extract", !.col = col, !.body = body,
                                  !.prev = prev, !.named = named]
           IN  /\ q \in GoodReq
               /\ q.pc = "extract" /\ q.col = col /\ q.body = body
<1> DEFINE q == [NoReq EXCEPT !.pc = "extract", !.col = col, !.body = body,
                              !.prev = prev, !.named = named]
<1>1. body \in (SUBSET Flag) \cup (SUBSET Optional) /\ prev \in (SUBSET Flag) \cup (SUBSET Optional)
    BY DEF Whole
<1>2. NoReq \in Req
    BY DEF NoReq, Req, Column
<1>3. /\ q.pc = "extract" /\ q.col = col /\ q.body = body /\ q.prev = prev /\ q.named = named
      /\ q.code = NoReq.code /\ q.dto = NoReq.dto /\ q.wver = NoReq.wver /\ q.dver = NoReq.dver
    BY <1>2 DEF Req
<1>4. q \in Req
    BY <1>1, <1>2 DEF Req
<1> HIDE DEF q
<1>5. q \in GoodReq
    BY <1>3, <1>4 DEF GoodReq
<1> QED BY <1>3, <1>5 DEF q

LEMMA RefusedGood ==
    ASSUME NEW q \in GoodReq, NEW code \in {"401", "422", "500", "503"}
    PROVE  LET a == [q EXCEPT !.pc = "answered", !.code = code]
           IN  /\ a \in GoodReq
               /\ a.pc = "answered" /\ a.code = code /\ a.col = q.col /\ a.body = q.body
  BY DEF GoodReq, Req

\* What a step makes of the request r and leaves of the others.
LEMMA ReqPut ==
    ASSUME FlagTypes, NEW r \in Reqs, NEW q \in GoodReq, req' = [req EXCEPT ![r] = q]
    PROVE  /\ req' \in [Reqs -> GoodReq]
           /\ req'[r] = q /\ \A s \in Reqs \ {r} : req'[s] = req[s]
  BY DEF FlagTypes

LEMMA RefusedPut ==
    ASSUME FlagTypes, NEW r \in Reqs, NEW code \in {"401", "422", "500", "503"}, Answer(r, code)
    PROVE  /\ req' \in [Reqs -> GoodReq] /\ \A s \in Reqs \ {r} : req'[s] = req[s]
           /\ req'[r].pc = "answered" /\ req'[r].code # "ok"
           /\ req'[r].col = req[r].col /\ req'[r].body = req[r].body
<1> DEFINE a == [req[r] EXCEPT !.pc = "answered", !.code = code]
<1>1. req[r] \in GoodReq
    BY DEF FlagTypes
<1>2. a \in GoodReq /\ a.pc = "answered" /\ a.code = code /\ a.col = req[r].col /\ a.body = req[r].body
    BY <1>1, RefusedGood
<1>3. req' = [req EXCEPT ![r] = a]
    BY DEF Answer
<1> HIDE DEF a
<1> QED BY <1>2, <1>3, ReqPut

\* A handler's step: the request is refused or admitted, writes its column, or
\* reads the row for its answer.
Refuses(r) == req'[r].pc = "answered" /\ req'[r].code # "ok" /\ UNCHANGED <<row, ver>>
Admits(r)  == req'[r].pc = "write" /\ UNCHANGED <<row, ver>>
Writes(r)  ==
    /\ req'[r].pc = "reread" /\ req'[r].wver = ver'
    /\ \/ req[r].col = "flags" /\ row' = [row EXCEPT !.flags = req[r].body] /\ ver' = ver + 1
       \/ req[r].col = "variants" /\ row' = [row EXCEPT !.variants = req[r].body] /\ ver' = ver
Reads(r)   ==
    /\ req[r].pc = "reread" /\ req'[r].pc = "answered"
    /\ req'[r].wver = req[r].wver /\ req'[r].dver = ver /\ req'[r].dto = row
    /\ UNCHANGED <<row, ver>>

LEMMA PatchMoves ==
    ASSUME FlagTypes, NEW r \in Reqs, Handler(r) \/ patch_error(r)
    PROVE  /\ UNCHANGED <<page, view, fetched, cli, ops>>
           /\ req' \in [Reqs -> GoodReq] /\ \A s \in Reqs \ {r} : req'[s] = req[s]
           /\ req[r].pc # "idle" /\ req'[r].col = req[r].col /\ req'[r].body = req[r].body
           /\ Refuses(r) \/ Admits(r) \/ Writes(r) \/ Reads(r)
<1>0. req \in [Reqs -> GoodReq] /\ req[r] \in GoodReq /\ row \in Row /\ ver \in Nat
    BY DEF FlagTypes
<1>1. CASE extract(r)
    <2>1. UNCHANGED <<row, ver, page, view, fetched, cli, ops>> /\ req[r].pc = "extract"
        BY <1>1 DEF extract
    <2>2. (\E code \in {"401", "422", "503"} : Answer(r, code)) \/ req' = [req EXCEPT ![r].pc = "write"]
        BY <1>1 DEF extract
    <2>3. ASSUME NEW code \in {"401", "422", "503"}, Answer(r, code)
          PROVE  /\ req' \in [Reqs -> GoodReq] /\ \A s \in Reqs \ {r} : req'[s] = req[s]
                 /\ req'[r].col = req[r].col /\ req'[r].body = req[r].body /\ Refuses(r)
        BY <2>1, <2>3, RefusedPut DEF Refuses
    <2>4. CASE req' = [req EXCEPT ![r].pc = "write"]
        <3> DEFINE a == [req[r] EXCEPT !.pc = "write"]
        <3>1. /\ a \in GoodReq /\ a.pc = "write" /\ a.col = req[r].col /\ a.body = req[r].body
            BY <1>0 DEF GoodReq, Req
        <3>2. req' = [req EXCEPT ![r] = a]
            BY <2>4
        <3> HIDE DEF a
        <3> QED BY <2>1, <3>1, <3>2, ReqPut DEF Admits
    <2> QED BY <2>1, <2>2, <2>3, <2>4
<1>2. CASE patch_write(r)
    <2> DEFINE a == [req[r] EXCEPT !.pc = "reread", !.wver = ver']
    <2>1. UNCHANGED <<page, view, fetched, cli, ops>> /\ req[r].pc = "write"
        BY <1>2 DEF patch_write
    <2>2. \/ req[r].col = "flags" /\ row' = [row EXCEPT !.flags = req[r].body] /\ ver' = ver + 1
          \/ req[r].col = "variants" /\ row' = [row EXCEPT !.variants = req[r].body] /\ ver' = ver
        BY <1>0, <1>2 DEF patch_write, replace_from, GoodReq, Req, Column
    <2>3. ver' \in Nat
        BY <1>0, <2>2
    <2>4. /\ a \in GoodReq /\ a.pc = "reread" /\ a.wver = ver' /\ a.col = req[r].col
          /\ a.body = req[r].body
        BY <1>0, <2>3 DEF GoodReq, Req
    <2>5. req' = [req EXCEPT ![r] = a]
        BY <1>2 DEF patch_write
    <2> HIDE DEF a
    <2> QED BY <2>1, <2>2, <2>4, <2>5, ReqPut DEF Writes
<1>3. CASE patch_reread(r)
    <2> DEFINE a == [req[r] EXCEPT !.pc = "answered", !.dto = row, !.dver = ver]
    <2>1. UNCHANGED <<row, ver, page, view, fetched, cli, ops>> /\ req[r].pc = "reread"
        BY <1>3 DEF patch_reread
    <2>2. /\ a \in GoodReq /\ a.pc = "answered" /\ a.wver = req[r].wver /\ a.dver = ver /\ a.dto = row
          /\ a.col = req[r].col /\ a.body = req[r].body
        BY <1>0 DEF GoodReq, Req
    <2>3. req' = [req EXCEPT ![r] = a]
        BY <1>3 DEF patch_reread
    <2> HIDE DEF a
    <2> QED BY <2>1, <2>2, <2>3, ReqPut DEF Reads
<1>4. CASE patch_error(r)
    BY <1>4, RefusedPut DEF patch_error, Refuses
<1> QED BY <1>1, <1>2, <1>3, <1>4 DEF Handler

\* A step of a page sends and forgets its own requests and writes no row.
LEMMA PageMoves ==
    ASSUME FlagTypes, NEW b \in Browsers, Page(b)
    PROVE  /\ FlagTypes'
           /\ UNCHANGED <<row, ver, cli>>
           /\ \A s \in Reqs : s[1] # b => req'[s] = req[s]
<1> USE DEF FlagTypes
<1>1. CASE onMount(b)
    BY <1>1, FlagsAssumption DEF onMount, Act, FlagsAssumption
<1>2. CASE refresh_get(b) \/ refresh_set(b)
    BY <1>2 DEF refresh_get, refresh_set
<1>3. ASSUME NEW k \in Key, NEW col \in Column, NEW next \in SUBSET Whole(col),
             Toggle(b, k, col, next)
      PROVE  /\ FlagTypes' /\ UNCHANGED <<row, ver, cli>>
             /\ \A s \in Reqs : s[1] # b => req'[s] = req[s]
    <2>1. page[b] \in Row /\ <<b, k>> \in Reqs
        BY <1>3 DEF Toggle, Usable, Reqs
    <2>2. page[b][col] \in SUBSET Whole(col)
        BY <2>1 DEF Row, Column, Whole
    <2> DEFINE q == [NoReq EXCEPT !.pc = "extract", !.col = col, !.body = next,
                                  !.prev = page[b][col], !.named = TRUE]
    <2>3. q \in GoodReq
        BY <2>2, SentGood
    <2>4. req' = [req EXCEPT ![<<b, k>>] = q]
        BY <1>3 DEF Toggle, Send
    <2> HIDE DEF q
    <2>5. /\ req' \in [Reqs -> GoodReq]
          /\ \A s \in Reqs : s[1] # b => req'[s] = req[s]
        BY <2>1, <2>3, <2>4, ReqPut
    <2>6. page' \in [Browsers -> Row \cup {NoRow}]
        <3> DEFINE p == [page[b] EXCEPT ![col] = next]
        <3>1. p \in Row
            BY <2>1 DEF Row, Column, Whole
        <3>2. page' = [page EXCEPT ![b] = p]
            BY <1>3 DEF Toggle
        <3> HIDE DEF p
        <3> QED BY <3>1, <3>2
    <2> QED BY <1>3, <2>5, <2>6, FlagsAssumption DEF Toggle, Act, FlagsAssumption
<1>4. ASSUME NEW f \in Flag, toggleFlag(b, f)
      PROVE  /\ FlagTypes' /\ UNCHANGED <<row, ver, cli>>
             /\ \A s \in Reqs : s[1] # b => req'[s] = req[s]
    <2>1. page[b] \in Row
        BY <1>4 DEF toggleFlag, Toggle, Usable
    <2>2. Flip(page[b].flags, {f}) \in SUBSET Whole("flags")
        BY <2>1 DEF Flip, Row, Whole
    <2> QED BY <1>3, <1>4, <2>2 DEF toggleFlag, Key, Column
<1>5. ASSUME NEW v \in Optional, toggleVariant(b, v)
      PROVE  /\ FlagTypes' /\ UNCHANGED <<row, ver, cli>>
             /\ \A s \in Reqs : s[1] # b => req'[s] = req[s]
    <2>1. page[b] \in Row
        BY <1>5 DEF toggleVariant, Toggle, Usable
    <2>2. Flip(page[b].variants, {v}) \in SUBSET Whole("variants")
        BY <2>1 DEF Flip, Row, Whole
    <2> QED BY <1>3, <1>5, <2>2 DEF toggleVariant, Key, Column
<1>6. ASSUME NEW k \in Key, toggle_answer(b, k)
      PROVE  /\ FlagTypes' /\ UNCHANGED <<row, ver, cli>>
             /\ \A s \in Reqs : s[1] # b => req'[s] = req[s]
    <2> DEFINE q == req[<<b, k>>]
               p == IF page[b] = NoRow \/ q.code = "401" THEN NoRow
                    ELSE IF q.code = "ok" THEN q.dto
                    ELSE [page[b] EXCEPT ![q.col] = q.prev]
    <2>1. <<b, k>> \in Reqs
        BY DEF Reqs
    <2>2. q \in GoodReq /\ q.pc = "answered"
        BY <1>6, <2>1 DEF toggle_answer
    <2>3. NoReq \in GoodReq
        BY DEF NoReq, GoodReq, Req, Column, Whole
    <2>4. /\ req' \in [Reqs -> GoodReq]
          /\ \A s \in Reqs : s[1] # b => req'[s] = req[s]
        BY <1>6, <2>1, <2>3, ReqPut DEF toggle_answer, Forget
    <2>5. p \in Row \cup {NoRow}
        <3>1. CASE page[b] = NoRow \/ q.code = "401"
            BY <3>1
        <3>2. CASE ~(page[b] = NoRow \/ q.code = "401") /\ q.code = "ok"
            BY <2>2, <3>2 DEF GoodReq
        <3>3. CASE ~(page[b] = NoRow \/ q.code = "401") /\ q.code # "ok"
            <4>1. page[b] \in Row /\ q.col \in Column /\ q.prev \in SUBSET Whole(q.col)
                BY <2>2, <3>3 DEF GoodReq, Req
            <4>2. [page[b] EXCEPT ![q.col] = q.prev] \in Row
                BY <4>1 DEF Row, Column, Whole
            <4> QED BY <3>3, <4>2
        <3> QED BY <3>1, <3>2, <3>3
    <2>6. page' = [page EXCEPT ![b] = p]
        BY <1>6 DEF toggle_answer
    <2> HIDE DEF p
    <2>7. page' \in [Browsers -> Row \cup {NoRow}]
        BY <2>5, <2>6
    <2> QED BY <1>6, <2>4, <2>7 DEF toggle_answer
<1> QED BY <1>1, <1>2, <1>4, <1>5, <1>6 DEF Page

-----------------------------------------------------------------------------
(* paur flag *)

\* What a step makes of the command c and leaves of the others.
LEMMA CliPut ==
    ASSUME FlagTypes, NEW c \in Clis, NEW x \in GoodCli, cli' = [cli EXCEPT ![c] = x]
    PROVE  /\ cli' \in [Clis -> GoodCli]
           /\ cli'[c] = x /\ \A d \in Clis \ {c} : cli'[d] = cli[d]
  BY DEF FlagTypes

\* A command that has read the row, on its way.
LEMMA CliStep ==
    ASSUME NEW x \in GoodCli, x.cur \in Row, NEW pc \in {"flags", "variants", "end"}
    PROVE  LET y == [x EXCEPT !.pc = pc]
           IN  /\ y \in GoodCli
               /\ y.pc = pc /\ y.on = x.on /\ y.off = x.off /\ y.toggle = x.toggle /\ y.cur = x.cur
  BY DEF GoodCli, Cli

\* The command asks for the flags it wants, goes on to the variants, or ends.
Same(c, x)  == cli'[c].on = x.on /\ cli'[c].off = x.off /\ cli'[c].cur = x.cur
Asks(c)     ==
    /\ cli'[c].pc = "flags"
    /\ req'[<<c, "flags">>].pc = "extract" /\ req'[<<c, "flags">>].col = "flags"
    /\ req'[<<c, "flags">>].body = Flags(cli'[c])
Passes(c)   == cli'[c].pc \in {"variants", "end"} /\ req'[<<c, "flags">>] = req[<<c, "flags">>]

\* The requests and commands of others, and the rest of the state.
Others(c) ==
    /\ req' \in [Reqs -> GoodReq] /\ cli' \in [Clis -> GoodCli]
    /\ \A s \in Reqs : s[1] # c => req'[s] = req[s]
    /\ \A d \in Clis \ {c} : cli'[d] = cli[d]

LEMMA VariantsMove ==
    ASSUME FlagTypes, NEW c \in Clis, NEW x \in GoodCli, x.cur \in Row, SendVariants(c, x)
    PROVE  Others(c) /\ Same(c, x) /\ Passes(c)
<1>0. <<c, "variants">> \in Reqs /\ <<c, "flags">> \in Reqs /\ <<c, "variants">> # <<c, "flags">>
    BY DEF Reqs, Column
<1>1. CASE Variants(x) # x.cur.variants
    <2> DEFINE q == [NoReq EXCEPT !.pc = "extract", !.col = "variants", !.body = Variants(x),
                                  !.prev = {}, !.named = FALSE]
               y == [x EXCEPT !.pc = "variants"]
    <2>1. Variants(x) \in SUBSET Whole("variants")
        BY DEF Variants, Flip, Whole, GoodCli, Cli, Row
    <2>2. q \in GoodReq
        BY <2>1, SentGood DEF Column
    <2>3. /\ y \in GoodCli
          /\ y.pc = "variants" /\ y.on = x.on /\ y.off = x.off /\ y.cur = x.cur
        BY CliStep
    <2>4. req' = [req EXCEPT ![<<c, "variants">>] = q] /\ cli' = [cli EXCEPT ![c] = y]
        BY <1>1 DEF SendVariants, Send
    <2> HIDE DEF q, y
    <2>5. /\ req' \in [Reqs -> GoodReq]
          /\ \A s \in Reqs \ {<<c, "variants">>} : req'[s] = req[s]
        BY <1>0, <2>2, <2>4, ReqPut
    <2>6. /\ cli' \in [Clis -> GoodCli]
          /\ cli'[c] = y /\ \A d \in Clis \ {c} : cli'[d] = cli[d]
        BY <2>3, <2>4, CliPut
    <2> QED BY <1>0, <2>3, <2>5, <2>6 DEF Others, Same, Passes
<1>2. CASE Variants(x) = x.cur.variants
    <2> DEFINE y == [x EXCEPT !.pc = "end"]
    <2>1. /\ y \in GoodCli
          /\ y.pc = "end" /\ y.on = x.on /\ y.off = x.off /\ y.cur = x.cur
        BY CliStep
    <2>2. req' = req /\ cli' = [cli EXCEPT ![c] = y]
        BY <1>2 DEF SendVariants
    <2> HIDE DEF y
    <2>3. /\ cli' \in [Clis -> GoodCli]
          /\ cli'[c] = y /\ \A d \in Clis \ {c} : cli'[d] = cli[d]
        BY <2>1, <2>2, CliPut
    <2> QED BY <1>0, <2>1, <2>2, <2>3 DEF FlagTypes, Others, Same, Passes
<1> QED BY <1>1, <1>2

\* A step of `paur flag` writes no row and touches nobody's requests but its own.
LEMMA CommandMoves ==
    ASSUME FlagTypes, NEW c \in Clis, Command(c)
    PROVE  /\ Others(c) /\ UNCHANGED <<row, ver, page, view, fetched>> /\ ops' \in 0..MaxOps
           /\ \/ /\ cli[c].pc = "idle" /\ cli'[c].pc = "get" /\ cli'[c].on \cap cli'[c].off = {}
                 /\ req' = req
              \/ cli[c].pc = "get" /\ Same(c, [cli[c] EXCEPT !.cur = row]) /\ Asks(c)
              \/ cli[c].pc = "get" /\ Same(c, [cli[c] EXCEPT !.cur = row]) /\ Passes(c)
              \/ cli[c].pc \in {"flags", "variants"} /\ Same(c, cli[c]) /\ Passes(c)
<1>0. cli[c] \in GoodCli /\ row \in Row /\ req \in [Reqs -> GoodReq] /\ ops \in 0..MaxOps
    BY DEF FlagTypes
<1>1. CASE flag(c)
    <2>1. PICK x \in Commands :
            cli' = [cli EXCEPT ![c] = [cli[c] EXCEPT !.pc = "get", !.on = x.on, !.off = x.off,
                                                     !.toggle = x.toggle]]
        BY <1>1 DEF flag
    <2> DEFINE y == [cli[c] EXCEPT !.pc = "get", !.on = x.on, !.off = x.off, !.toggle = x.toggle]
    <2>2. /\ x \in [on : SUBSET Flag, off : SUBSET Flag, toggle : SUBSET Optional]
          /\ x.on \cap x.off = {}
        BY FlagsAssumption DEF FlagsAssumption
    <2>3. y \in GoodCli /\ y.pc = "get" /\ y.on \cap y.off = {}
        BY <1>0, <2>2 DEF GoodCli, Cli
    <2>4. cli' = [cli EXCEPT ![c] = y]
        BY <2>1
    <2> HIDE DEF y
    <2>5. /\ cli' \in [Clis -> GoodCli]
          /\ cli'[c] = y /\ \A d \in Clis \ {c} : cli'[d] = cli[d]
        BY <2>3, <2>4, CliPut
    <2> QED BY <1>0, <1>1, <2>3, <2>5, FlagsAssumption DEF flag, Act, Others, FlagsAssumption
<1>2. CASE flag_get(c)
    <2> DEFINE x == [cli[c] EXCEPT !.cur = row]
    <2>1. /\ x \in GoodCli /\ x.cur \in Row
        BY <1>0 DEF GoodCli, Cli
    <2>2. cli[c].pc = "get" /\ UNCHANGED <<row, ver, page, view, fetched, ops>>
        BY <1>2 DEF flag_get
    <2>3. CASE Flags(x) # x.cur.flags
        <3> DEFINE q == [NoReq EXCEPT !.pc = "extract", !.col = "flags", !.body = Flags(x),
                                      !.prev = {}, !.named = TRUE]
                   y == [x EXCEPT !.pc = "flags"]
        <3>1. Flags(x) \in SUBSET Whole("flags")
            BY <2>1 DEF Flags, Whole, GoodCli, Cli, Row
        <3>2. q \in GoodReq /\ q.pc = "extract" /\ q.col = "flags" /\ q.body = Flags(x)
            <4>1. q \in GoodReq
                BY <3>1, SentGood DEF Column
            <4>2. q.pc = "extract" /\ q.col = "flags" /\ q.body = Flags(x)
                BY DEF NoReq
            <4> QED BY <4>1, <4>2
        <3>3. /\ y \in GoodCli
              /\ y.pc = "flags" /\ y.on = x.on /\ y.off = x.off /\ y.cur = x.cur
            BY <2>1, CliStep
        <3>4. Flags(y) = Flags(x)
            BY <3>3 DEF Flags
        <3>5. req' = [req EXCEPT ![<<c, "flags">>] = q] /\ cli' = [cli EXCEPT ![c] = y]
            BY <1>2, <2>3 DEF flag_get, Send
        <3>6. <<c, "flags">> \in Reqs
            BY DEF Reqs, Column
        <3> HIDE DEF q, y
        <3>7. /\ req' \in [Reqs -> GoodReq]
              /\ req'[<<c, "flags">>] = q /\ \A s \in Reqs \ {<<c, "flags">>} : req'[s] = req[s]
            BY <3>2, <3>5, <3>6, ReqPut
        <3>8. /\ cli' \in [Clis -> GoodCli]
              /\ cli'[c] = y /\ \A d \in Clis \ {c} : cli'[d] = cli[d]
            BY <3>3, <3>5, CliPut
        <3>9. Others(c) /\ Same(c, x) /\ Asks(c)
            BY <3>2, <3>3, <3>4, <3>7, <3>8 DEF Others, Same, Asks
        <3> QED BY <1>0, <2>2, <3>9
    <2>4. CASE Flags(x) = x.cur.flags
        <3>1. SendVariants(c, x)
            BY <1>2, <2>4 DEF flag_get
        <3>2. Others(c) /\ Same(c, x) /\ Passes(c)
            BY <2>1, <3>1, VariantsMove
        <3> QED BY <1>0, <2>2, <3>2
    <2> QED BY <2>3, <2>4
<1>3. ASSUME cli[c].pc \in {"flags", "variants"}, cli' = [cli EXCEPT ![c].pc = "end"], req' = req
      PROVE  Others(c) /\ Same(c, cli[c]) /\ Passes(c)
    <2> DEFINE y == [cli[c] EXCEPT !.pc = "end"]
    <2>1. /\ y \in GoodCli
          /\ y.pc = "end" /\ y.on = cli[c].on /\ y.off = cli[c].off /\ y.cur = cli[c].cur
        BY <1>0, <1>3, CliStep DEF GoodCli
    <2>2. cli' = [cli EXCEPT ![c] = y]
        BY <1>3
    <2> HIDE DEF y
    <2>3. /\ cli' \in [Clis -> GoodCli]
          /\ cli'[c] = y /\ \A d \in Clis \ {c} : cli'[d] = cli[d]
        BY <2>1, <2>2, CliPut
    <2> QED BY <1>0, <1>3, <2>1, <2>3 DEF Others, Same, Passes
<1>4. CASE flag_answer(c)
    <2>1. cli[c].pc = "flags" /\ UNCHANGED <<row, ver, page, view, fetched, ops>>
        BY <1>4 DEF flag_answer
    <2>2. CASE SendVariants(c, cli[c])
        <3>1. cli[c].cur \in Row
            BY <1>0, <2>1 DEF GoodCli
        <3> QED BY <1>0, <2>1, <2>2, <3>1, VariantsMove
    <2>3. CASE cli' = [cli EXCEPT ![c].pc = "end"] /\ UNCHANGED req
        BY <1>0, <1>3, <2>1, <2>3
    <2> QED BY <1>4, <2>2, <2>3 DEF flag_answer
<1>5. CASE flag_end(c)
    BY <1>0, <1>3, <1>5 DEF flag_end
<1> QED BY <1>1, <1>2, <1>4, <1>5 DEF Command

-----------------------------------------------------------------------------

\* Every step of the admin's side keeps the types.
LEMMA NextTypes == SessionTypes /\ FlagTypes /\ [Next]_vars => SessionTypes' /\ FlagTypes'
<1> SUFFICES ASSUME SessionTypes, FlagTypes, [Next]_vars PROVE SessionTypes' /\ FlagTypes'
    OBVIOUS
<1>1. ASSUME UNCHANGED flag_vars PROVE FlagTypes'
    BY <1>1 DEF flag_vars, FlagTypes
<1>2. ASSUME NEW r \in Reqs, Handler(r) \/ patch_error(r) PROVE FlagTypes'
    <2>1. row' \in Row /\ ver' \in Nat
        <3>1. CASE Writes(r)
            <4>1. req[r] \in GoodReq /\ row \in Row /\ ver \in Nat
                BY DEF FlagTypes
            <4>2. ver' \in Nat
                BY <3>1, <4>1 DEF Writes
            <4>3. row' \in Row
                BY <3>1, <4>1 DEF Writes, GoodReq, Whole, Row
            <4> QED BY <4>2, <4>3
        <3>2. CASE ~Writes(r)
            <4>1. UNCHANGED <<row, ver>>
                BY <1>2, <3>2, PatchMoves DEF Refuses, Admits, Reads
            <4> QED BY <4>1 DEF FlagTypes
        <3> QED BY <3>1, <3>2
    <2>2. UNCHANGED <<page, view, fetched, cli, ops>> /\ req' \in [Reqs -> GoodReq]
        BY <1>2, PatchMoves
    <2> QED BY <2>1, <2>2 DEF FlagTypes
<1>3. ASSUME NEW c \in Clis, Command(c) PROVE FlagTypes'
    <2>1. Others(c) /\ UNCHANGED <<row, ver, page, view, fetched>> /\ ops' \in 0..MaxOps
        BY <1>3, CommandMoves
    <2> QED BY <2>1 DEF FlagTypes, Others
<1>4. CASE SessionsNext /\ UNCHANGED flag_vars
    BY <1>1, <1>4, SessionTypesKept
<1>5. CASE FlagsNext
    BY <1>2, <1>3, <1>5, PageMoves, FlagsLeaveSessions, SessionTypesKept DEF FlagsNext
<1>6. CASE \E b \in Browsers : refreshAuth(b)
    BY <1>1, <1>6, SessionTypesKept DEF refreshAuth
<1>7. CASE UNCHANGED vars
    BY <1>1, <1>7, SessionTypesKept DEF vars
<1> QED BY <1>4, <1>5, <1>6, <1>7 DEF Next

\* Rows, sessions, requests, pages and commands are of their kind.
THEOREM TypeCorrect == Spec => []TypeOK
<1>1. SessionTypes /\ FlagTypes => TypeOK
    BY DEF SessionTypes, FlagTypes, TypeOK, GoodReq, GoodCli
<1> QED BY InitTypes, NextTypes, <1>1, PTL DEF Spec

-----------------------------------------------------------------------------
(* CommandHonoured *)

\* What is known of the PATCH a command sent for the flags: its body is the
\* column the command wants; while no other write has come after its own, the
\* row has that column; and then so has its answer.
Sent(c) ==
    LET q == req[<<c, "flags">>]
        x == cli[c]
    IN  /\ x.on \cap x.off = {}
        /\ q.pc # "idle" =>
              x.pc \in {"flags", "variants", "end"} /\ q.col = "flags" /\ q.body = Flags(x)
        /\ q.pc = "reread" => q.wver <= ver /\ (q.wver = ver => row.flags = q.body)
        /\ q.pc = "answered" /\ q.code = "ok" /\ q.dver = q.wver => q.dto.flags = q.body

\* It is about the command, that request, and the row.
LEMMA SentFrame ==
    ASSUME NEW c, Sent(c), cli'[c] = cli[c], req'[<<c, "flags">>] = req[<<c, "flags">>],
           UNCHANGED <<row, ver>>
    PROVE  Sent(c)'
  BY DEF Sent, Flags

\* A step of a handler: a write by another request is seen in ver.
LEMMA PatchSent ==
    ASSUME FlagTypes, NEW r \in Reqs, Handler(r) \/ patch_error(r), NEW c \in Clis, Sent(c)
    PROVE  Sent(c)'
<1> DEFINE f == <<c, "flags">>
<1>0. /\ f \in Reqs /\ req[f] \in GoodReq /\ req'[f] \in GoodReq /\ req[r] \in GoodReq
      /\ row \in Row /\ ver \in Nat /\ cli' = cli
    BY PatchMoves DEF Reqs, Column, FlagTypes
<1>1. /\ \A s \in Reqs \ {r} : req'[s] = req[s]
      /\ req[r].pc # "idle" /\ req'[r].col = req[r].col /\ req'[r].body = req[r].body
      /\ Refuses(r) \/ Admits(r) \/ Writes(r) \/ Reads(r)
    BY PatchMoves
<1>2. Flags(cli'[c]) = Flags(cli[c])
    BY <1>0
<1>3. CASE r # f
    <2>1. req'[f] = req[f]
        BY <1>0, <1>1, <1>3
    <2>2. CASE UNCHANGED <<row, ver>>
        BY <1>0, <2>1, <2>2, SentFrame
    <2>3. CASE Writes(r)
        <3>1. CASE row' = [row EXCEPT !.flags = req[r].body] /\ ver' = ver + 1
            <4>1. req[f].pc = "reread" => req[f].wver \in Nat /\ req[f].wver <= ver
                BY <1>0 DEF Sent, GoodReq, Req
            <4>2. req[f].pc = "reread" => req[f].wver <= ver' /\ req[f].wver # ver'
                BY <1>0, <3>1, <4>1
            <4> HIDE DEF f
            <4> QED BY <1>0, <1>2, <2>1, <4>2 DEF Sent, f
        <3>2. CASE row' = [row EXCEPT !.variants = req[r].body] /\ ver' = ver
            <4>1. row'.flags = row.flags
                BY <1>0, <3>2 DEF Row
            <4> QED BY <1>0, <1>2, <2>1, <3>2, <4>1 DEF Sent
        <3> QED BY <2>3, <3>1, <3>2 DEF Writes
    <2> QED BY <1>1, <2>2, <2>3 DEF Refuses, Admits, Reads
<1>4. CASE r = f
    <2>1. /\ cli[c].pc \in {"flags", "variants", "end"} /\ req[f].col = "flags"
          /\ req[f].body = Flags(cli[c]) /\ cli[c].on \cap cli[c].off = {}
          /\ req'[f].col = "flags" /\ req'[f].body = req[f].body
        BY <1>1, <1>4 DEF Sent
    <2>2. CASE Refuses(r) \/ Admits(r)
        BY <1>0, <1>2, <1>4, <2>1, <2>2 DEF Sent, Refuses, Admits
    <2>3. CASE Writes(r)
        <3>1. row' = [row EXCEPT !.flags = req[f].body] /\ ver' = ver + 1
            BY <1>4, <2>1, <2>3 DEF Writes
        <3>2. row'.flags = req'[f].body /\ ver' \in Nat
            BY <1>0, <2>1, <3>1 DEF Row
        <3>3. req'[f].pc = "reread" /\ req'[f].wver = ver'
            BY <1>4, <2>3 DEF Writes
        <3> QED BY <1>0, <1>2, <2>1, <3>2, <3>3 DEF Sent
    <2>4. CASE Reads(r)
        <3>1. /\ req'[f].pc = "answered" /\ req'[f].dver = ver /\ req'[f].wver = req[f].wver
              /\ req'[f].dto = row /\ req[f].pc = "reread"
            BY <1>4, <2>4 DEF Reads
        <3>2. req'[f].dver = req'[f].wver => req'[f].dto.flags = req'[f].body
            BY <2>1, <3>1 DEF Sent
        <3> QED BY <1>0, <1>2, <2>1, <3>1, <3>2 DEF Sent
    <2> QED BY <1>1, <2>2, <2>3, <2>4
<1> QED BY <1>3, <1>4

\* A step of a command: it sends what it wants, and once.
LEMMA CommandSent ==
    ASSUME FlagTypes, NEW d \in Clis, Command(d), NEW c \in Clis, Sent(c)
    PROVE  Sent(c)'
<1>0. /\ <<c, "flags">> \in Reqs /\ Others(d) /\ UNCHANGED <<row, ver>>
    BY CommandMoves DEF Reqs, Column
<1>1. CASE c # d
    <2>1. cli'[c] = cli[c] /\ req'[<<c, "flags">>] = req[<<c, "flags">>]
        BY <1>0, <1>1 DEF Others
    <2> QED BY <1>0, <2>1, SentFrame
<1>2. CASE c = d
    <2>1. CASE /\ cli[c].pc = "idle" /\ cli'[c].pc = "get" /\ cli'[c].on \cap cli'[c].off = {}
               /\ req' = req
        BY <2>1 DEF Sent
    <2>2. ASSUME cli[c].pc = "get" PROVE req[<<c, "flags">>].pc = "idle"
        BY <2>2 DEF Sent
    <2>3. [cli[c] EXCEPT !.cur = row].on = cli[c].on /\ [cli[c] EXCEPT !.cur = row].off = cli[c].off
        BY DEF FlagTypes, GoodCli, Cli
    <2>4. CASE cli[c].pc = "get" /\ Same(c, [cli[c] EXCEPT !.cur = row]) /\ Asks(c)
        <3>1. cli'[c].on \cap cli'[c].off = {}
            BY <2>3, <2>4 DEF Sent, Same
        <3> QED BY <2>4, <3>1 DEF Sent, Asks, Flags
    <2>5. CASE cli[c].pc = "get" /\ Same(c, [cli[c] EXCEPT !.cur = row]) /\ Passes(c)
        <3>1. cli'[c].on \cap cli'[c].off = {}
            BY <2>3, <2>5 DEF Sent, Same
        <3> QED BY <2>2, <2>5, <3>1 DEF Sent, Passes
    <2>6. CASE cli[c].pc \in {"flags", "variants"} /\ Same(c, cli[c]) /\ Passes(c)
        BY <1>0, <2>6 DEF Sent, Same, Passes, Flags
    <2> QED BY <1>2, <2>1, <2>4, <2>5, <2>6, CommandMoves
<1> QED BY <1>1, <1>2

CInv == \A c \in Clis : Sent(c)

LEMMA InitCInv == Init => CInv
  BY DEF Init, FlagsInit, CInv, Sent, NoReq, NoCli, Reqs, Column

LEMMA NextCInv == FlagTypes /\ CInv /\ [Next]_vars => CInv'
<1> SUFFICES ASSUME FlagTypes, CInv, [Next]_vars, NEW c \in Clis PROVE Sent(c)'
    BY DEF CInv
<1>0. Sent(c) /\ <<c, "flags">> \in Reqs
    BY DEF CInv, Reqs, Column
<1>1. CASE UNCHANGED flag_vars
    BY <1>0, <1>1, SentFrame DEF flag_vars
<1>2. ASSUME NEW b \in Browsers, Page(b) PROVE Sent(c)'
    <2>1. c # b
        BY FlagsAssumption DEF FlagsAssumption
    <2>2. UNCHANGED <<row, ver, cli>> /\ req'[<<c, "flags">>] = req[<<c, "flags">>]
        BY <1>0, <1>2, <2>1, PageMoves
    <2> QED BY <1>0, <2>2, SentFrame
<1>3. CASE FlagsNext
    BY <1>0, <1>2, <1>3, PatchSent, CommandSent DEF FlagsNext
<1> QED BY <1>1, <1>3 DEF Next, vars, refreshAuth

\* The daemon's answer to `paur flag`, when no other write fell between the
\* command's and the answer, has the flags it named, on and off, as asked and
\* the others as the command had read them (cmd.rs, run_flag; api.rs,
\* set_package_flags).
THEOREM Honoured == Spec => []CommandHonoured
<1>1. FlagTypes /\ CInv => CommandHonoured
    <2> SUFFICES ASSUME FlagTypes, CInv, NEW c \in Clis,
                        req[<<c, "flags">>].pc = "answered", req[<<c, "flags">>].code = "ok",
                        req[<<c, "flags">>].dver = req[<<c, "flags">>].wver
                 PROVE  LET q == req[<<c, "flags">>] IN
                        /\ cli[c].on \subseteq q.dto.flags
                        /\ cli[c].off \cap q.dto.flags = {}
                        /\ \A f \in Flag \ (cli[c].on \cup cli[c].off) :
                             f \in q.dto.flags <=> f \in cli[c].cur.flags
        BY DEF CommandHonoured
    <2>1. /\ cli[c].on \cap cli[c].off = {}
          /\ req[<<c, "flags">>].dto.flags = (cli[c].cur.flags \cup cli[c].on) \ cli[c].off
        BY DEF CInv, Sent, Flags
    <2> QED BY <2>1
<1> QED BY InitTypes, NextTypes, InitCInv, NextCInv, <1>1, PTL DEF Spec
=============================================================================
