------------------------------ MODULE Sessions ------------------------------
(***************************************************************************)
(* The admin password, the sessions table and the browsers' cookies.       *)
(* `paur passwd` is a process of its own: it replaces the hash and then    *)
(* deletes the sessions, while the daemon answers logins.  A password is   *)
(* its version: 0 before the first, and every rotation makes a new one.    *)
(***************************************************************************)
EXTENDS Naturals, FiniteSets

CONSTANTS
    Browsers,    \* remote browsers
    Operators,   \* `paur passwd` processes
    MaxPw,       \* rotations
    MaxLogins,   \* sessions created
    Ttl,         \* SESSION_TTL_SECS, in ticks
    MaxNow       \* the clock's last tick

ASSUME SessionsAssumption ==
    MaxPw \in Nat /\ MaxLogins \in Nat /\ Ttl \in Nat /\ MaxNow \in Nat

VARIABLES
    password,    \* settings.admin_password_hash; 0: not set
    sessions,    \* rows [token, pw, over, exp]; pw and over are history
    cookie,      \* per browser: the token of its cookie; 0: none
    shown,       \* per browser: authState.authenticated
    login_pc,    \* per browser: "idle", "create"
    login_pw,    \* per browser: the password the login in flight was verified with
    login_exp,   \* per browser: the expires_at it computed
    passwd_pc,   \* per operator: "idle", "clear"
    minted,      \* tokens handed out
    now,
    cleared,     \* history: the password when the sessions were last deleted
    late         \* history: the browsers whose login was in flight at that time

session_vars == <<password, sessions, cookie, shown, login_pc, login_pw, login_exp,
                  passwd_pc, minted, now, cleared, late>>

SessionsInit ==
    /\ password = 0 /\ sessions = {} /\ minted = 0 /\ now = 0
    /\ cookie = [b \in Browsers |-> 0] /\ shown = [b \in Browsers |-> FALSE]
    /\ login_pc = [b \in Browsers |-> "idle"]
    /\ login_pw = [b \in Browsers |-> 0] /\ login_exp = [b \in Browsers |-> 0]
    /\ passwd_pc = [o \in Operators |-> "idle"]
    /\ cleared = 0 /\ late = {}

\* lookup_session behind session_user: the row exists and is not expired.
session_user(b) == \E s \in sessions : s.token = cookie[b] /\ s.exp > now

\* Admin::from_request_parts for a peer that is not loopback: 503 without a
\* password, 401 without a session.  A password that is set is never unset, so
\* its read and the lookup can be one step.
Admin(b) == password # 0 /\ session_user(b)

\* login up to the insert: the stored hash is read and the typed password
\* verified against it.  The answers 401 and 503 change nothing.
login_read(b) ==
    /\ login_pc[b] = "idle" /\ minted < MaxLogins
    /\ password # 0
    /\ login_pc' = [login_pc EXCEPT ![b] = "create"]
    /\ login_pw' = [login_pw EXCEPT ![b] = password]
    /\ login_exp' = [login_exp EXCEPT ![b] = now + Ttl]
    /\ UNCHANGED <<password, sessions, cookie, shown, passwd_pc, minted, now, cleared, late>>

login_end(b) ==
    /\ login_pc' = [login_pc EXCEPT ![b] = "idle"]
    /\ login_pw' = [login_pw EXCEPT ![b] = 0] /\ login_exp' = [login_exp EXCEPT ![b] = 0]
    /\ late' = late \ {b}

\* create_session and the answer, which may not arrive.
login_create(b) ==
    /\ login_pc[b] = "create" /\ minted < MaxLogins
    /\ minted' = minted + 1
    /\ sessions' = sessions \cup {[token |-> minted + 1, pw |-> login_pw[b],
                                   over |-> b \in late, exp |-> login_exp[b]]}
    /\ \/ cookie' = [cookie EXCEPT ![b] = minted + 1] /\ shown' = [shown EXCEPT ![b] = TRUE]
       \/ UNCHANGED <<cookie, shown>>
    /\ login_end(b)
    /\ UNCHANGED <<password, passwd_pc, now, cleared>>

login_error(b) ==
    /\ login_pc[b] = "create"
    /\ login_end(b)
    /\ UNCHANGED <<password, sessions, cookie, shown, passwd_pc, minted, now, cleared>>

\* logout clears the cookie whether or not the row could be deleted.
logout(b) ==
    /\ cookie[b] # 0
    /\ sessions' \in {sessions, {s \in sessions : s.token # cookie[b]}}
    /\ cookie' = [cookie EXCEPT ![b] = 0] /\ shown' = [shown EXCEPT ![b] = FALSE]
    /\ UNCHANGED <<password, login_pc, login_pw, login_exp, passwd_pc, minted, now, cleared, late>>

\* status, behind refreshAuth: Admin.tla says when a page asks.
status(b) ==
    /\ shown' = [shown EXCEPT ![b] = session_user(b)]
    /\ UNCHANGED <<password, sessions, cookie, login_pc, login_pw, login_exp, passwd_pc, minted, now, cleared, late>>

\* run_passwd: set_setting, then delete_all_sessions; the process may end in
\* between, and the new hash stays.
run_passwd_set(o) ==
    /\ passwd_pc[o] = "idle" /\ password < MaxPw
    /\ password' = password + 1
    /\ passwd_pc' = [passwd_pc EXCEPT ![o] = "clear"]
    /\ UNCHANGED <<sessions, cookie, shown, login_pc, login_pw, login_exp, minted, now, cleared, late>>

\* Mutant: the sweep of expired sessions in the place of delete_all_sessions.
run_passwd_prune(o) ==
    /\ passwd_pc[o] = "clear"
    /\ sessions' = {s \in sessions : s.exp > now}
    /\ cleared' = password
    /\ late' = {b \in Browsers : login_pc[b] = "create"}
    /\ passwd_pc' = [passwd_pc EXCEPT ![o] = "idle"]
    /\ UNCHANGED <<password, cookie, shown, login_pc, login_pw, login_exp, minted, now>>

run_passwd_clear(o) ==
    /\ passwd_pc[o] = "clear"
    /\ sessions' = {}
    /\ cleared' = password
    /\ late' = {b \in Browsers : login_pc[b] = "create"}
    /\ passwd_pc' = [passwd_pc EXCEPT ![o] = "idle"]
    /\ UNCHANGED <<password, cookie, shown, login_pc, login_pw, login_exp, minted, now>>

run_passwd_error(o) ==
    /\ passwd_pc[o] = "clear"
    /\ passwd_pc' = [passwd_pc EXCEPT ![o] = "idle"]
    /\ UNCHANGED <<password, sessions, cookie, shown, login_pc, login_pw, login_exp, minted, now, cleared, late>>

tick ==
    /\ now < MaxNow
    /\ now' = now + 1
    /\ UNCHANGED <<password, sessions, cookie, shown, login_pc, login_pw, login_exp, passwd_pc, minted, cleared, late>>

SessionsNext ==
    \/ \E b \in Browsers :
         login_read(b) \/ login_create(b) \/ login_error(b) \/ logout(b)
    \/ \E o \in Operators : run_passwd_set(o) \/ run_passwd_clear(o) \/ run_passwd_error(o)
    \/ tick

SessionsSpec == SessionsInit /\ [][SessionsNext]_session_vars

------------------------------------------------------------------------------
(* Properties *)

Session == [token : 1..MaxLogins, pw : 1..MaxPw, over : BOOLEAN, exp : 0..(MaxNow + Ttl)]

\* Rows, cookies and locals are of their kind.
SessionsTypeOK ==
    /\ password \in 0..MaxPw /\ cleared \in 0..MaxPw
    /\ sessions \subseteq Session
    /\ cookie \in [Browsers -> 0..MaxLogins] /\ shown \in [Browsers -> BOOLEAN]
    /\ login_pc \in [Browsers -> {"idle", "create"}]
    /\ login_pw \in [Browsers -> 0..MaxPw] /\ login_exp \in [Browsers -> 0..(MaxNow + Ttl)]
    /\ passwd_pc \in [Operators -> {"idle", "clear"}]
    /\ minted \in 0..MaxLogins /\ now \in 0..MaxNow
    /\ late \subseteq Browsers

\* run_passwd's promise that a rotation forces a new login everywhere, as far as
\* it goes: once the sessions were deleted after the last rotation, a session
\* of an earlier password belongs to a login that had read the old hash and
\* had not yet inserted its row at that time.
RotationRevokes ==
    cleared = password => \A s \in sessions : s.pw = password \/ s.over

\* main.rs:138-139 without the exception: "a password rotation should force
\* re-auth everywhere".
RotationRevokesAll ==
    cleared = password => \A s \in sessions : s.pw = password
=============================================================================
