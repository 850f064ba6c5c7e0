------------------------------ MODULE BuildLog ------------------------------
(***************************************************************************)
(* What the log of a build promises to those who follow it.  The log only  *)
(* grows, until it is closed; the lines of a stream come in their order,   *)
(* each at most once, though some may be missing.  It may be deleted, all  *)
(* of it, and then stays empty.  A follower hears lines that are stored or *)
(* were deleted, and is told the end in one of three ways: with the closed *)
(* log, with a part of it, or by being cut off when the daemon dies.       *)
(***************************************************************************)
EXTENDS Naturals, Sequences, Functions

CONSTANTS Streams, Followers, MaxLines

VARIABLES
    log,      \* stored lines, each <<stream, number>>
    closed,   \* no line will be added
    deleted,  \* the lines that were deleted
    view      \* per follower: [state, heard, tail]

lvars == <<log, closed, deleted, view>>

Init ==
    /\ log = <<>> /\ closed = FALSE /\ deleted = {}
    /\ view = [f \in Followers |-> [state |-> "waiting", heard |-> {}, tail |-> <<>>]]

Store(s, i) ==
    /\ ~closed
    /\ \A k \in DOMAIN log : log[k][1] = s => log[k][2] < i
    /\ log' = Append(log, <<s, i>>)
    /\ UNCHANGED <<closed, deleted, view>>

Close ==
    /\ closed' = TRUE
    /\ UNCHANGED <<log, deleted, view>>

\* The package is deleted.
Delete ==
    /\ log' = <<>> /\ closed' = TRUE
    /\ deleted' = deleted \cup Range(log)
    /\ UNCHANGED view

\* The daemon dies: the log stays as it is, and whoever follows is cut off.
Crash ==
    /\ closed' = TRUE
    /\ view' = [f \in Followers |->
                  IF view[f].state = "following" THEN [view[f] EXCEPT !.state = "cut"] ELSE view[f]]
    /\ UNCHANGED <<log, deleted>>

Connect(f) ==
    /\ view[f].state = "waiting"
    /\ view' = [view EXCEPT ![f].state = "following"]
    /\ UNCHANGED <<log, closed, deleted>>

Hear(f, line) ==
    /\ view[f].state = "following" /\ line \in Range(log) \cup deleted
    /\ view' = [view EXCEPT ![f].heard = @ \cup {line}]
    /\ UNCHANGED <<log, closed, deleted>>

\* "done", with the log for good, or with nothing once it is deleted.
Tell(f) ==
    /\ view[f].state \in {"waiting", "following"} /\ closed
    /\ view' = [view EXCEPT ![f].state = "told", ![f].tail = log]
    /\ UNCHANGED <<log, closed, deleted>>

\* "done", of a build that had no channel yet, or with a log that could not be
\* read.
TellPart(f, t) ==
    /\ view[f].state \in {"waiting", "following"}
    /\ t \in {log, view[f].tail}
    /\ view' = [view EXCEPT ![f].state = "partly", ![f].tail = t]
    /\ UNCHANGED <<log, closed, deleted>>

Next ==
    \/ \E s \in Streams, i \in 1..MaxLines : Store(s, i)
    \/ Close \/ Delete \/ Crash
    \/ \E f \in Followers :
         \/ Connect(f) \/ Tell(f)
         \/ \E line \in Range(log) \cup deleted : Hear(f, line)
         \/ \E t \in {log, view[f].tail} : TellPart(f, t)

Spec == Init /\ [][Next]_lvars
=============================================================================
