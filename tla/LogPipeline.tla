---------------------------- MODULE LogPipeline ----------------------------
(***************************************************************************)
(* The log of one build: the pumps of stdout and stderr, the build_logs    *)
(* table, the broadcast channel, and the followers of stream_logs (`paur   *)
(* logs --follow` and the build page).  A line is its pump and its number. *)
(* The package may be deleted under the build or after it, and its builds  *)
(* and their logs with it (ON DELETE CASCADE); an id is never used again.  *)
(***************************************************************************)
EXTENDS Naturals, Sequences, FiniteSets, Functions

CONSTANTS
    Pumps,       \* out_task and err_task
    Followers,   \* SSE connections
    MaxLines,    \* lines of each pump
    Capacity,    \* of the broadcast channel
    MaxErrors    \* statements that fail

ASSUME LogAssumption ==
    /\ MaxLines \in Nat /\ MaxErrors \in Nat /\ Capacity \in Nat \ {0}
    /\ IsFiniteSet(Pumps) /\ Pumps # {}

VARIABLES
    log,        \* build_logs, by seq
    row,        \* the builds table has the build
    gone,       \* history: the log that was deleted with the package
    pump,       \* per pump: [pc, line, seq]
    chan,       \* log_channels has the build
    sent,       \* what was sent on the channel
    wpc,        \* process_one: "run", "drain", "finish", "over"; "leaked": it
                \* returned early; "dead": the daemon died
    follower,   \* per follower: [pc, pos, live, tail, partial]
    lost,       \* history: inserts refused by the primary key
    errors

vars == <<log, row, gone, pump, chan, sent, wpc, follower, lost, errors>>

Init ==
    /\ log = <<>> /\ row = TRUE /\ gone = <<>> /\ chan = FALSE /\ sent = <<>> /\ wpc = "run"
    /\ pump = [p \in Pumps |-> [pc |-> "read", line |-> 0, seq |-> 0]]
    /\ follower = [f \in Followers |-> [pc |-> "idle", pos |-> 0, live |-> {},
                                        tail |-> <<>>, partial |-> FALSE]]
    /\ lost = 0 /\ errors = 0

PGoto(p, l) == pump' = [pump EXCEPT ![p].pc = l]
Line(p) == <<p, pump[p].line>>

------------------------------------------------------------------------------
(* The pumps of run_in_container, and DbLogSink::write *)

next_line(p) ==
    /\ pump[p].pc = "read" /\ pump[p].line < MaxLines
    /\ pump' = [pump EXCEPT ![p].pc = "select", ![p].line = @ + 1]
    /\ UNCHANGED <<log, row, gone, chan, sent, wpc, follower, lost, errors>>

\* End of file when the container is gone; before that when it closes the stream
\* or a line cannot be read.
next_line_eof(p) ==
    /\ pump[p].pc = "read"
    /\ PGoto(p, "eof")
    /\ UNCHANGED <<log, row, gone, chan, sent, wpc, follower, lost, errors>>

\* Mutant: the greatest seq itself.
append_log_select_max(p) ==
    /\ pump[p].pc = "select"
    /\ pump' = [pump EXCEPT ![p].pc = "insert", ![p].seq = Len(log)]
    /\ UNCHANGED <<log, row, gone, chan, sent, wpc, follower, lost, errors>>

append_log_select(p) ==
    /\ pump[p].pc = "select"
    /\ pump' = [pump EXCEPT ![p].pc = "insert", ![p].seq = Len(log) + 1]
    /\ UNCHANGED <<log, row, gone, chan, sent, wpc, follower, lost, errors>>

\* The primary key has no such seq yet, and the foreign key its build.
Accepts(p) == row /\ pump[p].seq = Len(log) + 1

\* History: only what the primary key refuses counts as lost.
Refuse(p) == PGoto(p, "read") /\ lost' = (IF row THEN lost + 1 ELSE lost) /\ UNCHANGED log

\* Mutant: a refused line is sent to the followers all the same.
append_log_insert_fanout(p) ==
    /\ pump[p].pc = "insert"
    /\ \/ Accepts(p) /\ log' = Append(log, Line(p)) /\ UNCHANGED lost /\ PGoto(p, "channel")
       \/ ~Accepts(p) /\ UNCHANGED <<log, lost>> /\ PGoto(p, "channel")
    /\ UNCHANGED <<row, gone, chan, sent, wpc, follower, errors>>

\* Mutant: a line is appended again after its insert.
append_log_insert_twice(p) ==
    /\ pump[p].pc = "insert"
    /\ \/ Accepts(p) /\ log' = Append(log, Line(p)) /\ UNCHANGED lost /\ PGoto(p, "select")
       \/ ~Accepts(p) /\ Refuse(p)
    /\ UNCHANGED <<row, gone, chan, sent, wpc, follower, errors>>

\* Mutant: build_logs has no foreign key.
append_log_insert_orphan(p) ==
    /\ pump[p].pc = "insert"
    /\ IF pump[p].seq = Len(log) + 1
       THEN log' = Append(log, Line(p)) /\ UNCHANGED lost /\ PGoto(p, "channel")
       ELSE Refuse(p)
    /\ UNCHANGED <<row, gone, chan, sent, wpc, follower, errors>>

\* The primary key refuses a seq the other pump took in between, the foreign key
\* a build that is no more; the pump drops the line and the error.
append_log_insert(p) ==
    /\ pump[p].pc = "insert"
    /\ \/ Accepts(p) /\ log' = Append(log, Line(p)) /\ UNCHANGED lost /\ PGoto(p, "channel")
       \/ ~Accepts(p) /\ Refuse(p)
    /\ UNCHANGED <<row, gone, chan, sent, wpc, follower, errors>>

append_log_error(p) ==
    /\ pump[p].pc \in {"select", "insert"} /\ errors < MaxErrors
    /\ errors' = errors + 1
    /\ PGoto(p, "read")
    /\ UNCHANGED <<log, row, gone, chan, sent, wpc, follower, lost>>

\* channel_for makes the channel when the first line comes, and the line is sent.
channel_for_send(p) ==
    /\ pump[p].pc = "channel"
    /\ chan' = TRUE
    /\ sent' = Append(sent, Line(p))
    /\ PGoto(p, "read")
    /\ UNCHANGED <<log, row, gone, wpc, follower, lost, errors>>

------------------------------------------------------------------------------
(* process_one, seen from the log *)

\* Mutant: the pumps are not awaited.
container_exit_undrained ==
    /\ wpc = "run"
    /\ wpc' = "finish"
    /\ UNCHANGED <<log, row, gone, pump, chan, sent, follower, lost, errors>>

\* The container exits, is killed, or waiting for it fails.
container_exit ==
    /\ wpc = "run"
    /\ \/ wpc' = "drain" /\ UNCHANGED errors
       \/ wpc' = "leaked" /\ errors < MaxErrors /\ errors' = errors + 1
    /\ UNCHANGED <<log, row, gone, pump, chan, sent, follower, lost>>

drain ==
    /\ wpc = "drain"
    /\ \A p \in Pumps : pump[p].pc = "eof"
    /\ wpc' = "finish"
    /\ UNCHANGED <<log, row, gone, pump, chan, sent, follower, lost, errors>>

\* Mutant: the channel stays in the map.
drop_channel_kept ==
    /\ wpc = "finish"
    /\ wpc' = "over"
    /\ UNCHANGED <<log, row, gone, pump, chan, sent, follower, lost, errors>>

\* finish_build, the publish, and drop_channel; a failed finish_build returns
\* before.
drop_channel ==
    /\ wpc = "finish"
    /\ wpc' = "over" /\ chan' = FALSE
    /\ UNCHANGED <<log, row, gone, pump, sent, follower, lost, errors>>

finish_error ==
    /\ wpc = "finish" /\ errors < MaxErrors
    /\ errors' = errors + 1
    /\ wpc' = "leaked"
    /\ UNCHANGED <<log, row, gone, pump, chan, sent, follower, lost>>

\* DELETE of the package takes its builds and their logs, and asks for no state;
\* the container, the channel and the pumps stay.
delete_package ==
    /\ row
    /\ row' = FALSE /\ log' = <<>> /\ gone' = log
    /\ UNCHANGED <<pump, chan, sent, wpc, follower, lost, errors>>

\* The daemon dies: the rows stay, connections and channels do not.
crash ==
    /\ wpc # "dead"
    /\ wpc' = "dead" /\ chan' = FALSE
    /\ pump' = [p \in Pumps |-> [pump[p] EXCEPT !.pc = "eof"]]
    /\ follower' = [f \in Followers |->
                     [follower[f] EXCEPT !.pc = IF @ \in {"live", "final"} THEN "cut" ELSE @]]
    /\ UNCHANGED <<log, row, gone, sent, lost, errors>>

------------------------------------------------------------------------------
(* stream_logs *)

\* Under the lock of the map: subscribe, or the stored lines and "done".
stream_logs(f) ==
    /\ follower[f].pc = "idle"
    /\ follower' = [follower EXCEPT ![f] =
         IF chan THEN [@ EXCEPT !.pc = "live", !.pos = Len(sent)]
         ELSE [@ EXCEPT !.pc = "done", !.tail = log, !.partial = wpc \notin {"over", "dead"}]]
    /\ UNCHANGED <<log, row, gone, pump, chan, sent, wpc, lost, errors>>

\* A receiver that lags behind the capacity goes on at the oldest line kept.
recv(f) ==
    LET pos == follower[f].pos
        at  == IF Len(sent) - pos > Capacity THEN Len(sent) - Capacity ELSE pos
    IN
    /\ follower[f].pc = "live" /\ pos < Len(sent)
    /\ follower' = [follower EXCEPT ![f].pos = at + 1, ![f].live = @ \cup {sent[at + 1]}]
    /\ UNCHANGED <<log, row, gone, pump, chan, sent, wpc, lost, errors>>

recv_closed(f) ==
    /\ follower[f].pc = "live" /\ ~chan /\ follower[f].pos = Len(sent)
    /\ follower' = [follower EXCEPT ![f].pc = "final"]
    /\ UNCHANGED <<log, row, gone, pump, chan, sent, wpc, lost, errors>>

\* The whole stored log, or nothing if it cannot be read, and "done".
read_logs(f) ==
    /\ follower[f].pc = "final"
    /\ \/ follower' = [follower EXCEPT ![f].pc = "done", ![f].tail = log] /\ UNCHANGED errors
       \/ /\ errors < MaxErrors /\ errors' = errors + 1
          /\ follower' = [follower EXCEPT ![f].pc = "done", ![f].partial = TRUE]
    /\ UNCHANGED <<log, row, gone, pump, chan, sent, wpc, lost>>

------------------------------------------------------------------------------

Write(p)  == append_log_select(p) \/ append_log_insert(p) \/ channel_for_send(p)
Follow(f) == recv(f) \/ recv_closed(f) \/ read_logs(f)
Process   == container_exit \/ drain \/ drop_channel

Next ==
    \/ \E p \in Pumps : next_line(p) \/ next_line_eof(p) \/ Write(p) \/ append_log_error(p)
    \/ Process \/ finish_error \/ delete_package \/ crash
    \/ \E f \in Followers : stream_logs(f) \/ Follow(f)

Spec == Init /\ [][Next]_vars

\* Tasks run, containers exit, their pipes then end, and clients read.
FairSpec ==
    /\ Spec /\ WF_vars(Process)
    /\ \A p \in Pumps : WF_vars(Write(p)) /\ WF_vars(wpc # "run" /\ next_line_eof(p))
    /\ \A f \in Followers : WF_vars(Follow(f))

------------------------------------------------------------------------------
(* Properties *)

Lines == Pumps \X (1..MaxLines)

Pump == [pc : {"read", "select", "insert", "channel", "eof"}, line : 0..MaxLines, seq : Nat]

\* Rows, pumps and followers are of their kind, and a line is stored once.
TypeOK ==
    /\ Range(log) \subseteq Lines /\ IsInjective(log)
    /\ row \in BOOLEAN /\ Range(gone) \subseteq Lines
    /\ pump \in [Pumps -> Pump]
    /\ chan \in BOOLEAN /\ Range(sent) \subseteq Lines
    /\ wpc \in {"run", "drain", "finish", "over", "leaked", "dead"}
    /\ \A f \in Followers :
         /\ follower[f].pc \in {"idle", "live", "final", "done", "cut"}
         /\ follower[f].pos \in 0..Len(sent)
         /\ follower[f].live \subseteq Lines /\ follower[f].partial \in BOOLEAN
    /\ lost \in Nat /\ errors \in 0..MaxErrors

\* Every line the build has stored, deleted with the package or not.
Ever == IF row THEN log ELSE gone

\* "done" is final: the log that a follower got before it is the build's log for
\* as long as the package is there.  Of a package that was deleted it is the whole
\* log that went, or nothing.  Except where the build had no channel yet and was
\* not over, or where the log could not be read.
DoneIsFinal ==
    \A f \in Followers :
        (follower[f].pc = "done" /\ ~follower[f].partial) =>
            IF row THEN follower[f].tail = log ELSE follower[f].tail \in {gone, <<>>}

\* What a follower saw live is stored until the package is deleted, though it came
\* from two pumps, some lines are refused and a receiver that lags skips some;
\* and no line is shown of a build that is no more but those it had stored.
LiveIsStored == \A f \in Followers : follower[f].live \subseteq Range(Ever)

\* The race of the pumps for a seq costs at most one line of each other pump for
\* every line that was stored.
CollisionsBounded == lost <= (Cardinality(Pumps) - 1) * Len(Ever)

\* A follower is told "done", or cut off with the daemon, or process_one returned
\* early and left the channel in the map.
FollowEnds ==
    \A f \in Followers :
        follower[f].pc = "live" ~> (follower[f].pc \in {"done", "cut"} \/ wpc = "leaked")

\* The log, its followers and what they are told, as BuildLog has them: no line is
\* added any more once both pumps are at their end, or the build is no more.
Closed == ~row \/ \A p \in Pumps : pump[p].pc = "eof"

View(r) ==
    [state |-> CASE r.pc = "idle" -> "waiting"
                 [] r.pc \in {"live", "final"} -> "following"
                 [] r.pc = "done" -> IF r.partial THEN "partly" ELSE "told"
                 [] OTHER -> "cut",
     heard |-> r.live, tail |-> r.tail]

Views == [f \in Followers |-> View(follower[f])]

Told == INSTANCE BuildLog WITH Streams <- Pumps, closed <- Closed,
                              deleted <- Range(gone), view <- Views

\* The log only grows, each stream in its order and never twice, until it is
\* closed, and goes at most once, whole; a follower hears lines that are or were
\* stored and is told the end with the closed log, or with a part, or is cut off:
\* whatever two pumps race for, whichever statement fails and whenever the package
\* is deleted.
ImplementsBuildLog == Told!Spec

\* builder/lib.rs:11-12: each line goes to the LogSink for persistence.
EveryLineStored ==
    (row /\ wpc = "over" /\ errors = 0) =>
        \A p \in Pumps : \A i \in 1..pump[p].line : <<p, i>> \in Range(log)

\* stream_logs' promise of an end for whoever follows (api.rs:611-613).
EveryFollowEnds ==
    \A f \in Followers : follower[f].pc = "live" ~> follower[f].pc \in {"done", "cut"}
=============================================================================
