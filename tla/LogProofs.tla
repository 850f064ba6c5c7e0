------------------------------- MODULE LogProofs -------------------------------
(***************************************************************************)
(* What a follower is told, how many lines are lost, and type correctness, *)
(* for any number of pumps, followers, lines, failed statements and any    *)
(* capacity, and whenever the package and its log are deleted.             *)
(* LiveIsStored needs that a line is stored before its pump comes to send  *)
(* it (Stored); DoneIsFinal that nobody writes once the channel is dropped,*)
(* and that a channel which closes under a follower was dropped (Drained,  *)
(* Ended).  CollisionsBounded counts: each stored line makes stale the     *)
(* numbers of at most all other pumps (Overtaken).  What was ever stored   *)
(* (Ever) is what survives a deletion in these arguments.                  *)
(***************************************************************************)
EXTENDS LogPipeline, FiniteSetTheorems, TLAPS

AnyLine  == Pumps \X Nat
PumpRec  == [pc : {"read", "select", "insert", "channel", "eof"}, line : Nat, seq : Nat]
Follower == [pc : {"idle", "live", "final", "done", "cut"}, pos : Nat, live : SUBSET AnyLine,
             tail : Seq(AnyLine), partial : BOOLEAN]

LTypes ==
    /\ log \in Seq(AnyLine) /\ sent \in Seq(AnyLine) /\ gone \in Seq(AnyLine)
    /\ row \in BOOLEAN /\ (IF row THEN gone ELSE log) = <<>>
    /\ pump \in [Pumps -> PumpRec]
    /\ follower \in [Followers -> Follower]
    /\ chan \in BOOLEAN

\* What is sent, or is about to be, is stored, or went with the package.
Stored ==
    /\ \A i \in DOMAIN sent : sent[i] \in Range(Ever)
    /\ \A p \in Pumps : pump[p].pc = "channel" => Line(p) \in Range(Ever)

\* From the end of the drain on no pump writes.
Drained == wpc \in {"finish", "over", "dead"} => \A p \in Pumps : pump[p].pc = "eof"

\* A follower is on the channel, or the channel was dropped at the end of the
\* build; one that has what it was promised got it after the end.
Ended ==
    \A f \in Followers :
        /\ follower[f].pc = "live" => chan \/ wpc = "over"
        /\ follower[f].pc = "final" => wpc = "over"
        /\ follower[f].pc = "done" /\ ~follower[f].partial => wpc \in {"over", "dead"}

LInv == LTypes /\ Stored /\ LiveIsStored /\ Drained /\ Ended /\ DoneIsFinal

------------------------------------------------------------------------------

\* A line that is stored stays stored.
LEMMA AppendStores ==
    ASSUME NEW s \in Seq(AnyLine), NEW x \in AnyLine
    PROVE  /\ Append(s, x) \in Seq(AnyLine)
           /\ Range(s) \subseteq Range(Append(s, x))
           /\ x \in Range(Append(s, x))
<1>1. DOMAIN s = 1..Len(s) /\ Len(s) \in Nat /\ DOMAIN Append(s, x) = 1..(Len(s) + 1)
  OBVIOUS
<1>2. \A i \in DOMAIN s : Append(s, x)[i] = s[i] /\ i \in DOMAIN Append(s, x)
  BY <1>1
<1>3. Append(s, x)[Len(s) + 1] = x /\ Len(s) + 1 \in DOMAIN Append(s, x)
  BY <1>1
<1>. QED  BY <1>2, <1>3 DEF Range

\* A line names its pump.
LEMMA LineType == ASSUME LTypes, NEW p \in Pumps PROVE Line(p) \in AnyLine
  BY DEF LTypes, Line, AnyLine, PumpRec

\* Nothing is stored, sent or followed before the container starts.
LEMMA InitLInv == Init => LInv
<1>. SUFFICES ASSUME Init PROVE LInv
  OBVIOUS
<1>1. <<>> \in Seq(AnyLine) /\ DOMAIN <<>> = {}
  OBVIOUS
<1>2. [pc |-> "idle", pos |-> 0, live |-> {}, tail |-> <<>>, partial |-> FALSE] \in Follower
  BY <1>1 DEF Follower
<1>3. [pc |-> "read", line |-> 0, seq |-> 0] \in PumpRec
  BY DEF PumpRec
<1>4. LTypes
  BY <1>1, <1>2, <1>3 DEF Init, LTypes
<1>5. Stored /\ Drained
  BY <1>1 DEF Init, Stored, Drained
<1>6. LiveIsStored /\ Ended /\ DoneIsFinal
  BY DEF Init, LiveIsStored, Ended, DoneIsFinal
<1>. QED  BY <1>4, <1>5, <1>6 DEF LInv

\* A pump that goes on keeps its line, and the other pumps are where they were.
LEMMA PumpGoes ==
    ASSUME pump \in [Pumps -> PumpRec], NEW p \in Pumps,
           NEW l \in {"read", "select", "insert", "channel", "eof"}, PGoto(p, l)
    PROVE  /\ pump' \in [Pumps -> PumpRec]
           /\ pump'[p].pc = l /\ Line(p)' = Line(p)
           /\ \A q \in Pumps \ {p} : pump'[q] = pump[q] /\ Line(q)' = Line(q)
<1>1. pump[p] \in PumpRec
  OBVIOUS
<1>2. [pump[p] EXCEPT !.pc = l] \in PumpRec
  BY <1>1 DEF PumpRec
<1>3. pump' = [pump EXCEPT ![p] = [pump[p] EXCEPT !.pc = l]]
  BY DEF PGoto
<1>4. pump'[p] = [pump[p] EXCEPT !.pc = l] /\ \A q \in Pumps \ {p} : pump'[q] = pump[q]
  BY <1>3
<1>5. pump'[p].pc = l /\ pump'[p].line = pump[p].line
  BY <1>1, <1>4 DEF PumpRec
<1>. QED  BY <1>2, <1>3, <1>4, <1>5 DEF Line

\* What was stored is not touched but by an insert.
LEMMA SameEver == ASSUME UNCHANGED <<log, row, gone>> PROVE Ever' = Ever
  BY DEF Ever

\* A pump between two statements has nothing to send, and writes only before
\* the drain.
LEMMA PumpLInv ==
    ASSUME LInv, UNCHANGED <<log, row, gone, sent, chan, wpc, follower>>, NEW p \in Pumps,
           pump' \in [Pumps -> PumpRec],
           \A q \in Pumps \ {p} : pump'[q] = pump[q],
           pump'[p].pc # "channel",
           wpc \in {"finish", "over", "dead"} => pump'[p].pc = "eof"
    PROVE  LInv'
<1>1. LTypes'
  BY DEF LInv, LTypes
<1>0. Ever' = Ever
  BY SameEver
<1>2. Stored'
  BY <1>0 DEF LInv, Stored, Line
<1>3. Drained'
  BY DEF LInv, Drained
<1>. QED  BY <1>0, <1>1, <1>2, <1>3 DEF LInv, LiveIsStored, Ended, DoneIsFinal

\* The steps of a pump between its statements.
LEMMA QuietLInv ==
    ASSUME LInv, NEW p \in Pumps,
           next_line(p) \/ next_line_eof(p) \/ append_log_select(p) \/ append_log_error(p)
    PROVE  LInv'
<1>1. pump \in [Pumps -> PumpRec] /\ pump[p] \in PumpRec /\ Len(log) \in Nat
  BY DEF LInv, LTypes
<1>2. pump[p].pc # "eof" => wpc \notin {"finish", "over", "dead"}
  BY DEF LInv, Drained
<1>3. CASE next_line(p)
  <2>. DEFINE n == pump[p].line + 1
  <2>0. n \in Nat
    BY <1>1 DEF PumpRec
  <2>2. pump' = [pump EXCEPT ![p] = [pump[p] EXCEPT !.pc = "select", !.line = n]]
    BY <1>3 DEF next_line
  <2>. HIDE DEF n
  <2>1. [pump[p] EXCEPT !.pc = "select", !.line = n] \in PumpRec
    BY <1>1, <2>0 DEF PumpRec
  <2>3. pump'[p].pc = "select"
    BY <1>1, <2>2 DEF PumpRec
  <2>4. pump' \in [Pumps -> PumpRec] /\ \A q \in Pumps \ {p} : pump'[q] = pump[q]
    BY <1>1, <2>1, <2>2
  <2>5. UNCHANGED <<log, row, gone, sent, chan, wpc, follower>> /\ pump[p].pc # "eof"
    BY <1>3 DEF next_line
  <2>. QED  BY <1>2, <2>3, <2>4, <2>5, PumpLInv
<1>4. CASE next_line_eof(p)
  BY <1>1, <1>4, PumpGoes, PumpLInv DEF next_line_eof
<1>5. CASE append_log_select(p)
  <2>. DEFINE n == Len(log) + 1
  <2>0. n \in Nat
    BY <1>1 DEF PumpRec
  <2>2. pump' = [pump EXCEPT ![p] = [pump[p] EXCEPT !.pc = "insert", !.seq = n]]
    BY <1>5 DEF append_log_select
  <2>. HIDE DEF n
  <2>1. [pump[p] EXCEPT !.pc = "insert", !.seq = n] \in PumpRec
    BY <1>1, <2>0 DEF PumpRec
  <2>3. pump'[p].pc = "insert"
    BY <1>1, <2>2 DEF PumpRec
  <2>4. pump' \in [Pumps -> PumpRec] /\ \A q \in Pumps \ {p} : pump'[q] = pump[q]
    BY <1>1, <2>1, <2>2
  <2>5. UNCHANGED <<log, row, gone, sent, chan, wpc, follower>> /\ pump[p].pc # "eof"
    BY <1>5 DEF append_log_select
  <2>. QED  BY <1>2, <2>3, <2>4, <2>5, PumpLInv
<1>6. CASE append_log_error(p)
  <2>1. pump[p].pc # "eof" /\ UNCHANGED <<log, row, gone, sent, chan, wpc, follower>> /\ PGoto(p, "read")
    BY <1>6 DEF append_log_error
  <2>. QED  BY <1>1, <1>2, <2>1, PumpGoes, PumpLInv
<1>. QED  BY <1>3, <1>4, <1>5, <1>6

\* append_log's insert, accepted: the build is there, and the line is stored.
LEMMA InsertAccepted ==
    ASSUME LInv, NEW p \in Pumps, append_log_insert(p), Accepts(p)
    PROVE  /\ row /\ row' /\ log' = Append(log, Line(p)) /\ PGoto(p, "channel")
           /\ Ever = log /\ Ever' = log' /\ UNCHANGED <<gone, lost>>
  BY DEF append_log_insert, Accepts, Ever

\* And refused, by the primary key or the foreign key.
LEMMA InsertRefused ==
    ASSUME LInv, NEW p \in Pumps, append_log_insert(p), ~Accepts(p)
    PROVE  /\ UNCHANGED <<log, row, gone>> /\ Ever' = Ever /\ PGoto(p, "read")
           /\ lost' = IF row THEN lost + 1 ELSE lost
  BY DEF append_log_insert, Refuse, Ever

LEMMA InsertLInv == ASSUME LInv, NEW p \in Pumps, append_log_insert(p) PROVE LInv'
<1>1. UNCHANGED <<sent, chan, wpc, follower>> /\ pump[p].pc = "insert"
  BY DEF append_log_insert
<1>2. wpc \notin {"finish", "over", "dead"}
  BY <1>1 DEF LInv, Drained
<1>3. Line(p) \in AnyLine /\ log \in Seq(AnyLine) /\ pump \in [Pumps -> PumpRec]
  BY LineType DEF LInv, LTypes
<1>4. CASE Accepts(p)
  <2>0. /\ row /\ row' /\ log' = Append(log, Line(p)) /\ PGoto(p, "channel")
        /\ Ever = log /\ Ever' = log' /\ UNCHANGED gone
    BY <1>4, InsertAccepted
  <2>1. /\ pump' \in [Pumps -> PumpRec] /\ Line(p)' = Line(p)
        /\ \A q \in Pumps \ {p} : pump'[q] = pump[q] /\ Line(q)' = Line(q)
    BY <1>3, <2>0, PumpGoes
  <2>2. log' \in Seq(AnyLine) /\ Range(Ever) \subseteq Range(Ever') /\ Line(p) \in Range(Ever')
    BY <1>3, <2>0, AppendStores
  <2>3. LTypes'
    BY <1>1, <2>0, <2>1, <2>2 DEF LInv, LTypes
  <2>4. Stored'
    <3>1. \A i \in DOMAIN sent : sent[i] \in Range(Ever')
      BY <2>2 DEF LInv, Stored
    <3>2. ASSUME NEW q \in Pumps, pump'[q].pc = "channel" PROVE Line(q)' \in Range(Ever')
      BY <2>1, <2>2, <3>2 DEF LInv, Stored
    <3>3. Range(Ever)' = Range(Ever')
      BY DEF Range
    <3>. QED  BY <1>1, <3>1, <3>2, <3>3 DEF Stored
  <2>5. Drained' /\ Ended'
    BY <1>1, <1>2 DEF LInv, Drained, Ended
  <2>6. DoneIsFinal'
    BY <1>1, <1>2 DEF LInv, Ended, DoneIsFinal
  <2>7. LiveIsStored'
    BY <1>1, <2>2 DEF LInv, LiveIsStored, Range
  <2>. QED  BY <2>3, <2>4, <2>5, <2>6, <2>7 DEF LInv
<1>5. CASE ~Accepts(p)
  BY <1>1, <1>2, <1>3, <1>5, InsertRefused, PumpGoes, PumpLInv
<1>. QED  BY <1>4, <1>5

\* The fan-out of a stored line.
LEMMA SendLInv == ASSUME LInv, NEW p \in Pumps, channel_for_send(p) PROVE LInv'
<1>1. /\ UNCHANGED <<log, row, gone, wpc, follower>> /\ pump[p].pc = "channel" /\ chan' = TRUE
      /\ sent' = Append(sent, Line(p)) /\ PGoto(p, "read")
  BY DEF channel_for_send
<1>2. /\ Line(p) \in AnyLine /\ Line(p) \in Range(Ever)
      /\ sent \in Seq(AnyLine) /\ pump \in [Pumps -> PumpRec]
  BY <1>1, LineType DEF LInv, LTypes, Stored
<1>3. /\ pump' \in [Pumps -> PumpRec] /\ pump'[p].pc = "read"
      /\ \A q \in Pumps \ {p} : pump'[q] = pump[q] /\ Line(q)' = Line(q)
  BY <1>1, <1>2, PumpGoes
<1>4. LTypes'
  BY <1>1, <1>2, <1>3, AppendStores DEF LInv, LTypes
<1>5. \A i \in DOMAIN sent' : sent'[i] \in Range(Ever)
  BY <1>1, <1>2 DEF LInv, Stored
<1>6. Range(Ever)' = Range(Ever)
  BY <1>1, SameEver DEF Range
<1>7. Stored'
  BY <1>1, <1>3, <1>5, <1>6 DEF LInv, Stored
<1>8. wpc \notin {"finish", "over", "dead"}
  BY <1>1 DEF LInv, Drained
<1>9. Drained' /\ Ended'
  BY <1>1, <1>8 DEF LInv, Drained, Ended
<1>. QED  BY <1>1, <1>4, <1>6, <1>7, <1>9 DEF LInv, LiveIsStored, DoneIsFinal

\* process_one: the exit, the drain and the end of the channel.
LEMMA ProcessLInv == ASSUME LInv, Process \/ finish_error PROVE LInv'
<1>. USE DEF LInv, Process, container_exit, drain, drop_channel, finish_error
<1>1. UNCHANGED <<log, row, gone, sent, pump, follower>>
  OBVIOUS
<1>2. LTypes' /\ Stored' /\ LiveIsStored' /\ DoneIsFinal'
  BY <1>1, SameEver DEF LTypes, Stored, Line, LiveIsStored, DoneIsFinal
<1>3. Drained'
  BY <1>1 DEF Drained
<1>4. Ended'
  BY <1>1 DEF Ended
<1>. QED  BY <1>2, <1>3, <1>4

\* The daemon dies, and its pumps and connections with it.
LEMMA CrashLInv == ASSUME LInv, crash PROVE LInv'
<1>1. UNCHANGED <<log, row, gone, sent>> /\ wpc' = "dead" /\ chan' = FALSE
  BY DEF crash
<1>2. pump \in [Pumps -> PumpRec] /\ follower \in [Followers -> Follower]
  BY DEF LInv, LTypes
<1>3. ASSUME NEW p \in Pumps PROVE pump'[p] \in PumpRec /\ pump'[p].pc = "eof"
  <2>1. pump[p] \in PumpRec /\ pump'[p] = [pump[p] EXCEPT !.pc = "eof"]
    BY <1>2 DEF crash
  <2>. QED  BY <2>1 DEF PumpRec
<1>4. ASSUME NEW f \in Followers
      PROVE  /\ follower'[f] \in Follower
             /\ follower'[f].pc \notin {"live", "final"}
             /\ follower'[f].live = follower[f].live
             /\ follower'[f].tail = follower[f].tail
             /\ follower'[f].partial = follower[f].partial
             /\ follower'[f].pc = "done" => follower[f].pc = "done"
  <2>1. /\ follower[f] \in Follower
        /\ follower'[f] = [follower[f] EXCEPT !.pc = IF @ \in {"live", "final"} THEN "cut" ELSE @]
    BY <1>2 DEF crash
  <2>. QED  BY <2>1 DEF Follower
<1>5. pump' \in [Pumps -> PumpRec] /\ follower' \in [Followers -> Follower]
  <2>1. pump' = [p \in Pumps |-> pump'[p]] /\ follower' = [f \in Followers |-> follower'[f]]
    BY DEF crash
  <2>. QED  BY <1>3, <1>4, <2>1
<1>6. LTypes'
  BY <1>1, <1>5 DEF LInv, LTypes
<1>7. Stored' /\ Drained'
  BY <1>1, <1>3, SameEver DEF LInv, Stored, Drained, Range
<1>8. LiveIsStored'
  BY <1>1, <1>4, SameEver DEF LInv, LiveIsStored, Range
<1>9. Ended' /\ DoneIsFinal'
  BY <1>1, <1>4 DEF LInv, Ended, DoneIsFinal
<1>. QED  BY <1>6, <1>7, <1>8, <1>9 DEF LInv

\* The cascade takes the whole log, and what was said of it.
LEMMA DeleteLInv == ASSUME LInv, delete_package PROVE LInv'
<1>1. /\ row /\ row' = FALSE /\ log' = <<>> /\ gone' = log /\ Ever' = Ever
      /\ UNCHANGED <<sent, pump, follower, chan, wpc>>
  BY DEF delete_package, Ever
<1>2. LTypes'
  <2>1. <<>> \in Seq(AnyLine)
    OBVIOUS
  <2>. QED  BY <1>1, <2>1 DEF LInv, LTypes
<1>3. Stored' /\ LiveIsStored' /\ Drained' /\ Ended'
  BY <1>1 DEF LInv, Stored, Line, LiveIsStored, Drained, Ended
<1>4. DoneIsFinal'
  BY <1>1 DEF LInv, DoneIsFinal
<1>. QED  BY <1>2, <1>3, <1>4 DEF LInv

\* A follower that keeps the invariant's promises to itself keeps the invariant.
LEMMA FollowerLInv ==
    ASSUME LInv, UNCHANGED <<log, row, gone, sent, pump, chan, wpc>>, NEW f \in Followers, NEW r \in Follower,
           follower' = [follower EXCEPT ![f] = r],
           r.live \subseteq Range(Ever),
           r.pc = "live" => chan \/ wpc = "over",
           r.pc = "final" => wpc = "over",
           r.pc = "done" /\ ~r.partial => r.tail = log /\ wpc \in {"over", "dead"}
    PROVE  LInv'
<1>1. follower \in [Followers -> Follower]
  BY DEF LInv, LTypes
<1>2. /\ follower' \in [Followers -> Follower] /\ follower'[f] = r
      /\ \A g \in Followers \ {f} : follower'[g] = follower[g]
  BY <1>1
<1>3. LTypes'
  BY <1>2 DEF LInv, LTypes
<1>4. Stored' /\ Drained'
  BY SameEver DEF LInv, Stored, Drained, Line, Range
<1>5. LiveIsStored'
  BY <1>2, SameEver DEF LInv, LiveIsStored, Range
<1>6. Ended' /\ DoneIsFinal'
  BY <1>2 DEF LInv, LTypes, Ended, DoneIsFinal
<1>. QED  BY <1>3, <1>4, <1>5, <1>6 DEF LInv

\* What the invariant says of one follower.
LEMMA FollowerIs ==
    ASSUME LInv, NEW f \in Followers
    PROVE  /\ follower[f] \in Follower /\ follower[f].live \subseteq Range(Ever)
           /\ log \in Seq(AnyLine) /\ sent \in Seq(AnyLine) /\ gone \in Seq(AnyLine)
    /\ row \in BOOLEAN /\ (IF row THEN gone ELSE log) = <<>>
  BY DEF LInv, LTypes, LiveIsStored

\* A new follower: the channel, or the stored lines.
LEMMA StreamLInv == ASSUME LInv, NEW f \in Followers, stream_logs(f) PROVE LInv'
<1>1. UNCHANGED <<log, row, gone, sent, pump, chan, wpc>> /\ Len(sent) \in Nat
  BY FollowerIs DEF stream_logs
<1>2. CASE chan
  <2>. DEFINE r == [follower[f] EXCEPT !.pc = "live", !.pos = Len(sent)]
  <2>1. follower' = [follower EXCEPT ![f] = r]
    BY <1>2 DEF stream_logs
  <2>2. r \in Follower /\ r.pc = "live" /\ r.live = follower[f].live
    BY <1>1, FollowerIs DEF Follower
  <2>. HIDE DEF r
  <2>. QED  BY <1>1, <1>2, <2>1, <2>2, FollowerIs, FollowerLInv
<1>3. CASE ~chan
  <2>. DEFINE r == [follower[f] EXCEPT !.pc = "done", !.tail = log,
                                       !.partial = wpc \notin {"over", "dead"}]
  <2>1. follower' = [follower EXCEPT ![f] = r]
    BY <1>3 DEF stream_logs
  <2>2. (wpc \notin {"over", "dead"}) \in BOOLEAN
    OBVIOUS
  <2>3. /\ r \in Follower /\ r.pc = "done" /\ r.live = follower[f].live /\ r.tail = log
        /\ r.partial = (wpc \notin {"over", "dead"})
    BY <2>2, FollowerIs DEF Follower
  <2>. HIDE DEF r
  <2>. QED  BY <1>1, <2>1, <2>3, FollowerIs, FollowerLInv
<1>. QED  BY <1>2, <1>3

\* A follower's next line, after those it was too slow for.
LEMMA RecvLInv == ASSUME LInv, NEW f \in Followers, recv(f) PROVE LInv'
<1>. DEFINE pos == follower[f].pos
            at  == IF Len(sent) - pos > Capacity THEN Len(sent) - Capacity ELSE pos
            n   == at + 1
            now == follower[f].live \cup {sent[n]}
            r   == [follower[f] EXCEPT !.pos = n, !.live = now]
<1>1. UNCHANGED <<log, row, gone, sent, pump, chan, wpc>> /\ follower[f].pc = "live" /\ pos < Len(sent)
  BY DEF recv
<1>2. pos \in Nat /\ Len(sent) \in Nat /\ DOMAIN sent = 1..Len(sent) /\ Capacity \in Nat \ {0}
  BY LogAssumption, FollowerIs DEF Follower
<1>3. n \in Nat /\ n \in DOMAIN sent
  BY <1>1, <1>2
<1>4. sent[n] \in Range(Ever) /\ sent[n] \in AnyLine
  BY <1>3, FollowerIs DEF LInv, Stored
<1>5. follower' = [follower EXCEPT ![f] = r]
  BY DEF recv
<1>. HIDE DEF at, pos, n
<1>6. now \in SUBSET AnyLine /\ now \subseteq Range(Ever)
  BY <1>4, FollowerIs DEF Follower
<1>. HIDE DEF now
<1>8. r \in Follower /\ r.pc = "live" /\ r.live = now
  BY <1>1, <1>3, <1>6, FollowerIs DEF Follower
<1>. HIDE DEF r
<1>7. chan \/ wpc = "over"
  BY <1>1 DEF LInv, Ended
<1>. QED  BY <1>1, <1>5, <1>6, <1>7, <1>8, FollowerIs, FollowerLInv

\* The end of a follower: the channel is closed, the stored log read.
LEMMA CloseLInv == ASSUME LInv, NEW f \in Followers, recv_closed(f) \/ read_logs(f) PROVE LInv'
<1>1. UNCHANGED <<log, row, gone, sent, pump, chan, wpc>>
  BY DEF recv_closed, read_logs
<1>2. wpc = "over"
  BY DEF LInv, Ended, recv_closed, read_logs
<1>3. PICK r \in Follower :
        /\ follower' = [follower EXCEPT ![f] = r]
        /\ r.live = follower[f].live /\ r.pc \in {"final", "done"}
        /\ r.pc = "done" /\ ~r.partial => r.tail = log
  <2>1. CASE follower' = [follower EXCEPT ![f].pc = "final"]
    <3>. DEFINE r == [follower[f] EXCEPT !.pc = "final"]
    <3>1. r \in Follower /\ r.live = follower[f].live /\ r.pc = "final"
      BY FollowerIs DEF Follower
    <3>. QED  BY <2>1, <3>1
  <2>2. CASE follower' = [follower EXCEPT ![f].pc = "done", ![f].tail = log]
    <3>. DEFINE r == [follower[f] EXCEPT !.pc = "done", !.tail = log]
    <3>1. r \in Follower /\ r.live = follower[f].live /\ r.pc = "done" /\ r.tail = log
      BY FollowerIs DEF Follower
    <3>. QED  BY <2>2, <3>1
  <2>3. CASE follower' = [follower EXCEPT ![f].pc = "done", ![f].partial = TRUE]
    <3>. DEFINE r == [follower[f] EXCEPT !.pc = "done", !.partial = TRUE]
    <3>1. r \in Follower /\ r.live = follower[f].live /\ r.pc = "done" /\ r.partial
      BY FollowerIs DEF Follower
    <3>. QED  BY <2>3, <3>1
  <2>. QED  BY <2>1, <2>2, <2>3 DEF recv_closed, read_logs
<1>. QED  BY <1>1, <1>2, <1>3, FollowerIs, FollowerLInv

\* Every step.
LEMMA NextLInv == LInv /\ [Next]_vars => LInv'
<1>. SUFFICES ASSUME LInv, [Next]_vars PROVE LInv'
  OBVIOUS
<1>1. CASE UNCHANGED vars
  BY <1>1, SameEver DEF vars, LInv, LTypes, Stored, LiveIsStored, Drained, Ended, DoneIsFinal, Line
<1>2. ASSUME NEW p \in Pumps, next_line(p) \/ next_line_eof(p) \/ Write(p) \/ append_log_error(p) PROVE LInv'
  <2>1. CASE next_line(p) \/ next_line_eof(p) \/ append_log_select(p) \/ append_log_error(p)
    BY <2>1, QuietLInv
  <2>2. CASE append_log_insert(p)
    BY <2>2, InsertLInv
  <2>3. CASE channel_for_send(p)
    BY <2>3, SendLInv
  <2>. QED  BY <1>2, <2>1, <2>2, <2>3 DEF Write
<1>3. ASSUME NEW f \in Followers, stream_logs(f) \/ Follow(f) PROVE LInv'
  <2>1. CASE stream_logs(f)
    BY <2>1, StreamLInv
  <2>2. CASE recv(f)
    BY <2>2, RecvLInv
  <2>3. CASE recv_closed(f) \/ read_logs(f)
    BY <2>3, CloseLInv
  <2>. QED  BY <1>3, <2>1, <2>2, <2>3 DEF Follow
<1>4. CASE Process \/ finish_error
  BY <1>4, ProcessLInv
<1>6. CASE delete_package
  BY <1>6, DeleteLInv
<1>5. CASE crash
  BY <1>5, CrashLInv
<1>. QED  BY <1>1, <1>2, <1>3, <1>4, <1>5, <1>6 DEF Next

\* The inductive invariant of the log.
THEOREM LogInvariance == Spec => []LInv
  BY InitLInv, NextLInv, PTL DEF Spec

\* What a follower saw live is stored, until it is deleted with the package
\* (worker.rs:457-480: the line is persisted, then sent).
THEOREM LiveStored == Spec => []LiveIsStored
<1>1. LInv => LiveIsStored
  BY DEF LInv
<1>. QED  BY <1>1, LogInvariance, PTL

\* The log a follower got before "done" is the build's as long as the package is
\* there, and of a deleted one the whole log or none (api.rs:637-656).
THEOREM DoneFinal == Spec => []DoneIsFinal
<1>1. LInv => DoneIsFinal
  BY DEF LInv
<1>. QED  BY <1>1, LogInvariance, PTL

------------------------------------------------------------------------------
(* What is stored, once, and how much is lost *)

\* A pump counts its lines, and has stored none beyond the one it is at, which it
\* stores once.
Numbers ==
    /\ \A p \in Pumps :
         /\ pump[p].line <= MaxLines
         /\ pump[p].pc \in {"select", "insert", "channel"} => pump[p].line # 0
    /\ \A i \in DOMAIN Ever, p \in Pumps : Ever[i][1] = p =>
         /\ Ever[i][2] \in 1..pump[p].line
         /\ pump[p].pc \in {"select", "insert"} => Ever[i][2] # pump[p].line
    /\ IsInjective(Ever)

Counts ==
    /\ wpc \in {"run", "drain", "finish", "over", "leaked", "dead"}
    /\ lost \in Nat /\ errors \in 0..MaxErrors
    /\ \A f \in Followers : follower[f].pos <= Len(sent)

\* The pumps whose seq was taken since they read it: their inserts will be
\* refused.
Stale == {p \in Pumps : row /\ pump[p].pc = "insert" /\ pump[p].seq # Len(log) + 1}

\* Every line lost, and every one that is going to be, was overtaken by a stored
\* one that came from another pump.
Overtaken == lost + Cardinality(Stale) <= (Cardinality(Pumps) - 1) * Len(Ever)

TInv == Numbers /\ Counts /\ Overtaken

LEMMA EverType == ASSUME LInv PROVE Ever \in Seq(AnyLine) /\ Len(Ever) \in Nat
  BY DEF LInv, LTypes, Ever

LEMMA CountPumps ==
    /\ Cardinality(Pumps) \in Nat /\ IsFiniteSet(Pumps)
    /\ \A S \in SUBSET Pumps : IsFiniteSet(S) /\ Cardinality(S) \in Nat
  BY LogAssumption, FS_CardinalityType, FS_Subset

\* A step that stores and loses nothing and makes no pump stale.
LEMMA OvertakenKept ==
    ASSUME LInv, Overtaken, lost \in Nat, UNCHANGED <<Ever, lost>>, Stale' \subseteq Stale
    PROVE  Overtaken'
<1>1. Stale \in SUBSET Pumps
  BY DEF Stale
<1>2. /\ IsFiniteSet(Stale) /\ Cardinality(Stale) \in Nat /\ Cardinality(Stale') \in Nat
      /\ Cardinality(Pumps) \in Nat
  BY <1>1, CountPumps
<1>3. Cardinality(Stale') <= Cardinality(Stale)
  BY <1>2, FS_Subset
<1>. DEFINE n == (Cardinality(Pumps) - 1) * Len(Ever)
            a == Cardinality(Stale)
            b == Cardinality(Stale')
<1>4. lost + a <= n /\ n \in Int
  <2>1. Len(Ever) \in Int /\ Cardinality(Pumps) - 1 \in Int
    BY <1>2, EverType
  <2>. QED  BY <2>1 DEF Overtaken
<1>5. lost + b <= n
  <2>. HIDE DEF a, b, n
  <2>1. a \in Nat /\ b \in Nat /\ b <= a
    BY <1>2, <1>3 DEF a, b
  <2>. QED  BY <1>4, <2>1
<1>. QED  BY <1>5 DEF Overtaken

\* The numbers stay right where pumps only go on to new lines.
LEMMA NumbersKept ==
    ASSUME LTypes, Numbers, UNCHANGED Ever, pump' \in [Pumps -> PumpRec],
           \A p \in Pumps :
             /\ pump'[p].line <= MaxLines /\ pump[p].line <= pump'[p].line
             /\ pump'[p].pc \in {"select", "insert"} =>
                  \/ pump[p].pc \in {"select", "insert"} /\ pump'[p].line = pump[p].line
                  \/ pump'[p].line # pump[p].line
             /\ pump'[p].pc = "channel" => pump[p].pc = "channel"
    PROVE  Numbers'
<1>1. \A p \in Pumps : /\ pump[p].line \in Nat /\ pump'[p].line \in Nat
  BY DEF LTypes, PumpRec
<1>2. ASSUME NEW p \in Pumps
      PROVE  /\ pump'[p].line <= MaxLines
             /\ pump'[p].pc \in {"select", "insert", "channel"} => pump'[p].line # 0
  BY <1>1 DEF Numbers
<1>3. ASSUME NEW i \in DOMAIN Ever, NEW p \in Pumps, Ever[i][1] = p
      PROVE  /\ Ever[i][2] \in 1..pump'[p].line
             /\ pump'[p].pc \in {"select", "insert"} => Ever[i][2] # pump'[p].line
  <2>1. /\ Ever[i][2] \in 1..pump[p].line
        /\ pump[p].pc \in {"select", "insert"} => Ever[i][2] # pump[p].line
    BY <1>3 DEF Numbers
  <2>. QED  BY <1>1, <2>1
<1>. QED  BY <1>2, <1>3 DEF Numbers

LEMMA InitTInv == Init => TInv
<1>. SUFFICES ASSUME Init PROVE TInv
  OBVIOUS
<1>1. \A p \in Pumps : pump[p].pc = "read" /\ pump[p].line = 0
  BY DEF Init
<1>2. Ever = <<>> /\ DOMAIN Ever = {} /\ Len(Ever) = 0
  BY DEF Init, Ever
<1>3. Numbers
  BY <1>1, <1>2, LogAssumption DEF Numbers, LogAssumption, IsInjective
<1>4. Counts
  BY LogAssumption DEF Init, Counts, LogAssumption
<1>5. Overtaken
  <2>1. Stale = {} /\ lost = 0
    BY <1>1 DEF Init, Stale
  <2>2. Cardinality(Stale) = 0 /\ Cardinality(Pumps) - 1 \in Int
    BY <2>1, FS_EmptySet, CountPumps
  <2>. QED  BY <1>2, <2>1, <2>2 DEF Overtaken
<1>. QED  BY <1>3, <1>4, <1>5 DEF TInv

\* A pump between its statements: its next line is one it has not stored, and
\* the seq it reads is the next.
LEMMA QuietTInv ==
    ASSUME LInv, TInv, NEW p \in Pumps,
           next_line(p) \/ next_line_eof(p) \/ append_log_select(p) \/ append_log_error(p)
    PROVE  TInv'
<1>0. /\ pump \in [Pumps -> PumpRec] /\ pump[p] \in PumpRec /\ Len(log) \in Nat
      /\ Numbers /\ Counts /\ Overtaken /\ lost \in Nat
      /\ MaxLines \in Nat /\ \A q \in Pumps : pump[q].line \in Nat /\ pump[q].line <= MaxLines
  BY LogAssumption DEF LInv, LTypes, TInv, Counts, LogAssumption, PumpRec, Numbers
<1>1. UNCHANGED <<log, row, gone, sent, wpc, follower, lost>>
  BY DEF next_line, next_line_eof, append_log_select, append_log_error
<1>2. Counts'
  <2>1. UNCHANGED errors \/ (errors < MaxErrors /\ errors' = errors + 1)
    BY DEF next_line, next_line_eof, append_log_select, append_log_error
  <2>2. errors' \in 0..MaxErrors
    BY <1>0, <2>1, LogAssumption DEF Counts, LogAssumption
  <2>. QED  BY <1>0, <1>1, <2>2 DEF Counts
<1>3. Numbers' /\ Stale' \subseteq Stale
  <2>1. CASE next_line(p)
    <3>. DEFINE n == pump[p].line + 1
    <3>1. n \in Nat /\ n <= MaxLines /\ n > pump[p].line
      BY <1>0, <2>1 DEF next_line, PumpRec
    <3>2. pump' = [pump EXCEPT ![p] = [pump[p] EXCEPT !.pc = "select", !.line = n]]
      BY <2>1 DEF next_line
    <3>. HIDE DEF n
    <3>3. [pump[p] EXCEPT !.pc = "select", !.line = n] \in PumpRec
      BY <1>0, <3>1 DEF PumpRec
    <3>4. /\ pump' \in [Pumps -> PumpRec] /\ pump'[p].pc = "select" /\ pump'[p].line = n
          /\ \A q \in Pumps \ {p} : pump'[q] = pump[q]
      BY <1>0, <3>2, <3>3 DEF PumpRec
    <3>5. Numbers'
      BY <1>0, <1>1, <3>1, <3>4, NumbersKept, SameEver DEF LInv
    <3>. QED  BY <1>1, <3>4, <3>5 DEF Stale
  <2>2. ASSUME NEW l \in {"eof", "read"}, PGoto(p, l) PROVE Numbers' /\ Stale' \subseteq Stale
    <3>1. /\ pump' \in [Pumps -> PumpRec] /\ pump'[p].pc = l /\ pump'[p].line = pump[p].line
          /\ \A q \in Pumps \ {p} : pump'[q] = pump[q]
      BY <1>0, <2>2, PumpGoes DEF Line
    <3>2. Numbers'
      BY <1>0, <1>1, <3>1, NumbersKept, SameEver DEF LInv
    <3>. QED  BY <1>1, <3>1, <3>2 DEF Stale
  <2>3. CASE append_log_select(p)
    <3>. DEFINE n == Len(log) + 1
    <3>1. n \in Nat
      BY <1>0
    <3>2. pump' = [pump EXCEPT ![p] = [pump[p] EXCEPT !.pc = "insert", !.seq = n]]
      BY <2>3 DEF append_log_select
    <3>3. pump[p].pc = "select"
      BY <2>3 DEF append_log_select
    <3>. HIDE DEF n
    <3>4. [pump[p] EXCEPT !.pc = "insert", !.seq = n] \in PumpRec
      BY <1>0, <3>1 DEF PumpRec
    <3>5. /\ pump' \in [Pumps -> PumpRec] /\ pump'[p].pc = "insert" /\ pump'[p].seq = n
          /\ pump'[p].line = pump[p].line /\ \A q \in Pumps \ {p} : pump'[q] = pump[q]
      BY <1>0, <3>2, <3>4 DEF PumpRec
    <3>6. Numbers'
      BY <1>0, <1>1, <3>3, <3>5, NumbersKept, SameEver DEF LInv
    <3>. QED  BY <1>1, <3>5, <3>6 DEF Stale, n
  <2>. QED  BY <2>1, <2>2, <2>3 DEF next_line_eof, append_log_error
<1>. QED  BY <1>0, <1>1, <1>2, <1>3, OvertakenKept, SameEver DEF TInv

\* An accepted insert can make every other pump stale, and no more.
LEMMA Accepted ==
    ASSUME LInv, TInv, NEW p \in Pumps, p \notin Stale', UNCHANGED lost,
           Len(Ever') = Len(Ever) + 1
    PROVE  Overtaken'
<1>. DEFINE n == Cardinality(Pumps)
            l == Len(Ever)
            a == Cardinality(Stale)
            b == Cardinality(Stale')
<1>1. Stale \in SUBSET Pumps /\ Stale' \in SUBSET Pumps /\ Stale' \in SUBSET (Pumps \ {p})
  BY DEF Stale
<1>2. /\ n \in Nat /\ a \in Nat /\ b \in Nat /\ l \in Nat /\ lost \in Nat
      /\ IsFiniteSet(Pumps \ {p}) /\ Cardinality(Pumps \ {p}) = n - 1
  BY <1>1, CountPumps, FS_RemoveElement, EverType DEF TInv, Counts
<1>3. b <= n - 1
  BY <1>1, <1>2, FS_Subset
<1>4. lost + a <= (n - 1) * l
  BY DEF TInv, Overtaken
<1>. HIDE DEF n, l, a, b
<1>5. (n - 1) * (l + 1) = (n - 1) * l + (n - 1) /\ (n - 1) * l \in Int
  BY <1>2
<1>6. lost + b <= (n - 1) * (l + 1)
  <2>. DEFINE m == (n - 1) * l
  <2>1. lost + a <= m /\ (n - 1) * (l + 1) = m + (n - 1) /\ m \in Int
    BY <1>4, <1>5
  <2>. HIDE DEF m
  <2>. QED  BY <1>2, <1>3, <2>1
<1>. QED  BY <1>6 DEF Overtaken, n, l, b

\* A refused one was stale.
LEMMA Refused ==
    ASSUME LInv, TInv, NEW p \in Stale, Stale' = Stale \ {p}, lost' = lost + 1, UNCHANGED Ever
    PROVE  Overtaken'
<1>. DEFINE m == (Cardinality(Pumps) - 1) * Len(Ever)
            a == Cardinality(Stale)
            b == Cardinality(Stale')
<1>1. Stale \in SUBSET Pumps
  BY DEF Stale
<1>2. a \in Nat /\ b = a - 1 /\ lost \in Nat
  BY <1>1, CountPumps, FS_RemoveElement DEF TInv, Counts
<1>3. m \in Int /\ lost + a <= m
  <2>1. Cardinality(Pumps) - 1 \in Int /\ Len(Ever) \in Int
    BY CountPumps, EverType
  <2>. QED  BY <2>1 DEF TInv, Overtaken
<1>4. lost' + b <= m
  <2>. HIDE DEF a, b, m
  <2>. QED  BY <1>2, <1>3
<1>. QED  BY <1>4 DEF Overtaken

\* append_log's insert: a new number of its pump, or one line lost for one that
\* overtook it.
LEMMA InsertTInv == ASSUME LInv, TInv, NEW p \in Pumps, append_log_insert(p) PROVE TInv'
<1>0. /\ pump \in [Pumps -> PumpRec] /\ Ever \in Seq(AnyLine) /\ Len(Ever) \in Nat
      /\ DOMAIN Ever = 1..Len(Ever) /\ Numbers /\ Counts /\ lost \in Nat
      /\ \A q \in Pumps : pump[q].line \in Nat /\ pump[q].line <= MaxLines
  BY EverType DEF LInv, LTypes, TInv, Counts, PumpRec, Numbers
<1>1. UNCHANGED <<sent, wpc, follower, errors>> /\ pump[p].pc = "insert"
  BY DEF append_log_insert
<1>2. CASE Accepts(p)
  <2>1. /\ Ever' = Append(Ever, Line(p)) /\ UNCHANGED lost /\ PGoto(p, "channel")
    BY <1>2, InsertAccepted
  <2>2. /\ pump'[p].pc = "channel"
        /\ \A q \in Pumps : pump'[q].line = pump[q].line /\ (q # p => pump'[q] = pump[q])
    BY <1>0, <2>1, PumpGoes DEF Line
  <2>3. /\ Len(Ever') = Len(Ever) + 1 /\ DOMAIN Ever' = 1..(Len(Ever) + 1)
        /\ Ever'[Len(Ever) + 1] = <<p, pump[p].line>>
        /\ \A i \in DOMAIN Ever : Ever'[i] = Ever[i] /\ i \in DOMAIN Ever' /\ i # Len(Ever) + 1
        /\ \A i \in DOMAIN Ever' : i \in DOMAIN Ever \/ i = Len(Ever) + 1
    BY <1>0, <2>1 DEF Line
  <2>4. \A i \in DOMAIN Ever : Ever[i] # <<p, pump[p].line>>
    BY <1>0, <1>1 DEF Numbers
  <2>5. IsInjective(Ever')
    BY <1>0, <2>3, <2>4 DEF Numbers, IsInjective
  <2>6. pump[p].line # 0
    BY <1>0, <1>1 DEF Numbers
  <2>7. \A q \in Pumps :
          /\ pump'[q].line <= MaxLines
          /\ pump'[q].pc \in {"select", "insert", "channel"} => pump'[q].line # 0
    BY <1>0, <2>2, <2>6 DEF Numbers
  <2>8. ASSUME NEW i \in DOMAIN Ever', NEW q \in Pumps, Ever'[i][1] = q
        PROVE  /\ Ever'[i][2] \in 1..pump'[q].line
               /\ pump'[q].pc \in {"select", "insert"} => Ever'[i][2] # pump'[q].line
    <3>1. CASE i \in DOMAIN Ever
      BY <1>0, <2>2, <2>3, <2>8, <3>1 DEF Numbers
    <3>2. CASE i = Len(Ever) + 1
      <4>1. q = p /\ Ever'[i][2] = pump[p].line
        BY <2>3, <2>8, <3>2
      <4>. QED  BY <1>0, <2>2, <2>6, <4>1
    <3>. QED  BY <2>3, <3>1, <3>2
  <2>9. Numbers'
    BY <2>5, <2>7, <2>8 DEF Numbers, IsInjective
  <2>10. Counts'
    BY <1>0, <1>1, <2>1 DEF Counts
  <2>11. p \notin Stale'
    BY <2>2 DEF Stale
  <2>. QED  BY <2>1, <2>3, <2>9, <2>10, <2>11, Accepted DEF TInv
<1>3. CASE ~Accepts(p)
  <2>1. /\ UNCHANGED <<log, row, gone, Ever>> /\ PGoto(p, "read")
        /\ lost' = IF row THEN lost + 1 ELSE lost
    BY <1>3, InsertRefused
  <2>2. /\ pump' \in [Pumps -> PumpRec]
        /\ pump'[p].pc = "read" /\ pump'[p].line = pump[p].line
        /\ \A q \in Pumps \ {p} : pump'[q] = pump[q]
    BY <1>0, <2>1, PumpGoes DEF Line
  <2>3. Numbers'
    BY <1>0, <2>1, <2>2, NumbersKept DEF LInv
  <2>4. lost' \in Nat
    BY <1>0, <2>1
  <2>5. Counts'
    BY <1>0, <1>1, <2>4 DEF Counts
  <2>6. CASE row
    <3>1. p \in Stale /\ Stale' = Stale \ {p}
      BY <1>1, <1>3, <2>1, <2>2, <2>6 DEF Stale, Accepts
    <3>2. lost' = lost + 1
      BY <2>1, <2>6
    <3>. QED  BY <2>1, <2>3, <2>5, <3>1, <3>2, Refused DEF TInv
  <2>7. CASE ~row
    <3>1. Stale' \subseteq Stale /\ UNCHANGED lost
      BY <2>1, <2>7 DEF Stale
    <3>. QED  BY <1>0, <2>1, <2>3, <2>5, <3>1, OvertakenKept DEF TInv
  <2>. QED  BY <2>6, <2>7
<1>. QED  BY <1>2, <1>3

\* The fan-out, process_one and the followers store nothing.
LEMMA SendTInv == ASSUME LInv, TInv, NEW p \in Pumps, channel_for_send(p) PROVE TInv'
<1>0. /\ pump \in [Pumps -> PumpRec] /\ sent \in Seq(AnyLine) /\ Line(p) \in AnyLine
      /\ \A q \in Pumps : pump[q].line \in Nat /\ pump[q].line <= MaxLines
      /\ \A f \in Followers : follower[f].pos \in Nat
  BY LineType DEF LInv, LTypes, TInv, PumpRec, Numbers, Follower
<1>1. /\ UNCHANGED <<log, row, gone, wpc, follower, lost, errors>>
      /\ sent' = Append(sent, Line(p)) /\ PGoto(p, "read")
  BY DEF channel_for_send
<1>2. /\ pump' \in [Pumps -> PumpRec] /\ pump'[p].pc = "read" /\ pump'[p].line = pump[p].line
      /\ \A q \in Pumps \ {p} : pump'[q] = pump[q]
  BY <1>0, <1>1, PumpGoes DEF Line
<1>3. Numbers'
  BY <1>0, <1>1, <1>2, NumbersKept, SameEver DEF LInv, TInv
<1>4. Len(sent) \in Nat /\ Len(sent') = Len(sent) + 1
  BY <1>0, <1>1
<1>5. Counts'
  BY <1>0, <1>1, <1>4 DEF TInv, Counts
<1>6. Stale' \subseteq Stale
  BY <1>1, <1>2 DEF Stale
<1>. QED  BY <1>1, <1>3, <1>5, <1>6, OvertakenKept, SameEver DEF TInv, Counts

LEMMA ProcessTInv == ASSUME LInv, TInv, Process \/ finish_error PROVE TInv'
<1>. USE DEF Process, container_exit, drain, drop_channel, finish_error
<1>1. UNCHANGED <<log, row, gone, sent, pump, follower, lost>>
  OBVIOUS
<1>2. UNCHANGED errors \/ (errors < MaxErrors /\ errors' = errors + 1)
  OBVIOUS
<1>3. errors' \in 0..MaxErrors
  BY <1>2, LogAssumption DEF TInv, Counts, LogAssumption
<1>4. Counts'
  BY <1>1, <1>3 DEF TInv, Counts
<1>5. Numbers' /\ Stale' = Stale
  BY <1>1, SameEver DEF TInv, Numbers, Stale
<1>. QED  BY <1>1, <1>4, <1>5, OvertakenKept, SameEver DEF TInv, Counts

LEMMA CrashTInv == ASSUME LInv, TInv, crash PROVE TInv'
<1>1. UNCHANGED <<log, row, gone, sent, lost, errors>> /\ wpc' = "dead"
  BY DEF crash
<1>2. pump \in [Pumps -> PumpRec] /\ follower \in [Followers -> Follower]
  BY DEF LInv, LTypes
<1>3. \A p \in Pumps : pump'[p].pc = "eof" /\ pump'[p].line = pump[p].line
  BY <1>2 DEF crash, PumpRec
<1>4. \A f \in Followers : follower'[f].pos = follower[f].pos
  BY <1>2 DEF crash, Follower
<1>5. Counts'
  BY <1>1, <1>4 DEF TInv, Counts
<1>6. Numbers'
  BY <1>1, <1>3, SameEver DEF TInv, Numbers
<1>7. Stale' \subseteq Stale
  BY <1>3 DEF Stale
<1>. QED  BY <1>1, <1>5, <1>6, <1>7, OvertakenKept, SameEver DEF TInv, Counts

\* A receiver never gets ahead of what was sent.
LEMMA FollowTInv ==
    ASSUME LInv, TInv, NEW f \in Followers, stream_logs(f) \/ Follow(f)
    PROVE  TInv'
<1>0. follower \in [Followers -> Follower] /\ follower[f] \in Follower /\ Len(sent) \in Nat
  BY DEF LInv, LTypes
<1>1. UNCHANGED <<log, row, gone, sent, pump, wpc, lost>>
  BY DEF stream_logs, Follow, recv, recv_closed, read_logs
<1>2. errors' \in 0..MaxErrors
  <2>1. UNCHANGED errors \/ (errors < MaxErrors /\ errors' = errors + 1)
    BY DEF stream_logs, Follow, recv, recv_closed, read_logs
  <2>. QED  BY <2>1, LogAssumption DEF TInv, Counts, LogAssumption
<1>3. \A g \in Followers \ {f} : follower'[g] = follower[g]
  BY <1>0 DEF stream_logs, Follow, recv, recv_closed, read_logs
<1>4. follower'[f].pos <= Len(sent)
  <2>1. CASE stream_logs(f)
    BY <1>0, <2>1 DEF stream_logs, Follower, TInv, Counts
  <2>2. CASE recv(f)
    <3>. DEFINE pos == follower[f].pos
                at  == IF Len(sent) - pos > Capacity THEN Len(sent) - Capacity ELSE pos
                n   == at + 1
    <3>1. pos \in Nat /\ pos < Len(sent) /\ Capacity \in Nat \ {0}
      BY <1>0, <2>2, LogAssumption DEF recv, Follower, LogAssumption
    <3>2. n <= Len(sent)
      BY <1>0, <3>1
    <3>3. follower'[f] = [follower[f] EXCEPT !.pos = n, !.live = @ \cup {sent[n]}]
      BY <1>0, <2>2 DEF recv
    <3>. HIDE DEF n
    <3>. QED  BY <1>0, <3>2, <3>3 DEF Follower
  <2>3. CASE recv_closed(f) \/ read_logs(f)
    BY <1>0, <2>3 DEF recv_closed, read_logs, Follower, TInv, Counts
  <2>. QED  BY <2>1, <2>2, <2>3 DEF Follow
<1>5. Counts'
  BY <1>1, <1>2, <1>3, <1>4 DEF TInv, Counts
<1>6. Numbers' /\ Stale' = Stale
  BY <1>1, SameEver DEF TInv, Numbers, Stale
<1>. QED  BY <1>1, <1>5, <1>6, OvertakenKept, SameEver DEF TInv, Counts

\* Nothing more is lost of a log that is deleted.
LEMMA DeleteTInv == ASSUME LInv, TInv, delete_package PROVE TInv'
<1>1. /\ UNCHANGED <<pump, sent, wpc, follower, lost, errors>> /\ Ever' = Ever /\ row' = FALSE
  BY DEF delete_package, Ever
<1>2. Counts' /\ Numbers'
  BY <1>1 DEF TInv, Counts, Numbers
<1>3. Stale' \subseteq Stale
  BY <1>1 DEF Stale
<1>. QED  BY <1>1, <1>2, <1>3, OvertakenKept DEF TInv, Counts

LEMMA NextTInv == LInv /\ TInv /\ [Next]_vars => TInv'
<1>. SUFFICES ASSUME LInv, TInv, [Next]_vars PROVE TInv'
  OBVIOUS
<1>1. CASE UNCHANGED vars
  BY <1>1, SameEver DEF vars, TInv, Numbers, Counts, Overtaken, Stale
<1>2. ASSUME NEW p \in Pumps, next_line(p) \/ next_line_eof(p) \/ Write(p) \/ append_log_error(p) PROVE TInv'
  BY <1>2, QuietTInv, InsertTInv, SendTInv DEF Write
<1>3. ASSUME NEW f \in Followers, stream_logs(f) \/ Follow(f) PROVE TInv'
  BY <1>3, FollowTInv
<1>4. CASE Process \/ finish_error
  BY <1>4, ProcessTInv
<1>6. CASE delete_package
  BY <1>6, DeleteTInv
<1>5. CASE crash
  BY <1>5, CrashTInv
<1>. QED  BY <1>1, <1>2, <1>3, <1>4, <1>5, <1>6 DEF Next

\* Every stored line is a line of its pump, and every sent or followed one was
\* stored.
LEMMA TypesFollow == LInv /\ TInv => TypeOK
<1>. SUFFICES ASSUME LInv, TInv PROVE TypeOK
  OBVIOUS
<1>1. Range(Ever) \subseteq Lines
  <2>. SUFFICES ASSUME NEW i \in DOMAIN Ever PROVE Ever[i] \in Lines
    BY DEF Range
  <2>1. Ever[i] \in AnyLine
    BY EverType
  <2>2. PICK p \in Pumps, k \in Nat : Ever[i] = <<p, k>>
    BY <2>1 DEF AnyLine
  <2>3. pump[p] \in PumpRec
    BY DEF LInv, LTypes
  <2>4. Ever[i][1] = p /\ Ever[i][2] = k
    BY <2>2
  <2>5. Numbers
    BY DEF TInv
  <2>6. k \in 1..pump[p].line /\ pump[p].line <= MaxLines
    BY <2>4, <2>5 DEF Numbers
  <2>7. k \in 1..MaxLines
    BY <2>3, <2>6, LogAssumption DEF LogAssumption, PumpRec
  <2>. QED  BY <2>2, <2>7 DEF Lines
<1>2. Range(sent) \subseteq Lines
  BY <1>1 DEF LInv, Stored, Range
<1>3. pump \in [Pumps -> Pump]
  <2>. SUFFICES ASSUME NEW p \in Pumps PROVE pump[p] \in Pump
    BY DEF LInv, LTypes
  <2>1. pump[p] \in PumpRec /\ pump[p].line <= MaxLines
    BY DEF LInv, LTypes, TInv, Numbers
  <2>2. pump[p].line \in 0..MaxLines
    BY <2>1, LogAssumption DEF PumpRec, LogAssumption
  <2>. QED  BY <2>1, <2>2 DEF PumpRec, Pump
<1>4. ASSUME NEW f \in Followers
      PROVE  /\ follower[f].pc \in {"idle", "live", "final", "done", "cut"}
             /\ follower[f].pos \in 0..Len(sent)
             /\ follower[f].live \subseteq Lines /\ follower[f].partial \in BOOLEAN
  <2>1. follower[f] \in Follower /\ follower[f].pos <= Len(sent) /\ Len(sent) \in Nat
    BY DEF LInv, LTypes, TInv, Counts
  <2>2. follower[f].live \subseteq Lines
    BY <1>1 DEF LInv, LiveIsStored
  <2>3. follower[f].pos \in 0..Len(sent)
    BY <2>1 DEF Follower
  <2>. QED  BY <2>1, <2>2, <2>3 DEF Follower
<1>5. Range(log) \subseteq Lines /\ IsInjective(log) /\ Range(gone) \subseteq Lines
  <2>1. IsInjective(Ever)
    BY DEF TInv, Numbers
  <2>2. DOMAIN <<>> = {}
    OBVIOUS
  <2>3. Range(<<>>) = {} /\ IsInjective(<<>>)
    BY <2>2 DEF Range, IsInjective
  <2>4. CASE row
    <3>1. log = Ever /\ gone = <<>>
      BY <2>4 DEF Ever, LInv, LTypes
    <3>. QED  BY <1>1, <2>1, <2>3, <3>1
  <2>5. CASE ~row
    <3>1. gone = Ever /\ log = <<>>
      BY <2>5 DEF Ever, LInv, LTypes
    <3>. QED  BY <1>1, <2>1, <2>3, <3>1
  <2>. QED  BY <2>4, <2>5
<1>. QED  BY <1>2, <1>3, <1>4, <1>5 DEF TypeOK, LInv, LTypes, TInv, Numbers, Counts

\* Any number of pumps that read the next seq and insert in two statements, with
\* statements failing and the daemon dying in between, lose at most one line of
\* each other pump for every line that was ever stored, whenever the package is
\* deleted (queries.rs, append_log).
THEOREM LossBounded == Spec => []CollisionsBounded
<1>1. LInv /\ TInv => CollisionsBounded
  <2>. SUFFICES ASSUME LInv, TInv PROVE CollisionsBounded
    OBVIOUS
  <2>. DEFINE m == (Cardinality(Pumps) - 1) * Len(Ever)
              a == Cardinality(Stale)
  <2>1. Stale \in SUBSET Pumps
    BY DEF Stale
  <2>2. a \in Nat /\ lost \in Nat /\ Cardinality(Pumps) - 1 \in Int /\ Len(Ever) \in Int
    BY <2>1, CountPumps, EverType DEF TInv, Counts
  <2>3. m \in Int /\ lost + a <= m
    BY <2>2 DEF TInv, Overtaken
  <2>4. lost <= m
    <3>. HIDE DEF m, a
    <3>. QED  BY <2>2, <2>3
  <2>. QED  BY <2>4 DEF CollisionsBounded
<1>. QED  BY <1>1, InitTInv, NextTInv, LogInvariance, PTL DEF Spec

\* Rows, pumps and followers are of their kind; a line is stored at most once,
\* although pumps retry nothing and share the numbering.
THEOREM TypeCorrect == Spec => []TypeOK
  BY TypesFollow, InitTInv, NextTInv, LogInvariance, PTL DEF Spec

------------------------------------------------------------------------------
(* What followers are promised: BuildLog *)

\* Nothing happens to the promise while the log, the followers and whether a pump
\* is left stay as they are.
LEMMA PromiseKept ==
    ASSUME UNCHANGED <<log, gone, follower>>, Closed' = Closed
    PROVE  UNCHANGED Told!lvars
<1>1. Views' = Views /\ Range(gone)' = Range(gone)
  BY DEF Views, View, Range
<1>. QED  BY <1>1 DEF Told!lvars

\* A pump that goes on holds the log of a build open.
LEMMA HeldOpen ==
    ASSUME NEW p \in Pumps, pump[p].pc # "eof", pump'[p].pc # "eof", UNCHANGED row
    PROVE  Closed' = Closed /\ (row => Closed = FALSE)
<1>1. Closed = ~row /\ Closed' = ~row'
  BY DEF Closed
<1>. QED  BY <1>1

LEMMA InitTold == Init => Told!Init
<1>. SUFFICES ASSUME Init PROVE Told!Init
  OBVIOUS
<1>1. Closed = FALSE
  <2>1. PICK p \in Pumps : TRUE
    BY LogAssumption DEF LogAssumption
  <2>2. pump[p].pc = "read" /\ row
    BY <2>1 DEF Init
  <2>. QED  BY <2>1, <2>2 DEF Closed
<1>2. ASSUME NEW f \in Followers
      PROVE  View(follower[f]) = [state |-> "waiting", heard |-> {}, tail |-> <<>>]
  BY DEF Init, View
<1>3. Views = [f \in Followers |-> [state |-> "waiting", heard |-> {}, tail |-> <<>>]]
  BY <1>2 DEF Views
<1>4. log = <<>> /\ Range(gone) = {}
  BY DEF Init, Range
<1>. QED  BY <1>1, <1>3, <1>4 DEF Told!Init

\* The pumps between their statements, and the fan-out.
LEMMA QuietTold ==
    ASSUME LInv, NEW p \in Pumps,
           next_line(p) \/ append_log_select(p) \/ append_log_error(p) \/ channel_for_send(p)
    PROVE  UNCHANGED Told!lvars
<1>1. pump \in [Pumps -> PumpRec] /\ pump[p] \in PumpRec
  BY DEF LInv, LTypes
<1>2. UNCHANGED <<log, row, gone, follower>> /\ pump[p].pc # "eof"
  BY DEF next_line, append_log_select, append_log_error, channel_for_send
<1>3. pump'[p].pc # "eof"
  <2>1. CASE next_line(p)
    BY <1>1, <2>1 DEF next_line, PumpRec
  <2>2. CASE append_log_select(p)
    BY <1>1, <2>2 DEF append_log_select, PumpRec
  <2>3. CASE append_log_error(p) \/ channel_for_send(p)
    BY <1>1, <2>3, PumpGoes DEF append_log_error, channel_for_send
  <2>. QED  BY <2>1, <2>2, <2>3
<1>. QED  BY <1>2, <1>3, HeldOpen, PromiseKept

\* The last pump at its end closes the log.
LEMMA EofTold ==
    ASSUME LInv, NEW p \in Pumps, next_line_eof(p)
    PROVE  Told!Close \/ UNCHANGED Told!lvars
<1>1. UNCHANGED <<log, row, gone, follower>> /\ pump[p].pc = "read"
  BY DEF next_line_eof
<1>2. Views' = Views /\ Range(gone)' = Range(gone)
  BY <1>1 DEF Views, View, Range
<1>3. Closed' \in BOOLEAN /\ (Closed' = FALSE => Closed = FALSE)
  BY <1>1 DEF Closed
<1>4. CASE Closed' = TRUE
  BY <1>1, <1>2, <1>4 DEF Told!Close
<1>5. CASE Closed' = FALSE
  BY <1>1, <1>3, <1>5, PromiseKept
<1>. QED  BY <1>3, <1>4, <1>5

\* An accepted insert adds the pump's next line, after all it stored before; a
\* refused one adds nothing.
LEMMA InsertTold ==
    ASSUME LInv, TInv, NEW p \in Pumps, append_log_insert(p)
    PROVE  (\E i \in 1..MaxLines : Told!Store(p, i)) \/ UNCHANGED Told!lvars
<1>0. pump \in [Pumps -> PumpRec] /\ pump[p] \in PumpRec /\ Numbers
  BY DEF LInv, LTypes, TInv
<1>1. UNCHANGED <<row, gone, follower>> /\ pump[p].pc = "insert"
  BY DEF append_log_insert
<1>2. Closed' = Closed /\ (row => Closed = FALSE)
  <2>1. pump'[p].pc # "eof"
    BY <1>0, InsertAccepted, InsertRefused, PumpGoes
  <2>. QED  BY <1>1, <2>1, HeldOpen
<1>3. CASE Accepts(p)
  <2>. DEFINE i == pump[p].line
  <2>0. row /\ Ever = log /\ log' = Append(log, Line(p))
    BY <1>3, InsertAccepted
  <2>1. i \in 1..MaxLines
    BY <1>0, <1>1, LogAssumption DEF Numbers, PumpRec, LogAssumption
  <2>2. ASSUME NEW k \in DOMAIN log, log[k][1] = p PROVE log[k][2] < i
    <3>1. log[k][2] \in 1..i /\ log[k][2] # i
      BY <1>0, <1>1, <2>0, <2>2 DEF Numbers
    <3>. QED  BY <2>1, <3>1
  <2>3. Views' = Views /\ Range(gone)' = Range(gone)
    BY <1>1 DEF Views, View, Range
  <2>4. log' = Append(log, <<p, i>>)
    BY <2>0 DEF Line
  <2>. HIDE DEF i
  <2>5. Told!Store(p, i)
    BY <1>2, <2>0, <2>2, <2>3, <2>4 DEF Told!Store
  <2>. QED  BY <2>1, <2>5
<1>4. CASE ~Accepts(p)
  BY <1>1, <1>2, <1>4, InsertRefused, PromiseKept
<1>. QED  BY <1>3, <1>4

\* A deletion closes the log and takes what is in it.
LEMMA DeleteTold == ASSUME LInv, delete_package PROVE Told!Delete
<1>1. row /\ row' = FALSE /\ log' = <<>> /\ gone' = log /\ UNCHANGED follower
  BY DEF delete_package
<1>2. Closed' = TRUE /\ Views' = Views
  BY <1>1 DEF Closed, Views, View
<1>3. gone = <<>>
  BY <1>1 DEF LInv, LTypes
<1>4. Range(gone)' = Range(gone) \cup Told!Range(log)
  BY <1>1, <1>3 DEF Range, Told!Range
<1>. QED  BY <1>1, <1>2, <1>4 DEF Told!Delete

LEMMA ProcessTold == ASSUME Process \/ finish_error PROVE UNCHANGED Told!lvars
<1>1. UNCHANGED <<log, row, gone, pump, follower>>
  BY DEF Process, container_exit, drain, drop_channel, finish_error
<1>2. Closed' = Closed
  BY <1>1 DEF Closed
<1>. QED  BY <1>1, <1>2, PromiseKept

\* The daemon's end cuts off whoever follows.
LEMMA CrashTold == ASSUME LInv, crash PROVE Told!Crash
<1>0. pump \in [Pumps -> PumpRec] /\ follower \in [Followers -> Follower]
  BY DEF LInv, LTypes
<1>1. Closed' = TRUE /\ UNCHANGED <<log, Range(gone)>>
  BY <1>0 DEF crash, Closed, PumpRec, Range
<1>2. ASSUME NEW f \in Followers
      PROVE  View(follower'[f]) =
               IF Views[f].state = "following" THEN [Views[f] EXCEPT !.state = "cut"] ELSE Views[f]
  <2>1. /\ follower[f] \in Follower /\ Views[f] = View(follower[f])
        /\ follower'[f] = [follower[f] EXCEPT !.pc = IF @ \in {"live", "final"} THEN "cut" ELSE @]
    BY <1>0 DEF crash, Views
  <2>. QED  BY <2>1 DEF View, Follower
<1>3. Views' = [f \in Followers |->
          IF Views[f].state = "following" THEN [Views[f] EXCEPT !.state = "cut"] ELSE Views[f]]
  BY <1>2 DEF Views
<1>. QED  BY <1>1, <1>3 DEF Told!Crash

\* One follower's step changes its own view.
LEMMA ViewStep ==
    ASSUME LInv, UNCHANGED <<log, row, gone, pump>>, NEW f \in Followers, NEW r,
           follower' = [follower EXCEPT ![f] = r]
    PROVE  /\ UNCHANGED <<log, Closed, Range(gone)>>
           /\ Views' = [Views EXCEPT ![f] = View(r)]
           /\ Views[f] = View(follower[f]) /\ follower[f] \in Follower
<1>1. follower \in [Followers -> Follower]
  BY DEF LInv, LTypes
<1>2. follower'[f] = r /\ \A g \in Followers \ {f} : follower'[g] = follower[g]
  BY <1>1
<1>. QED  BY <1>1, <1>2 DEF Views, Closed, Range

\* A follower that is told something keeps what it heard.
LEMMA ViewTold ==
    ASSUME LInv, UNCHANGED <<log, row, gone, pump>>, NEW f \in Followers, NEW r, NEW s, NEW t,
           follower' = [follower EXCEPT ![f] = r],
           View(r) = [state |-> s, heard |-> follower[f].live, tail |-> t]
    PROVE  /\ Views' = [Views EXCEPT ![f].state = s, ![f].tail = t]
           /\ UNCHANGED <<log, Closed, Range(gone)>>
<1>. DEFINE x == View(follower[f])
<1>1. [x EXCEPT !.state = s, !.tail = t]
        = [k \in {"state", "heard", "tail"} |->
              IF k = "state" THEN s ELSE IF k = "tail" THEN t ELSE x[k]]
  <2>1. DOMAIN x = {"state", "heard", "tail"}
    BY DEF View
  <2>. HIDE DEF x
  <2>. QED  BY <2>1, Zenon
<1>2. x.heard = follower[f].live
  BY DEF View
<1>. HIDE DEF x
<1>3. [x EXCEPT !.state = s, !.tail = t] = View(r)
  BY <1>1, <1>2
<1>4. Views' = [Views EXCEPT ![f] = View(r)] /\ UNCHANGED <<log, Closed, Range(gone)>> /\ Views[f] = x
  BY ViewStep DEF x
<1>5. [Views EXCEPT ![f].state = s, ![f].tail = t]
        = [Views EXCEPT ![f] = [Views[f] EXCEPT !.state = s, !.tail = t]]
  BY Zenon
<1>. QED  BY <1>3, <1>4, <1>5

\* A new follower of a build without a channel gets the closed log once the build
\* is over, and a part before.
LEMMA StreamTold ==
    ASSUME LInv, NEW f \in Followers, stream_logs(f)
    PROVE  Told!Connect(f) \/ Told!Tell(f) \/ Told!TellPart(f, log)
<1>1. UNCHANGED <<log, row, gone, pump>> /\ follower[f].pc = "idle" /\ follower[f] \in Follower
  BY FollowerIs DEF stream_logs
<1>2. Views[f] = View(follower[f]) /\ Views[f].state = "waiting"
  BY <1>1 DEF Views, View
<1>3. CASE chan
  <2>. DEFINE r == [follower[f] EXCEPT !.pc = "live", !.pos = Len(sent)]
  <2>1. follower' = [follower EXCEPT ![f] = r]
    BY <1>3 DEF stream_logs
  <2>2. View(r) = [View(follower[f]) EXCEPT !.state = "following"]
    BY <1>1 DEF View, Follower
  <2>. HIDE DEF r
  <2>3. /\ Views' = [Views EXCEPT ![f] = [Views[f] EXCEPT !.state = "following"]]
        /\ UNCHANGED <<log, Closed, Range(gone)>>
    <3>1. Views' = [Views EXCEPT ![f] = View(r)]
      BY <1>1, <2>1, ViewStep
    <3>2. UNCHANGED <<log, Closed, Range(gone)>>
      BY <1>1, <2>1, ViewStep
    <3>. QED  BY <1>2, <2>2, <3>1, <3>2
  <2>4. [Views EXCEPT ![f].state = "following"]
          = [Views EXCEPT ![f] = [Views[f] EXCEPT !.state = "following"]]
    BY Zenon
  <2>. QED  BY <1>2, <2>3, <2>4 DEF Told!Connect
<1>4. CASE ~chan
  <2>. DEFINE b == wpc \notin {"over", "dead"}
              s == IF b THEN "partly" ELSE "told"
              r == [follower[f] EXCEPT !.pc = "done", !.tail = log, !.partial = b]
  <2>1. follower' = [follower EXCEPT ![f] = r] /\ b \in BOOLEAN
    BY <1>4 DEF stream_logs
  <2>2. ~b => Closed = TRUE
    BY DEF LInv, Drained, Closed
  <2>. HIDE DEF b
  <2>3. r.pc = "done" /\ r.partial = b /\ r.tail = log /\ r.live = follower[f].live
    BY <1>1, <2>1 DEF Follower
  <2>. HIDE DEF r
  <2>4. View(r) = [state |-> s, heard |-> follower[f].live, tail |-> log]
    BY <2>1, <2>3 DEF View
  <2>5. (b => s = "partly") /\ (~b => s = "told")
    OBVIOUS
  <2>. HIDE DEF s
  <2>6. Views' = [Views EXCEPT ![f].state = s, ![f].tail = log] /\ UNCHANGED <<log, Closed, Range(gone)>>
    BY <1>1, <2>1, <2>4, ViewTold, Zenon
  <2>8. CASE b
    BY <1>2, <2>5, <2>6, <2>8 DEF Told!TellPart
  <2>9. CASE ~b
    BY <1>2, <2>2, <2>5, <2>6, <2>9 DEF Told!Tell
  <2>. QED  BY <2>8, <2>9
<1>. QED  BY <1>3, <1>4

\* What a follower receives is stored, even if it lags.
LEMMA RecvTold ==
    ASSUME LInv, NEW f \in Followers, recv(f)
    PROVE  \E line \in Range(log) \cup Range(gone) : Told!Hear(f, line)
<1>. DEFINE pos == follower[f].pos
            at  == IF Len(sent) - pos > Capacity THEN Len(sent) - Capacity ELSE pos
            n   == at + 1
            now == follower[f].live \cup {sent[n]}
            r   == [follower[f] EXCEPT !.pos = n, !.live = now]
<1>1. UNCHANGED <<log, row, gone, pump>> /\ follower[f].pc = "live" /\ pos < Len(sent)
  BY DEF recv
<1>2. pos \in Nat /\ Len(sent) \in Nat /\ DOMAIN sent = 1..Len(sent) /\ Capacity \in Nat \ {0}
  BY LogAssumption, FollowerIs DEF Follower, LogAssumption
<1>3. n \in DOMAIN sent
  BY <1>1, <1>2
<1>4. sent[n] \in Range(log) \cup Range(gone)
  BY <1>3, FollowerIs DEF LInv, Stored, Ever
<1>5. follower' = [follower EXCEPT ![f] = r]
  BY DEF recv
<1>. HIDE DEF at, pos, n
<1>6. r.pc = "live" /\ r.live = now /\ r.tail = follower[f].tail
  BY <1>1, FollowerIs DEF Follower
<1>. HIDE DEF r
<1>7. /\ View(follower[f]) = [state |-> "following", heard |-> follower[f].live, tail |-> follower[f].tail]
      /\ View(r) = [state |-> "following", heard |-> now, tail |-> follower[f].tail]
  BY <1>1, <1>6 DEF View
<1>8. /\ Views' = [Views EXCEPT ![f] = View(r)] /\ UNCHANGED <<log, Closed, Range(gone)>>
      /\ Views[f] = View(follower[f])
  BY <1>1, <1>5, ViewStep
<1>9. now = Views[f].heard \cup {sent[n]}
  BY <1>7, <1>8
<1>. HIDE DEF now
<1>10. View(r) = [Views[f] EXCEPT !.heard = now]
  BY <1>7, <1>8
<1>11. [Views EXCEPT ![f].heard = @ \cup {sent[n]}]
         = [Views EXCEPT ![f] = [Views[f] EXCEPT !.heard = Views[f].heard \cup {sent[n]}]]
  BY Zenon
<1>12. Views' = [Views EXCEPT ![f].heard = @ \cup {sent[n]}]
  BY <1>8, <1>9, <1>10, <1>11
<1>13. Told!Hear(f, sent[n])
  <2>1. Views[f].state = "following"
    BY <1>7, <1>8
  <2>2. sent[n] \in Told!Range(log) \cup Range(gone)
    BY <1>4 DEF Told!Range, Range
  <2>. QED  BY <1>8, <1>12, <2>1, <2>2 DEF Told!Hear
<1>. QED  BY <1>4, <1>13

\* The channel closed: the closed log, or what could be read of it.
LEMMA ReadTold ==
    ASSUME LInv, NEW f \in Followers, read_logs(f)
    PROVE  Told!Tell(f) \/ Told!TellPart(f, log) \/ Told!TellPart(f, Views[f].tail)
<1>1. /\ UNCHANGED <<log, row, gone, pump>> /\ follower[f].pc = "final" /\ follower[f] \in Follower
      /\ Closed = TRUE
  BY FollowerIs DEF read_logs, LInv, Ended, Drained, Closed
<1>2. Views[f] = View(follower[f]) /\ Views[f].state = "following" /\ Views[f].tail = follower[f].tail
  BY <1>1 DEF Views, View
<1>4. CASE follower' = [follower EXCEPT ![f].pc = "done", ![f].tail = log]
  <2>. DEFINE r == [follower[f] EXCEPT !.pc = "done", !.tail = log]
              s == IF r.partial THEN "partly" ELSE "told"
  <2>1. follower' = [follower EXCEPT ![f] = r]
    BY <1>4
  <2>2. r.pc = "done" /\ r.tail = log /\ r.live = follower[f].live
    BY <1>1 DEF Follower
  <2>. HIDE DEF r
  <2>3. View(r) = [state |-> s, heard |-> follower[f].live, tail |-> log]
    BY <2>2 DEF View
  <2>4. s = "partly" \/ s = "told"
    OBVIOUS
  <2>. HIDE DEF s
  <2>5. Views' = [Views EXCEPT ![f].state = s, ![f].tail = log] /\ UNCHANGED <<log, Closed, Range(gone)>>
    BY <1>1, <2>1, <2>3, ViewTold, Zenon
  <2>. QED  BY <1>1, <1>2, <2>4, <2>5 DEF Told!Tell, Told!TellPart
<1>5. CASE follower' = [follower EXCEPT ![f].pc = "done", ![f].partial = TRUE]
  <2>. DEFINE r == [follower[f] EXCEPT !.pc = "done", !.partial = TRUE]
  <2>1. follower' = [follower EXCEPT ![f] = r]
    BY <1>5
  <2>2. r.pc = "done" /\ r.partial = TRUE /\ r.tail = Views[f].tail /\ r.live = follower[f].live
    BY <1>1, <1>2 DEF Follower
  <2>. HIDE DEF r
  <2>3. View(r) = [state |-> "partly", heard |-> follower[f].live, tail |-> Views[f].tail]
    BY <2>2 DEF View
  <2>4. /\ Views' = [Views EXCEPT ![f].state = "partly", ![f].tail = Views[f].tail]
        /\ UNCHANGED <<log, Closed, Range(gone)>>
    BY <1>1, <2>1, <2>3, ViewTold, Zenon
  <2>. QED  BY <1>2, <2>4 DEF Told!TellPart
<1>. QED  BY <1>4, <1>5 DEF read_logs

\* A follower that learns that the channel closed is still to be told.
LEMMA ClosedTold ==
    ASSUME LInv, NEW f \in Followers, recv_closed(f)
    PROVE  UNCHANGED Told!lvars
<1>. DEFINE r == [follower[f] EXCEPT !.pc = "final"]
<1>1. /\ UNCHANGED <<log, row, gone, pump>> /\ follower[f].pc = "live" /\ follower[f] \in Follower
      /\ follower' = [follower EXCEPT ![f] = r]
  BY FollowerIs DEF recv_closed
<1>2. View(r) = View(follower[f])
  BY <1>1 DEF View, Follower
<1>. HIDE DEF r
<1>3. Views' = Views /\ UNCHANGED <<log, Closed, Range(gone)>>
  <2>1. /\ Views' = [Views EXCEPT ![f] = Views[f]] /\ UNCHANGED <<log, Closed, Range(gone)>>
    BY <1>1, <1>2, ViewStep
  <2>. QED  BY <2>1 DEF Views
<1>. QED  BY <1>3 DEF Told!lvars

LEMMA NextTold == LInv /\ TInv /\ [Next]_vars => [Told!Next]_(Told!lvars)
<1>. SUFFICES ASSUME LInv, TInv, [Next]_vars PROVE Told!Next \/ UNCHANGED Told!lvars
  OBVIOUS
<1>1. CASE UNCHANGED vars
  <2>1. UNCHANGED <<log, gone, follower>> /\ Closed' = Closed
    BY <1>1 DEF vars, Closed
  <2>. QED  BY <2>1, PromiseKept
<1>2. ASSUME NEW p \in Pumps, next_line(p) \/ next_line_eof(p) \/ Write(p) \/ append_log_error(p)
      PROVE  Told!Next \/ UNCHANGED Told!lvars
  <2>1. CASE append_log_insert(p)
    BY <2>1, InsertTold DEF Told!Next
  <2>2. CASE next_line_eof(p)
    BY <2>2, EofTold DEF Told!Next
  <2>. QED  BY <1>2, <2>1, <2>2, QuietTold DEF Write
<1>3. ASSUME NEW f \in Followers, stream_logs(f) \/ Follow(f)
      PROVE  Told!Next \/ UNCHANGED Told!lvars
  <2>1. CASE stream_logs(f)
    BY <2>1, StreamTold DEF Told!Next
  <2>2. CASE recv(f)
    BY <2>2, RecvTold DEF Told!Next, Told!Range, Range
  <2>3. CASE read_logs(f)
    BY <2>3, ReadTold DEF Told!Next
  <2>4. CASE recv_closed(f)
    BY <2>4, ClosedTold
  <2>. QED  BY <1>3, <2>1, <2>2, <2>3, <2>4 DEF Follow
<1>4. CASE Process \/ finish_error
  BY <1>4, ProcessTold
<1>5. CASE crash
  BY <1>5, CrashTold DEF Told!Next
<1>6. CASE delete_package
  BY <1>6, DeleteTold DEF Told!Next
<1>. QED  BY <1>1, <1>2, <1>3, <1>4, <1>5, <1>6 DEF Next

\* To its followers the log is a BuildLog, for any number of pumps, followers and
\* failed statements, wherever the daemon dies and whenever the package is
\* deleted: what is stored keeps its order and goes only whole, with the package,
\* and who was told "done" at the end has all that was there and ever will be.
THEOREM BuildLogImplemented == Spec => ImplementsBuildLog
  BY InitTold, NextTold, InitTInv, NextTInv, LogInvariance, PTL DEF Spec, ImplementsBuildLog, Told!Spec
=============================================================================
