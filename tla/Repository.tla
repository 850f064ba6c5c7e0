----------------------------- MODULE Repository -----------------------------
(***************************************************************************)
(* What a repository promises to those who install from it, while several  *)
(* callers publish and remove.  A name offers one version, or none while   *)
(* its file, its signature and its database entry do not belong together.  *)
(*                                                                         *)
(* A name is nobody's business but that of the operations open on it.  The *)
(* only one on it since it began takes it from what it offered, through    *)
(* nothing, to its own version or away, and has done so when it succeeds.  *)
(* A name two operations have met on is promised nothing, but that a       *)
(* removal only withdraws.  The database carries its own signature or none *)
(* unless two operations met at all.                                       *)
(***************************************************************************)
CONSTANTS Procs, Files, Versions   \* 0 is no version

VARIABLES
    offers,   \* name -> the version that installs, or 0
    seal,     \* the signature of the database: "valid", "none", "wrong"
    open,     \* the operation each caller is on
    last      \* how the last operation ended

rvars == <<offers, seal, open, last>>

\* sole: the names no other operation was open on since it began; alone: no
\* other operation was open at all.
Closed == [op |-> "none", names |-> {}, ver |-> 0, sole |-> {}, alone |-> FALSE]
IsOpen(p) == open[p].op # "none"

Init ==
    /\ offers \in [Files -> Versions] /\ seal = "valid"
    /\ open = [p \in Procs |-> Closed]
    /\ last = "ok"

Begin(p, op, ns, v) ==
    /\ ~IsOpen(p)
    /\ \A q \in Procs : open[q].ver # v
    /\ open' = [q \in Procs |->
          IF q # p THEN [open[q] EXCEPT !.sole = @ \ ns, !.alone = FALSE]
          ELSE [op |-> op, names |-> ns, ver |-> v,
                sole  |-> {n \in ns : \A r \in Procs : n \notin open[r].names},
                alone |-> \A r \in Procs : ~IsOpen(r)]]
    /\ UNCHANGED <<offers, seal, last>>

\* What the operation p is on may do to what is offered.
Touch(p) ==
    /\ IsOpen(p)
    /\ offers' \in [Files -> Versions] /\ seal' \in {"valid", "none", "wrong"}
    /\ \A n \in Files : offers'[n] # offers[n] =>
          /\ n \in open[p].names
          /\ open[p].op = "remove" => offers'[n] = 0
          /\ n \in open[p].sole => offers'[n] \in {0, open[p].ver}
    /\ open[p].alone /\ seal' = "wrong" => seal = "wrong"

Close(p) == open' = [open EXCEPT ![p] = Closed]

Work(p) == Touch(p) /\ UNCHANGED <<open, last>>

Abort(p) == Touch(p) /\ Close(p) /\ last' = "err"

Complete(p) ==
    /\ Touch(p) /\ Close(p) /\ last' = "ok"
    /\ \A n \in open[p].sole :
          offers'[n] = IF open[p].op = "publish" THEN open[p].ver ELSE 0
    /\ open[p].alone => seal' = "valid"

Next ==
    \/ \E p \in Procs : Work(p) \/ Abort(p) \/ Complete(p)
    \/ \E p \in Procs :
         /\ ~IsOpen(p)
         /\ \E op \in {"publish", "remove"}, ns \in SUBSET Files, v \in Versions \ {0} :
                Begin(p, op, ns, v)

Spec == Init /\ [][Next]_rvars
=============================================================================
