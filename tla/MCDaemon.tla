------------------------------ MODULE MCDaemon ------------------------------
(***************************************************************************)
(* Instances of Daemon for TLC: the packages a run starts with and the     *)
(* requests its clients send.                                              *)
(***************************************************************************)
EXTENDS Daemon, TLC

CONSTANTS pkgA, pkgB   \* two package names

Row(i, auto, vs)  == [id |-> i, auto |-> auto, variants |-> vs, last_ref |-> 0]
Ask(op, n)        == [NoReq EXCEPT !.op = op, !.name = n]
AskFor(op, n, vs) == [Ask(op, n) EXCEPT !.variants = vs]
CancelOf(b)       == [NoReq EXCEPT !.op = "cancel", !.build = b]

HandlerSymmetry == Permutations(Handlers)

\* pkgA is registered, built for two variants, and not polled.
OnePackage   == [n \in Names |-> Row(1, FALSE, {"default", "v3"})]
\* pkgA is registered, polled, and built for the default variant.
OnePolled    == [n \in Names |-> Row(1, TRUE, {"default"})]
\* pkgA is registered with the default variant, pkgB is not.
PlainPackage == [n \in Names |-> IF n = pkgA THEN Row(1, FALSE, {"default"}) ELSE NoPackage]

Cancels       == {CancelOf(b) : b \in BuildIds}
Rebuilds      == {Ask("rebuild", n) : n \in Names}
RebuildCancel == Rebuilds \cup Cancels
Registry      == {AskFor("add", pkgB, {"v3"}), AskFor("add", pkgA, {"unknown"}),
                  AskFor("variants", pkgA, {"v3"}), Ask("delete", pkgA)}
FaultRequests == {AskFor("variants", pkgA, {"v3"}), Ask("rebuild", pkgA), CancelOf(1)}
PollRequests  == {Ask("rebuild", pkgA), Ask("delete", pkgA), Ask("auto", pkgA)}
DeleteRebuild == {Ask("rebuild", pkgA), Ask("delete", pkgA)}
=============================================================================
