-------------------------------- MODULE Admin --------------------------------
(***************************************************************************)
(* The admin's side of the daemon: the sessions with `paur passwd` beside  *)
(* them, and the package page and `paur flag` whose writes they let in.    *)
(***************************************************************************)
EXTENDS Flags

vars == <<session_vars, flag_vars>>

Init == SessionsInit /\ FlagsInit

\* The login page, and the layout when the UI is loaded.
refreshAuth(b) == view[b] = "login" /\ status(b) /\ UNCHANGED flag_vars

Next ==
    \/ SessionsNext /\ UNCHANGED flag_vars
    \/ FlagsNext
    \/ \E b \in Browsers : refreshAuth(b)
Spec == Init /\ [][Next]_vars
FairSpec == Spec /\ FlagsFairness

------------------------------------------------------------------------------
(* Properties *)

Req == [pc : {"idle", "extract", "write", "reread", "answered"}, col : Column,
        body : (SUBSET Flag) \cup (SUBSET Optional), prev : (SUBSET Flag) \cup (SUBSET Optional),
        named : BOOLEAN, code : {"ok", "401", "422", "500", "503"}, dto : Row \cup {NoRow},
        wver : Nat, dver : Nat]
Cli == [pc : {"idle", "get", "flags", "variants", "end"}, on : SUBSET Flag, off : SUBSET Flag,
        toggle : SUBSET Optional, cur : Row \cup {NoRow}]

\* Rows, requests, pages and commands are of their kind.
TypeOK ==
    /\ SessionsTypeOK
    /\ row \in Row /\ ver \in Nat
    /\ req \in [Reqs -> Req] /\ cli \in [Clis -> Cli]
    /\ page \in [Browsers -> Row \cup {NoRow}] /\ fetched \in [Browsers -> Row \cup {NoRow}]
    /\ view \in [Browsers -> {"page", "login"}]
    /\ ops \in 0..MaxOps

\* `paur flag` means what it prints: when the daemon answered its PATCH and no
\* other write fell between that write and the answer, the named flags are as
\* asked, off ones too, and those it did not name are as it had read them.
CommandHonoured ==
    \A c \in Clis : LET q == req[<<c, "flags">>] IN
        (q.pc = "answered" /\ q.code = "ok" /\ q.dver = q.wver) =>
            /\ cli[c].on \subseteq q.dto.flags
            /\ cli[c].off \cap q.dto.flags = {}
            /\ \A f \in Flag \ (cli[c].on \cup cli[c].off) :
                 f \in q.dto.flags <=> f \in cli[c].cur.flags

\* An optimistic page, put back by errors and overwritten by answers and by
\* refreshes that come in any order, ends up showing the row.
PageConverges == <>[](\A b \in Browsers : view[b] = "page" => page[b] = row)

\* cmd.rs:278: "`flag <pkg> --variant v3` -> toggle v3 (on -> off, off -> on)".  The
\* command's only PATCH of the variants that no failure hit has toggled them.
VariantToggled ==
    \A c \in Clis :
        (cli[c].pc = "end" /\ req[<<c, "variants">>].pc = "answered"
         /\ req[<<c, "variants">>].code # "500")
            => \A v \in cli[c].toggle : v \in row.variants <=> v \notin cli[c].cur.variants
=============================================================================
