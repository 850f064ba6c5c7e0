-------------------------------- MODULE Flags --------------------------------
(***************************************************************************)
(* The build flags and variants of one package, and the two clients that   *)
(* change them: the package page of the web UI, with its optimistic copy   *)
(* and its refresh, and `paur flag`.  Both send the whole column they want.*)
(* The builds that newly enabled variants get are Api's.  A column is the  *)
(* set of what is on; the variant default is always on and left out.       *)
(***************************************************************************)
EXTENDS Sessions

CONSTANTS
    Flag,        \* fields of PackageBuildFlags
    Optional,    \* variants that can be toggled
    Clis,        \* runs of `paur flag`
    Commands,    \* their arguments: [on, off, toggle]
    MaxOps,      \* toggles, commands and page visits
    NoRow        \* not a row

ASSUME FlagsAssumption ==
    /\ MaxOps \in Nat
    /\ Browsers \cap Clis = {}
    /\ Commands \subseteq [on : SUBSET Flag, off : SUBSET Flag, toggle : SUBSET Optional]
    /\ \A x \in Commands : x.on \cap x.off = {}

Column == {"flags", "variants"}
Row    == [flags : SUBSET Flag, variants : SUBSET Optional]

\* One PATCH at a time for each flag of a page (pendingFlag), for its variants
\* (pendingVariant), and for each column of a command.
Key  == Flag \cup {"variant"}
Reqs == (Browsers \X Key) \cup (Clis \X Column)

VARIABLES
    row,       \* the packages row
    ver,       \* history: how often build_flags was written
    req,       \* the PATCH requests
    page,      \* per browser: what the package page shows
    view,      \* per browser: "page", "login"
    fetched,   \* per browser: the answer of the refresh in flight
    cli,       \* the commands
    ops

flag_vars == <<row, ver, req, page, view, fetched, cli, ops>>

NoReq == [pc |-> "idle", col |-> "flags", body |-> {}, prev |-> {}, named |-> TRUE,
          code |-> "ok", dto |-> NoRow, wver |-> 0, dver |-> 0]
NoCli == [pc |-> "idle", on |-> {}, off |-> {}, toggle |-> {}, cur |-> NoRow]

FlagsInit ==
    /\ row = [flags |-> {}, variants |-> {}] /\ ver = 0
    /\ req = [r \in Reqs |-> NoReq]
    /\ page = [b \in Browsers |-> NoRow] /\ view = [b \in Browsers |-> "login"]
    /\ fetched = [b \in Browsers |-> NoRow]
    /\ cli = [c \in Clis |-> NoCli] /\ ops = 0

Flip(S, T) == (S \ T) \cup (T \ S)
Act        == ops < MaxOps /\ ops' = ops + 1

\* A client sends a PATCH with the whole column.
Send(r, col, body, prev, named) ==
    req' = [req EXCEPT ![r] = [NoReq EXCEPT !.pc = "extract", !.col = col, !.body = body,
                                            !.prev = prev, !.named = named]]
Answer(r, code) == req' = [req EXCEPT ![r].pc = "answered", ![r].code = code]
Forget(r)       == req' = [req EXCEPT ![r] = NoReq]

------------------------------------------------------------------------------
(* The handlers set_package_flags and set_package_variants *)

\* The extractors: a command comes from loopback, a browser needs a session; the
\* body of set_package_variants is an AddPackageBody, which has to have a name.
\* The row is then read to see that the package is there.
Loopback(r) == r[1] \in Clis
extract(r) ==
    /\ req[r].pc = "extract"
    /\ CASE ~Loopback(r) /\ password = 0 -> Answer(r, "503")
         [] ~Loopback(r) /\ password # 0 /\ ~Admin(r[1]) -> Answer(r, "401")
         [] (Loopback(r) \/ Admin(r[1])) /\ req[r].col = "variants" /\ ~req[r].named -> Answer(r, "422")
         [] OTHER -> req' = [req EXCEPT ![r].pc = "write"]
    /\ UNCHANGED <<session_vars, row, ver, page, view, fetched, cli, ops>>

\* Mutant: merge_from, where a false is a no-op.
merge_from(body)   == row.flags \cup body

\* replace_from, set_build_flags and set_variants: the column is the body.
replace_from(body) == body
patch_write(r) ==
    /\ req[r].pc = "write"
    /\ IF req[r].col = "flags"
       THEN row' = [row EXCEPT !.flags = replace_from(req[r].body)] /\ ver' = ver + 1
       ELSE row' = [row EXCEPT !.variants = req[r].body] /\ UNCHANGED ver
    /\ req' = [req EXCEPT ![r].pc = "reread", ![r].wver = ver']
    /\ UNCHANGED <<session_vars, page, view, fetched, cli, ops>>

\* The row is read again for the answer.
patch_reread(r) ==
    /\ req[r].pc = "reread"
    /\ req' = [req EXCEPT ![r].pc = "answered", ![r].dto = row, ![r].dver = ver]
    /\ UNCHANGED <<session_vars, row, ver, page, view, fetched, cli, ops>>

\* A statement fails, or the client's connection does, before or after the write.
patch_error(r) ==
    /\ req[r].pc \in {"write", "reread"}
    /\ Answer(r, "500")
    /\ UNCHANGED <<session_vars, row, ver, page, view, fetched, cli, ops>>

------------------------------------------------------------------------------
(* The package page *)

\* The page is opened, again only once its earlier requests are answered.
onMount(b) ==
    /\ view[b] = "login" /\ Act
    /\ fetched[b] = NoRow /\ \A k \in Key : req[<<b, k>>].pc = "idle"
    /\ view' = [view EXCEPT ![b] = "page"]
    /\ UNCHANGED <<session_vars, row, ver, req, page, fetched, cli>>

\* Mutant: no interval.
refresh_get_once(b) ==
    /\ view[b] = "page" /\ fetched[b] = NoRow /\ page[b] = NoRow
    /\ fetched' = [fetched EXCEPT ![b] = row]
    /\ UNCHANGED <<session_vars, row, ver, req, page, view, cli, ops>>

\* refresh, at the mount and every four seconds: two reads, one assignment.
refresh_get(b) ==
    /\ view[b] = "page" /\ fetched[b] = NoRow
    /\ fetched' = [fetched EXCEPT ![b] = row]
    /\ UNCHANGED <<session_vars, row, ver, req, page, view, cli, ops>>

refresh_set(b) ==
    /\ fetched[b] # NoRow
    /\ page' = IF view[b] = "page" THEN [page EXCEPT ![b] = fetched[b]] ELSE page
    /\ fetched' = [fetched EXCEPT ![b] = NoRow]
    /\ UNCHANGED <<session_vars, row, ver, req, view, cli, ops>>

Usable(b, k) ==
    view[b] = "page" /\ page[b] # NoRow /\ shown[b] /\ req[<<b, k>>].pc = "idle"

\* The page shows the new column before it is asked for.
Toggle(b, k, col, next) ==
    /\ Usable(b, k) /\ Act
    /\ Send(<<b, k>>, col, next, page[b][col], TRUE)
    /\ page' = [page EXCEPT ![b][col] = next]
    /\ UNCHANGED <<session_vars, row, ver, view, fetched, cli>>

\* Mutant: the variant goes to the other endpoint.
toggleVariant_flags(b, v) == Toggle(b, "variant", "flags", Flip(page[b].flags, {v}))

toggleFlag(b, f)    == Toggle(b, f, "flags", Flip(page[b].flags, {f}))
toggleVariant(b, v) == Toggle(b, "variant", "variants", Flip(page[b].variants, {v}))

\* The answer is the page's new state; after an error the column is put back,
\* and a 401 leads to the login page.
toggle_answer(b, k) ==
    LET q == req[<<b, k>>] IN
    /\ q.pc = "answered"
    /\ Forget(<<b, k>>)
    /\ page' = [page EXCEPT ![b] = IF @ = NoRow \/ q.code = "401" THEN NoRow
                                   ELSE IF q.code = "ok" THEN q.dto
                                   ELSE [@ EXCEPT ![q.col] = q.prev]]
    /\ view' = IF q.code = "401" THEN [view EXCEPT ![b] = "login"] ELSE view
    /\ UNCHANGED <<session_vars, row, ver, fetched, cli, ops>>

------------------------------------------------------------------------------
(* paur flag *)

Flags(x)    == (x.cur.flags \cup x.on) \ x.off
Variants(x) == Flip(x.cur.variants, x.toggle)

\* The variants are sent after the flags, and only if they change; this
\* client's body is {"variants": [...]}.
SendVariants(c, x) ==
    IF Variants(x) # x.cur.variants
    THEN /\ Send(<<c, "variants">>, "variants", Variants(x), {}, FALSE)
         /\ cli' = [cli EXCEPT ![c] = [x EXCEPT !.pc = "variants"]]
    ELSE /\ cli' = [cli EXCEPT ![c] = [x EXCEPT !.pc = "end"]]
         /\ UNCHANGED req

flag(c) ==
    /\ cli[c].pc = "idle" /\ Act
    /\ \E x \in Commands :
         cli' = [cli EXCEPT ![c] = [@ EXCEPT !.pc = "get", !.on = x.on, !.off = x.off,
                                             !.toggle = x.toggle]]
    /\ UNCHANGED <<session_vars, row, ver, req, page, view, fetched>>

\* get_package, and the merge of the arguments into what it returned.
flag_get(c) ==
    LET x == [cli[c] EXCEPT !.cur = row] IN
    /\ cli[c].pc = "get"
    /\ IF Flags(x) # x.cur.flags
       THEN /\ Send(<<c, "flags">>, "flags", Flags(x), {}, TRUE)
            /\ cli' = [cli EXCEPT ![c] = [x EXCEPT !.pc = "flags"]]
       ELSE SendVariants(c, x)
    /\ UNCHANGED <<session_vars, row, ver, page, view, fetched, ops>>

flag_answer(c) ==
    /\ cli[c].pc = "flags" /\ req[<<c, "flags">>].pc = "answered"
    /\ IF req[<<c, "flags">>].code = "ok" THEN SendVariants(c, cli[c])
       ELSE cli' = [cli EXCEPT ![c].pc = "end"] /\ UNCHANGED req
    /\ UNCHANGED <<session_vars, row, ver, page, view, fetched, ops>>

flag_end(c) ==
    /\ cli[c].pc = "variants" /\ req[<<c, "variants">>].pc = "answered"
    /\ cli' = [cli EXCEPT ![c].pc = "end"]
    /\ UNCHANGED <<session_vars, row, ver, req, page, view, fetched, ops>>

------------------------------------------------------------------------------

Handler(r) == extract(r) \/ patch_write(r) \/ patch_reread(r)

Page(b) ==
    \/ onMount(b) \/ refresh_get(b) \/ refresh_set(b)
    \/ \E f \in Flag : toggleFlag(b, f)
    \/ \E v \in Optional : toggleVariant(b, v)
    \/ \E k \in Key : toggle_answer(b, k)

Command(c) == flag(c) \/ flag_get(c) \/ flag_answer(c) \/ flag_end(c)

FlagsNext ==
    \/ \E b \in Browsers : Page(b)
    \/ \E c \in Clis : Command(c)
    \/ \E r \in Reqs : Handler(r) \/ patch_error(r)

\* The daemon answers the page, and the page refreshes: setInterval runs as
\* long as it is open.  Each request, and the refresh, has one step at a time.
FlagsFairness ==
    \A b \in Browsers :
        /\ \A k \in Key : WF_flag_vars(Handler(<<b, k>>) \/ toggle_answer(b, k))
        /\ WF_flag_vars(refresh_get(b) \/ refresh_set(b))
=============================================================================
