--------------------------- MODULE ProviderConfig ---------------------------
(***************************************************************************)
(* The AI-provider settings of one panel tab: the shared copy of the       *)
(* configuration (useConfigStore), the read-modify-write queue of a        *)
(* configuration section (providersApi), the connection whose change       *)
(* cancels what is in flight (apiClient, useAuthStore), and the page that  *)
(* edits the section optimistically (AiProvidersPage).  One section stands *)
(* for all of them: each has a queue of its own and a PUT writes no other. *)
(* The provider records are on, off or gone; nobody else edits them.       *)
(***************************************************************************)
EXTENDS Integers, Sequences, FiniteSets

CONSTANTS
    Server,      \* instances the tab can be connected to
    First,       \* the one it is connected to at first
    Record,      \* provider records, the same keys on every instance
    None,        \* no rows, no dialog
    MaxClicks,   \* bound: toggles, deletions and header refreshes
    MaxMounts,   \* bound: times the page is opened, switches included
    MaxFaults    \* bound: requests that fail

ASSUME FirstIsServer == First \in Server
ASSUME BoundsAreNat == MaxClicks \in Nat /\ MaxMounts \in Nat

VARIABLES
    conn,        \* the connected instance
    server,      \* instance -> its section
    store,       \* config: the shared copy; full: the cached whole
                 \* configuration; flight: the GET /config to join, 0 if none
    fetches,     \* GET /config requests, with what the server read, or None
    page,        \* the mounted settings page
    loads,       \* running loadConfigs calls
    ops,         \* queued updates of the section, the first one running
    wire,        \* writes on their way to a server
    dialog,      \* the confirmation dialog of a deletion
    doubt,       \* ghost: copies that overlapping requests may have spoilt,
                 \* and whether an update's outcome was never learnt
    clicks,      \* clicks so far
    faults       \* requests failed so far

vars == <<conn, server, store, fetches, page, loads, ops, wire, dialog, doubt,
          clicks, faults>>

Copies == {"page", "store"}
Doubts == Copies \cup {"outcome"}
Section == [Record -> {"on", "off", "gone"}]

\* Rows remember the instance they were read from.
Rows == [of : Server, val : Section]
RequestId == 1 .. MaxMounts + MaxClicks

\* No rows are not rows, and no dialog is not a dialog.
ASSUME NoneIsNothing ==
    /\ None \notin Rows
    /\ None \notin [rec : Record, rows : Rows, mount : 1 .. MaxMounts, sent : BOOLEAN]

NewPage(n) == [mount |-> n, shown |-> FALSE, due |-> FALSE, rows |-> None,
               locked |-> FALSE, loading |-> FALSE]

Init ==
    /\ conn = First
    /\ server = [s \in Server |-> [r \in Record |-> "on"]]
    /\ store = [config |-> None, full |-> None, flight |-> 0]
    /\ fetches = {} /\ loads = {} /\ ops = <<>> /\ wire = {}
    /\ page = NewPage(0)
    /\ dialog = None
    /\ doubt = {} /\ clicks = 0 /\ faults = 0

-----------------------------------------------------------------------------
(* The shared copy. *)

\* Mutant: a section's edit leaves a running request alone.
EditedBesideFetch(st, rows) == [st EXCEPT !.config = rows, !.full = None]

\* updateConfigValue(section) and clearCache(section): the copy takes the
\* rows, the cached whole is dropped and a running request no longer counts.
Edited(st, rows) == [st EXCEPT !.config = rows, !.full = None, !.flight = 0]

\* clearCache of another section.
Invalidated(st) == [st EXCEPT !.full = None, !.flight = 0]

\* clearCache(): header refresh, change of connection.
Emptied == [config |-> None, full |-> None, flight |-> 0]

\* The page's effect shows every new version of the section in the copy.
Shown(pg, rows) == IF pg.shown THEN [pg EXCEPT !.rows = rows] ELSE pg

\* fetchConfig with the copy st: the cached whole, the request to join, or a
\* new one.
Fetch(st, forced) ==
    LET free == CHOOSE n \in RequestId : \A f \in fetches : f.id # n IN
    IF st.full # None /\ ~forced THEN [id |-> 0, data |-> st.full]
    ELSE [id |-> IF st.flight # 0 THEN st.flight ELSE free, data |-> None]

Asks(st, got) ==
    IF got.id = 0 \/ got.id = st.flight
    THEN store' = st /\ UNCHANGED fetches
    ELSE /\ store' = [st EXCEPT !.flight = got.id]
         /\ fetches' = fetches \cup {[id |-> got.id, read |-> None]}

\* The own writes that have not been answered, and may still be applied.
Busy(queue) == queue # <<>> \/ wire # {} \/ dialog # None
Reading == fetches # {} \/ loads # {}

\* What a request that reads, or one that writes, puts in doubt.
ReadDoubt(queue) == doubt' = IF Busy(queue) THEN doubt \cup Copies ELSE doubt
WriteDoubt ==
    doubt' = IF Busy(ops) \/ "page" \in doubt THEN doubt \cup Copies
             ELSE IF Reading THEN doubt \cup {"page"} ELSE doubt

\* loadConfigs of the page pg with the copy st; a toggle keeps the lock of
\* its page until its load has ended.
Load(st, pg, mount, locks) ==
    LET got == Fetch(st, FALSE) IN
    /\ Asks(st, got)
    /\ loads' = loads \cup {[mount |-> mount, locks |-> locks, fetch |-> got.id,
                             data |-> got.data]}
    /\ page' = IF pg.shown /\ pg.mount = mount /\ st.full = None
               THEN [pg EXCEPT !.loading = TRUE] ELSE pg

\* The state setters and the finally blocks of the calls ls, which reach the
\* page only if it is still the one that made them.
Ended(pg, ls) ==
    LET mine == {l \in ls : l.mount = pg.mount /\ pg.shown} IN
    [pg EXCEPT !.loading = @ /\ mine = {},
               !.locked = @ /\ \A l \in mine : ~l.locks]

-----------------------------------------------------------------------------
(* The update queue: what runs without waiting for user or network. *)

\* Mutant: the signal is taken only when an update's turn comes.
AdmittedLate(op) == TRUE

\* throwIfAborted on the signal taken when the update was asked for.
Admitted(op) == ~op.aborted

Fails(op) == op.stage = "failed" \/ (op.stage = "reading" /\ ~Admitted(op))

\* Promise callbacks and React effects run before the next event.
Calm == ~page.due /\ {n \in DOMAIN ops : n = 1 /\ Fails(ops[n])} = {}

\* Mutant: no finally block.
StaysLocked(op) ==
    /\ store' = Edited(store, op.prev)
    /\ page' = Shown(page, op.prev)

\* A failed toggle puts its page's earlier rows back and frees the page.
RolledBack(op) ==
    /\ store' = Edited(store, op.prev)
    /\ page' = [Shown(page, op.prev) EXCEPT
                    !.locked = @ /\ op.mount # page.mount]

Fail ==
    /\ ops # <<>> /\ Fails(Head(ops))
    /\ RolledBack(Head(ops))
    /\ ops' = Tail(ops)
    /\ UNCHANGED <<conn, server, fetches, loads, wire, dialog, doubt, clicks,
                   faults>>

\* The effects of a changed connection: the page is mounted anew, and the
\* layout fetches the configuration, joining the page's request.
Rerender ==
    /\ page.due
    /\ IF page.shown
       THEN LET pg == [NewPage(page.mount) EXCEPT !.shown = TRUE,
                                                  !.rows = store.config] IN
            Load(store, pg, page.mount, FALSE)
       ELSE /\ Asks(store, Fetch(store, FALSE))
            /\ page' = NewPage(page.mount)
            /\ UNCHANGED loads
    /\ ReadDoubt(ops)
    /\ UNCHANGED <<conn, server, ops, wire, dialog, clicks, faults>>

-----------------------------------------------------------------------------
(* Requests of the queue: GET /config, then PUT of the whole section. *)

Put(op, latest) == [kind |-> "put", rec |-> op.rec, to |-> conn, meant |-> op.home,
                    live |-> TRUE, val |-> [latest EXCEPT ![op.rec] = op.to]]

\* Mutant: updates do not wait for one another.
TurnsAtOnce == {n \in 1 .. Len(ops) : \A m \in 1 .. n - 1 : ~Fails(ops[m])}

\* An update takes its turn alone: only the first of the queue reads.
Turns == IF ops = <<>> THEN {} ELSE {1}

\* The update reads the section as it is now and changes its own record; the
\* record must still be there.
ReadLatest ==
    /\ Calm
    /\ \E n \in Turns :
        LET op == ops[n]
            latest == server[conn] IN
        /\ op.stage = "reading"
        /\ IF latest[op.rec] = "gone"
           THEN /\ ops' = [ops EXCEPT ![n].stage = "failed"]
                /\ UNCHANGED wire
           ELSE /\ ops' = [ops EXCEPT ![n].stage = "writing"]
                /\ wire' = wire \cup {Put(op, latest)}
    /\ UNCHANGED <<conn, server, store, fetches, page, loads, dialog, doubt, clicks,
                   faults>>

\* A GET or a PUT of the queue fails before the server has applied anything.
Refused ==
    /\ Calm /\ faults < MaxFaults
    /\ faults' = faults + 1
    /\ \E n \in Turns :
        /\ ops[n].stage \in {"reading", "writing"}
        /\ ops' = [ops EXCEPT ![n].stage = "failed"]
        /\ wire' = {w \in wire : ~(w.live /\ w.kind = "put" /\ w.rec = ops[n].rec)}
    /\ UNCHANGED <<conn, server, store, fetches, page, loads, dialog, doubt, clicks>>

\* The update is given up, by a timeout, while its PUT or the answer to it is
\* still on the way.
TimesOut ==
    /\ Calm /\ faults < MaxFaults
    /\ faults' = faults + 1
    /\ \E n \in Turns :
        /\ ops[n].stage \in {"writing", "written"}
        /\ ops' = [ops EXCEPT ![n].stage = "failed"]
        /\ wire' = {IF w.kind = "put" /\ w.rec = ops[n].rec
                    THEN [w EXCEPT !.live = FALSE] ELSE w : w \in wire}
    /\ doubt' = Doubts
    /\ UNCHANGED <<conn, server, store, fetches, page, loads, dialog, clicks>>

PutArrives ==
    /\ Calm
    /\ \E w \in wire :
        /\ w.kind = "put"
        /\ server' = [server EXCEPT ![w.to] = w.val]
        /\ wire' = wire \ {w}
        /\ ops' = [n \in DOMAIN ops |->
                     IF w.live /\ ops[n].stage = "writing" /\ ops[n].rec = w.rec
                     THEN [ops[n] EXCEPT !.stage = "written"] ELSE ops[n]]
    /\ UNCHANGED <<conn, store, fetches, page, loads, dialog, doubt, clicks, faults>>

\* A write whose request was cancelled never reaches its server.
WriteLost ==
    /\ Calm
    /\ \E w \in wire : ~w.live /\ wire' = wire \ {w}
    /\ UNCHANGED <<conn, server, store, fetches, page, loads, ops, dialog, doubt, clicks,
                   faults>>

\* The update's caller reloads the page's lists; the next update begins.
Updated ==
    /\ Calm
    /\ \E n \in Turns :
        /\ ops[n].stage = "written"
        /\ ops' = SubSeq(ops, 1, n - 1) \o SubSeq(ops, n + 1, Len(ops))
        /\ Load(store, page, ops[n].mount, TRUE)
        /\ ReadDoubt(ops')
    /\ UNCHANGED <<conn, server, wire, dialog, clicks, faults>>

-----------------------------------------------------------------------------
(* Requests for the whole configuration. *)

\* The server reads its configuration for a request.
FetchRead ==
    /\ Calm
    /\ \E f \in fetches :
        /\ f.read = None
        /\ fetches' = (fetches \ {f})
               \cup {[f EXCEPT !.read = [of |-> conn, val |-> server[conn]]]}
    /\ UNCHANGED <<conn, server, store, page, loads, ops, wire, dialog, doubt, clicks,
                   faults>>

\* The answer goes to everyone who waits, and to the copy if the request still
\* counts.
FetchAnswered ==
    /\ Calm
    /\ \E f \in fetches :
        /\ f.read # None
        /\ fetches' = fetches \ {f}
        /\ loads' = {IF l.fetch = f.id /\ l.data = None THEN [l EXCEPT !.data = f.read]
                     ELSE l : l \in loads}
        /\ IF f.id = store.flight
           THEN /\ store' = [config |-> f.read, full |-> f.read, flight |-> 0]
                /\ page' = Shown(page, f.read)
           ELSE UNCHANGED <<store, page>>
    /\ UNCHANGED <<conn, server, ops, wire, dialog, doubt, clicks, faults>>

\* Mutant: no finally block in fetchConfig.
StaysInFlight(st, f) == st

\* A request that has ended is not joined any more.
Settled(st, f) == IF st.flight = f.id THEN [st EXCEPT !.flight = 0] ELSE st

FetchFails ==
    /\ Calm /\ faults < MaxFaults
    /\ faults' = faults + 1
    /\ \E f \in fetches :
        LET waiting == {l \in loads : l.fetch = f.id /\ l.data = None} IN
        /\ fetches' = fetches \ {f}
        /\ loads' = loads \ waiting
        /\ page' = Ended(page, waiting)
        /\ store' = Settled(store, f)
    /\ UNCHANGED <<conn, server, ops, wire, dialog, doubt, clicks>>

\* A loadConfigs call that has the configuration ends when the answers to its
\* two requests for other sections are in; if one succeeded it edits that
\* section of the copy.
LoadEnds ==
    /\ Calm
    /\ \E l \in loads, other \in BOOLEAN :
        /\ l.data # None
        /\ loads' = loads \ {l}
        /\ page' = Ended(IF l.mount = page.mount THEN Shown(page, l.data) ELSE page, {l})
        /\ store' = IF other THEN Invalidated(store) ELSE store
    /\ UNCHANGED <<conn, server, fetches, ops, wire, dialog, doubt, clicks, faults>>

\* The cached whole is older than CACHE_EXPIRY_MS.
Expires ==
    /\ Calm /\ store.full # None
    /\ store' = [store EXCEPT !.full = None]
    /\ UNCHANGED <<conn, server, fetches, page, loads, ops, wire, dialog, doubt, clicks,
                   faults>>

-----------------------------------------------------------------------------
(* The user. *)

Clicks ==
    /\ Calm /\ dialog = None /\ clicks < MaxClicks
    /\ clicks' = clicks + 1

\* The rows whose buttons can be pressed.
Offered == IF page.shown /\ ~page.locked /\ ~page.loading /\ page.rows # None
           THEN {r \in Record : page.rows.val[r] # "gone"} ELSE {}

\* setConfigEnabled: take the page's lock, edit page and copy at once, queue
\* the update.
Toggle ==
    /\ Clicks
    /\ \E r \in Offered :
        LET to == IF page.rows.val[r] = "on" THEN "off" ELSE "on"
            next == [page.rows EXCEPT !.val[r] = to] IN
        /\ page' = [page EXCEPT !.rows = next, !.locked = TRUE]
        /\ store' = Edited(store, next)
        /\ ops' = Append(ops, [mount |-> page.mount, rec |-> r, to |-> to, home |-> conn,
                               prev |-> page.rows, stage |-> "reading", aborted |-> FALSE])
    /\ WriteDoubt
    /\ UNCHANGED <<conn, server, fetches, loads, wire, dialog, faults>>

\* The dialog keeps the rows of the moment it was opened.
AskDelete ==
    /\ Clicks
    /\ \E r \in Offered :
        dialog' = [rec |-> r, rows |-> page.rows, mount |-> page.mount, sent |-> FALSE]
    /\ UNCHANGED <<conn, server, store, fetches, page, loads, ops, wire, doubt, faults>>

\* The deletion does not pass through the queue.
ConfirmDelete ==
    /\ Calm /\ dialog # None /\ ~dialog.sent
    /\ dialog' = [dialog EXCEPT !.sent = TRUE]
    /\ wire' = wire \cup {[kind |-> "delete", rec |-> dialog.rec, to |-> conn,
                           meant |-> dialog.rows.of, live |-> TRUE]}
    /\ doubt' = IF ops # <<>> \/ wire # {} \/ "page" \in doubt THEN doubt \cup Copies
                ELSE IF Reading THEN doubt \cup {"page"} ELSE doubt
    /\ UNCHANGED <<conn, server, store, fetches, page, loads, ops, clicks, faults>>

CancelDelete ==
    /\ Calm /\ dialog # None /\ ~dialog.sent
    /\ dialog' = None
    /\ UNCHANGED <<conn, server, store, fetches, page, loads, ops, wire, doubt, clicks,
                   faults>>

DeleteArrives ==
    /\ Calm
    /\ \E w \in wire :
        /\ w.kind = "delete"
        /\ server' = [server EXCEPT ![w.to][w.rec] = "gone"]
        /\ wire' = wire \ {w}
    /\ UNCHANGED <<conn, store, fetches, page, loads, ops, dialog, doubt, clicks, faults>>

\* The request of the dialog that is still out.
Deleting == {w \in wire : w.kind = "delete" /\ w.live}

Deleted ==
    /\ Calm /\ dialog # None /\ dialog.sent /\ Deleting = {}
    /\ LET next == [dialog.rows EXCEPT !.val[dialog.rec] = "gone"] IN
       /\ store' = Edited(store, next)
       /\ page' = Shown(page, next)
    /\ dialog' = None
    /\ UNCHANGED <<conn, server, fetches, loads, ops, wire, doubt, clicks, faults>>

DeleteRefused ==
    /\ Calm /\ dialog # None /\ dialog.sent /\ faults < MaxFaults
    /\ faults' = faults + 1
    /\ wire' = wire \ Deleting
    /\ dialog' = None
    /\ doubt' = doubt \cup Copies
    /\ UNCHANGED <<conn, server, store, fetches, page, loads, ops, clicks>>

\* handleRefreshAll of the header.
RefreshAll ==
    /\ Clicks
    /\ Asks(Emptied, Fetch(Emptied, TRUE))
    /\ ReadDoubt(ops)
    /\ UNCHANGED <<conn, server, page, loads, ops, wire, dialog, faults>>

Open ==
    /\ Calm /\ ~page.shown /\ page.mount < MaxMounts
    /\ LET n == page.mount + 1
           pg == [NewPage(n) EXCEPT !.shown = TRUE, !.rows = store.config] IN
       Load(store, pg, n, FALSE)
    /\ ReadDoubt(ops)
    /\ UNCHANGED <<conn, server, ops, wire, dialog, clicks, faults>>

Leave ==
    /\ Calm /\ page.shown
    /\ page' = NewPage(page.mount)
    /\ UNCHANGED <<conn, server, store, fetches, loads, ops, wire, dialog, doubt, clicks,
                   faults>>

\* switchInstanceScope: every request under way is cancelled, those that write
\* may still arrive; the copy is emptied, the page will be mounted anew, an
\* open dialog stays.
Switch ==
    /\ Calm /\ page.mount < MaxMounts
    /\ \E s \in Server \ {conn} : conn' = s
    /\ store' = Emptied
    /\ fetches' = {}
    /\ loads' = {l \in loads : l.data # None}
    /\ ops' = [n \in DOMAIN ops |->
                 [ops[n] EXCEPT !.aborted = TRUE,
                                !.stage = IF @ = "reading" /\ n > 1 THEN @ ELSE "failed"]]
    /\ wire' = {[w EXCEPT !.live = FALSE] : w \in wire}
    /\ page' = [NewPage(page.mount + 1) EXCEPT !.shown = page.shown, !.due = TRUE]
    /\ dialog' = IF dialog # None /\ dialog.sent THEN None ELSE dialog
    /\ doubt' = IF ops # <<>> \/ dialog # None THEN Doubts ELSE doubt
    /\ UNCHANGED <<server, clicks, faults>>

-----------------------------------------------------------------------------
Network ==
    \/ Fail \/ Rerender
    \/ ReadLatest \/ PutArrives \/ Updated
    \/ FetchRead \/ FetchAnswered \/ LoadEnds
    \/ DeleteArrives \/ Deleted

Next ==
    \/ Network
    \/ Refused \/ TimesOut \/ WriteLost \/ FetchFails \/ DeleteRefused \/ Expires
    \/ Toggle \/ AskDelete \/ ConfirmDelete \/ CancelDelete \/ RefreshAll
    \/ Open \/ Leave \/ Switch

\* Callbacks run and requests end, with an answer or a timeout.
Spec == Init /\ [][Next]_vars /\ WF_vars(Network)

-----------------------------------------------------------------------------
(* Properties. *)

ProviderTypeOK ==
    /\ conn \in Server
    /\ server \in [Server -> Section]
    /\ store \in [config : Rows \cup {None}, full : Rows \cup {None},
                  flight : RequestId \cup {0}]
    /\ fetches \subseteq [id : RequestId, read : Rows \cup {None}]
    /\ page \in [mount : 0 .. MaxMounts, shown : BOOLEAN, due : BOOLEAN,
                 rows : Rows \cup {None}, locked : BOOLEAN, loading : BOOLEAN]
    /\ loads \subseteq [mount : 1 .. MaxMounts, locks : BOOLEAN,
                        fetch : RequestId \cup {0}, data : Rows \cup {None}]
    /\ \A n \in 1 .. Len(ops) :
        ops[n] \in [mount : 1 .. MaxMounts, rec : Record, to : {"on", "off"},
                    home : Server, prev : Rows, aborted : BOOLEAN,
                    stage : {"reading", "writing", "written", "failed"}]
    /\ doubt \subseteq Doubts
    \* a request to join is under way
    /\ store.flight # 0 => \E f \in fetches : f.id = store.flight

\* The queue loses no update: a PUT carries the whole section, and changes no
\* record but the one its update is for, as long as no update was given up
\* while it could still be applied.  A record that was deleted between the update's GET and its
\* PUT does come back: deletions do not pass through the queue.
UpdatesKeepOthers ==
    [][\A s \in Server, r \in Record :
          server'[s][r] # server[s][r] =>
              \/ server[s][r] = "gone" \/ "outcome" \in doubt
              \/ \E w \in wire \ wire' : w.rec = r]_vars

\* An update asked for on one instance is never written to another, however
\* long it waited in the queue while the user switched.
WritesStayHome ==
    [][\A s \in Server :
          server'[s] # server[s] =>
              \E w \in wire \ wire' : w.kind = "put" => w.meant = s]_vars

Quiet == ops = <<>> /\ wire = {} /\ fetches = {} /\ loads = {} /\ dialog = None
         /\ ~page.due

\* While the tab stays on an instance: once nothing is under way, the page and
\* the shared copy show what the server has, whatever failed and was rolled
\* back.  Excepted are a write that overlapped another write or a later read,
\* and one whose outcome the tab never learnt; and for the page a write that
\* began while a list was loading.  A copy needs no such exception: a running
\* read no longer counts once a write has edited the copy.  A switch during a
\* write is excepted too, and is what CopyIsOfInstance is about.
ShowsWhatIsSaved ==
    Quiet =>
        LET saved == [of |-> conn, val |-> server[conn]] IN
        /\ "page" \notin doubt => page.rows \in {None, saved}
        /\ "store" \notin doubt => store.config \in {None, saved}

\* "Requests and caches are isolated by instance, an old response cannot
\* overwrite the new instance" (docs/multi-instance.md): once nothing is under
\* way, the shared copy holds no rows of an instance the tab has left.
CopyIsOfInstance ==
    Quiet /\ store.config # None => store.config.of = conn

\* Whatever fails, the page's controls are given back.
ControlsComeBack ==
    (page.locked \/ page.loading) ~> (~page.locked /\ ~page.loading)
=============================================================================
