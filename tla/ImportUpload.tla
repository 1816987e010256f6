---------------------------- MODULE ImportUpload ----------------------------
(***************************************************************************)
(* Browser tabs that upload usage exports through the import sessions of   *)
(* the manager server: uploadUsageImportFile with its pointer in           *)
(* localStorage, cancelUsageImportFile, and what the transfer view shows.  *)
(* All files have one name, size and date, so that tabs of one browser     *)
(* share a localStorage entry and only the prefix digest tells the files   *)
(* apart.                                                                  *)
(***************************************************************************)
EXTENDS ImportSessions

CONSTANTS
    File,       \* exports a user may select
    Content,    \* File -> its chunks
    Selects,    \* tab -> the files its user may select
    Browser,    \* browser profiles, each with a localStorage
    Homes,      \* the ways the tabs may be spread over the browsers
    Cancellers, \* tabs whose users cancel
    MaxStarts,  \* bound: uploads started or resumed
    MaxCancels  \* bound: cancel clicks

ASSUME FilesFit ==
    /\ File # {}
    /\ Content \in [File -> [1 .. FileSize -> Block]]
    /\ Selects \in [Client -> SUBSET File]
    /\ Homes \subseteq [Client -> Browser]

VARIABLES
    home,       \* tab -> its browser, never changes
    stored,     \* browser -> the stored session id and resume key
    tab,        \* tab -> its upload, its cancellation and its display
    keys,       \* resume keys made so far
    starts,     \* uploads started
    cancels,    \* cancel clicks
    acked,      \* id -> the longest prefix a chunk answer confirmed to a tab
    cancelled   \* ids whose cancellation was confirmed to a tab

browser == <<home, stored, tab, keys, starts, cancels, acked, cancelled>>
vars == <<server, wire, faults, browser>>

NoStored == [id |-> 0, key |-> 0]

\* pc: the answer the tab waits for.  ses: the session its upload works on.
\* wanted, key: the session id and the resume key it began with.  late: an aborted upload of the
\* current operation has still to report.  checked: the server confirmed this
\* tab's whole file.
NewTab(f) ==
    [pc |-> "idle", file |-> f, ses |-> [id |-> 0, s |-> NoSession], wanted |-> 0, key |-> 0,
     tried |-> FALSE, checked |-> FALSE, late |-> FALSE, shown |-> "idle"]

UploadInit ==
    /\ Init
    /\ home \in Homes
    /\ stored = [b \in Browser |-> NoStored]
    /\ tab = [t \in Client |-> NewTab(CHOOSE f \in File : TRUE)]
    /\ keys = 0 /\ starts = 0 /\ cancels = 0
    /\ acked = [i \in Id |-> << >>]
    /\ cancelled = {}

-----------------------------------------------------------------------------
\* The digest of the first n chunks of the selected file.
Prefix(f, n) == SubSeq(Content[f], 1, n)

\* clearStoredSession: only the entry of the session the caller expects.
Cleared(st, id) == IF st.id = id THEN NoStored ELSE st

Entry(t) == stored[home[t]]
Store(t, st) == stored' = [stored EXCEPT ![home[t]] = st]

Ask(op, w) == [NoCall EXCEPT !.op = op, !.id = w.ses.id]

\* Mutant: the browser echoes the digest of the server.
ProveByEcho(op, w) == [Ask(op, w) EXCEPT !.digest = w.ses.s.digest]

\* A request with the digest of the selected file as far as the session is.
Prove(op, w) == [Ask(op, w) EXCEPT !.digest = Prefix(w.file, Len(w.ses.s.digest))]

NextChunk(w) ==
    LET n == Len(w.ses.s.digest)
    IN  [Prove("chunk", w) EXCEPT !.block = SubSeq(Content[w.file], n + 1, n + 1)]

\* Tab t becomes w and sends r, or stops and keeps only what the view keeps.
Send(t, w, pc, r) ==
    /\ tab' = [tab EXCEPT ![t] = [w EXCEPT !.pc = pc]]
    /\ call' = [call EXCEPT ![t] = r]
    /\ reply' = [reply EXCEPT ![t] = NoReply]

Resting(w, shown) ==
    [NewTab(w.file) EXCEPT !.ses.id = w.ses.id, !.checked = w.checked, !.late = w.late, !.shown = shown]

Stop(t, w, shown) ==
    /\ tab' = [tab EXCEPT ![t] = Resting(w, shown)]
    /\ reply' = [reply EXCEPT ![t] = NoReply]
    /\ UNCHANGED call

\* The end of resolveOrCreateSession: the resume key is stored before the
\* session is created, so that a lost answer does not cost a second session.
CreateWith(t, w, key) ==
    LET k == IF key = 0 THEN keys + 1 ELSE key
    IN  /\ keys' = IF key = 0 THEN keys + 1 ELSE keys
        /\ Store(t, [id |-> 0, key |-> k])
        /\ Send(t, [w EXCEPT !.key = k], "create", [NoCall EXCEPT !.op = "create", !.key = k])

\* One turn of the upload loop, with w.ses the session and st the stored entry.
Proceed(t, w, st) ==
    LET s == w.ses.s
        retry == s.status = "failed" /\ s.retryable /\ ~w.tried
    IN  /\ CASE s.status = "uploading" /\ s.digest = << >> ->
                  Send(t, w, "chunk", NextChunk(w)) /\ Store(t, st)
             [] \/ s.status = "uploading" /\ s.digest # << >>
                \/ s.status = "ready"
                \/ retry ->
                  /\ Send(t, [w EXCEPT !.tried = @ \/ retry], "validate", Prove("validate", w))
                  /\ Store(t, st)
             [] s.status = "processing" ->
                  Send(t, w, "poll", Ask("get", w)) /\ Store(t, st)
             [] s.status \in {"completed", "cancelled"} ->
                  Stop(t, w, s.status) /\ Store(t, Cleared(st, w.ses.id))
             [] s.status = "failed" /\ s.retryable /\ w.tried ->
                  Stop(t, w, "failed") /\ Store(t, st)
             [] s.status = "failed" /\ ~s.retryable ->
                  Stop(t, w, "rejected") /\ Store(t, Cleared(st, w.ses.id))
        /\ UNCHANGED keys

\* The catch clause, for an answer with this code.
Fails(t, w, code) ==
    /\ Stop(t, w, "failed")
    /\ Store(t, CASE code = "file_mismatch" -> Cleared(Entry(t), w.ses.id)
                  [] code = "conflict" /\ w.ses.id = 0 -> Cleared(Entry(t), 0)
                  [] OTHER -> Entry(t))
    /\ UNCHANGED keys

\* uploadUsageImportFile and the first half of resolveOrCreateSession.
Begin(t, f, id) ==
    LET target == IF id # 0 THEN id ELSE Entry(t).id
        w == [NewTab(f) EXCEPT !.wanted = id, !.key = Entry(t).key, !.shown = "busy"]
    IN  /\ starts < MaxStarts /\ starts' = starts + 1
        /\ IF target = 0
           THEN CreateWith(t, w, Entry(t).key)
           ELSE /\ Send(t, w, "get", [NoCall EXCEPT !.op = "get", !.id = target])
                /\ UNCHANGED <<stored, keys>>
        /\ UNCHANGED <<late, server, faults, home, cancels, acked, cancelled>>

Idle(t) == tab[t].pc = "idle" /\ ~tab[t].late

\* selectFile and confirmImport, perhaps for a session picked from the list; one
\* that this browser has stored is found without picking it.
SelectFile(t, f, id) ==
    /\ Idle(t) /\ (id = 0 \/ id # Entry(t).id)
    /\ id # 0 => \/ mem[id].status \in {"uploading", "ready"}
                 \/ mem[id].status = "failed" /\ mem[id].retryable
    /\ Begin(t, f, id)

\* The resume button.
Resume(t) ==
    /\ Idle(t) /\ tab[t].shown \in {"paused", "failed"}
    /\ Begin(t, tab[t].file, tab[t].ses.id)

-----------------------------------------------------------------------------
\* The upload of tab t goes on with the session in answer a.
With(t, a) == [tab[t] EXCEPT !.ses = [id |-> a.id, s |-> a.s]]

Waits(t, pc) == tab[t].pc = pc /\ reply[t] # NoReply

\* resolveOrCreateSession: the answer about the session to resume.
Resolved(t) ==
    LET a == reply[t]
        w == tab[t]
        usable == /\ a.code = "ok" /\ a.s.status # "cancelled"
                  /\ ~(a.s.status = "failed" /\ ~a.s.retryable)
    IN  /\ Waits(t, "get")
        /\ CASE usable -> Proceed(t, With(t, a), Entry(t))
             [] a.code = "ok" /\ ~usable /\ w.wanted # 0 -> Fails(t, w, "conflict")
             [] a.code = "ok" /\ ~usable /\ w.wanted = 0 -> CreateWith(t, w, 0)
             [] a.code = "not_found" /\ w.wanted = 0 -> CreateWith(t, w, w.key)
             [] OTHER -> Fails(t, w, a.code)
        /\ UNCHANGED <<acked, cancelled>>

Created(t) ==
    LET a == reply[t]
    IN  /\ Waits(t, "create")
        /\ IF a.code = "ok"
           THEN Proceed(t, With(t, a), [id |-> a.id, key |-> tab[t].key])
           ELSE Fails(t, tab[t], a.code)
        /\ UNCHANGED <<acked, cancelled>>

\* validateSessionPrefix: the next chunk, or Complete when all chunks are there.
Validated(t) ==
    LET a == reply[t]
        w == [With(t, a) EXCEPT !.checked = Len(a.s.digest) = FileSize]
    IN  /\ Waits(t, "validate")
        /\ IF a.code # "ok" \/ Len(a.s.digest) # Len(tab[t].ses.s.digest)
           THEN Fails(t, tab[t], a.code)
           ELSE /\ IF tab[t].ses.s.status = "uploading"
                   THEN Send(t, w, "chunk", NextChunk(w))
                   ELSE Send(t, w, "complete", Ask("complete", w))
                /\ UNCHANGED <<stored, keys>>
        /\ UNCHANGED <<acked, cancelled>>

ChunkAnswered(t) ==
    LET a == reply[t]
        advanced == a.code = "ok" /\ Len(a.s.digest) = Len(tab[t].ses.s.digest) + 1
    IN  /\ Waits(t, "chunk")
        /\ IF advanced
           THEN Proceed(t, With(t, a), [id |-> a.id, key |-> 0])
           ELSE Fails(t, tab[t], a.code)
        /\ acked' = IF advanced THEN [acked EXCEPT ![a.id] = a.s.digest] ELSE acked
        /\ UNCHANGED cancelled

\* The answers to Complete and to the poll that follows it.
Progressed(t) ==
    LET a == reply[t]
    IN  /\ Waits(t, "complete") \/ Waits(t, "poll")
        /\ IF a.code = "ok" THEN Proceed(t, With(t, a), Entry(t)) ELSE Fails(t, tab[t], a.code)
        /\ UNCHANGED <<acked, cancelled>>

\* pauseImport.
Pause(t) ==
    /\ tab[t].pc \in {"get", "create", "validate", "chunk", "complete", "poll"}
    /\ HangUp(t, NoCall, NoReply)
    /\ tab' = [tab EXCEPT ![t] = Resting(@, "paused")]
    /\ UNCHANGED <<home, stored, keys, starts, cancels, acked, cancelled>>

-----------------------------------------------------------------------------
\* cancelImport: the upload is aborted, and unwinds while the server is asked.
CancelClick(t) ==
    LET w == tab[t]
    IN  /\ t \in Cancellers
        /\ cancels < MaxCancels /\ cancels' = cancels + 1
        /\ w.ses.id # 0 /\ w.shown \notin {"completed", "cancelled"}
        /\ w.pc \notin {"cancel", "settle"}
        /\ HangUp(t, Ask("cancel", w), NoReply)
        /\ tab' = [tab EXCEPT ![t].pc = "cancel", ![t].late = w.pc # "idle"]
        /\ UNCHANGED <<home, stored, keys, starts, acked, cancelled>>

\* The aborted upload reports that it is paused, if its operation is current.
Unwind(t) ==
    /\ tab[t].late
    /\ tab' = [tab EXCEPT ![t].late = FALSE, ![t].shown = IF @ = "cancelled" THEN @ ELSE "paused"]
    /\ UNCHANGED <<server, wire, faults, home, stored, keys, starts, cancels, acked, cancelled>>

\* Mutant: the aborted upload keeps its operation.
SettledBeside(w) == w

\* The cancellation is settled: its operation replaces the aborted upload's.
Settled(w) == [w EXCEPT !.late = FALSE]

\* cancelUsageImportFile: polls while the server says processing, within a limit.
CancelAnswered(t) ==
    LET a == reply[t]
        w == With(t, a)
        id == tab[t].ses.id
        gone == a.code = "not_found" /\ tab[t].pc = "cancel"
    IN  /\ Waits(t, "cancel") \/ Waits(t, "settle")
        /\ \/ /\ a.code = "ok" /\ a.s.status = "processing"
              /\ Send(t, w, "settle", Ask("get", w)) \/ Stop(t, tab[t], tab[t].shown)
              /\ UNCHANGED stored
           \/ /\ gone \/ (a.code = "ok" /\ a.s.status \in {"completed", "cancelled"})
              /\ Stop(t, Settled(IF gone THEN tab[t] ELSE w), IF gone THEN "cancelled" ELSE a.s.status)
              /\ Store(t, Cleared(Entry(t), id))
           \/ /\ a.code = "ok" /\ a.s.status \notin {"processing", "completed", "cancelled"}
              /\ Stop(t, tab[t], tab[t].shown) /\ Store(t, Cleared(Entry(t), id))
           \/ /\ a.code # "ok" /\ ~gone
              /\ Stop(t, tab[t], tab[t].shown) /\ UNCHANGED stored
        /\ cancelled' = IF tab[t].pc = "cancel" /\ a.code = "ok" /\ a.s.status \in {"processing", "cancelled"}
                        THEN cancelled \cup {id} ELSE cancelled
        /\ UNCHANGED <<keys, acked>>

\* The tab reads the answer to its request.
Receive(t) ==
    /\ Resolved(t) \/ Created(t) \/ Validated(t) \/ ChunkAnswered(t) \/ Progressed(t) \/ CancelAnswered(t)
    /\ UNCHANGED <<late, server, faults, home, starts, cancels>>

\* No answer is on its way.  All delay is put on the way to the server: a tab
\* reads its answer, or gives it up, before anything else happens.
Quiet == \A t \in Client : reply[t] = NoReply

Next ==
    \/ Quiet /\ Background /\ UNCHANGED browser
    \/ Quiet /\ \E t \in Client : Unwind(t) \/ Resume(t) \/ \E f \in Selects[t], id \in 0 .. issued : SelectFile(t, f, id)
    \/ \E t \in Client : Pause(t) \/ CancelClick(t) \/ Receive(t) \/ (Lose(t) /\ UNCHANGED browser)

\* Copies and imports come to an end, the server handles what reaches it, and a
\* tab reads its answers.  Nothing obliges a user, and no fault has to happen.
Runs(id) == CopyChunk(id) \/ EndChunk(id) \/ ImportBatch(id) \/ EndImport(id)

Fairness ==
    /\ \A id \in Id : WF_vars(Runs(id) /\ UNCHANGED browser)
    /\ \A t \in Client : WF_vars((Serve(t) /\ UNCHANGED browser) \/ Receive(t))

Spec == UploadInit /\ [][Next]_vars /\ Fairness

-----------------------------------------------------------------------------
\* What the server keeps is the beginning of one of the files that were
\* selected, never the first chunks of one and the last of another.
NeverSpliced ==
    \A i \in Id : \E f \in File : IsPrefix(mem[i].digest, Content[f])

\* A chunk whose receipt was confirmed to a tab is still there when the session
\* can go on: no crash and no failed write takes it back.
AcknowledgedSurvives ==
    \A i \in Id : Reserves(mem[i]) =>
        IsPrefix(acked[i], mem[i].digest) /\ IsPrefix(acked[i], data[i])

\* A session whose cancellation was confirmed never completes and never takes
\* another chunk, across failing writes and restarts.
CancelIsFinal ==
    \A i \in cancelled :
        \/ mem[i].status \in {"none", "cancelled"}
        \/ mem[i].status = "processing" /\ mem[i].cancel

\* A tab that verified its whole file and shows success has its file imported.
VerifiedSuccess ==
    \A t \in Client : tab[t].checked /\ tab[t].shown = "completed" =>
        \A n \in 1 .. FileSize : Content[tab[t].file][n] \in imported

\* A tab that shows success has its own file imported.  The code does not keep
\* this: an upload that finds its session processing or completed verifies nothing.
SuccessIsForChosenFile ==
    \A t \in Client : tab[t].shown = "completed" =>
        \A n \in 1 .. FileSize : Content[tab[t].file][n] \in imported

\* The result of a settled cancellation stays on the screen until the user
\* starts again, however late the aborted upload reports.
SettledResultStays ==
    [][\A t \in Client : tab[t].shown \in {"completed", "cancelled"} /\ tab'[t].shown # tab[t].shown
         => tab'[t].shown = "busy"]_vars

\* Once the users start nothing more, every upload and every cancellation comes
\* to an end that the view shows; none waits for ever on another, on a chunk, on
\* a restarted server or on a lost answer.
UploadsEnd == <>[](\A t \in Client : tab[t].pc = "idle")
=============================================================================
