------------------------ MODULE ProviderConfigProofs ------------------------
(***************************************************************************)
(* Proofs about the provider settings, for any instances, records, clicks, *)
(* mounts and failures.  First, that no update reaches an instance it was  *)
(* not asked for on, and that none is lost; at the end, that page and copy *)
(* end up with what is saved.  The first claim speaks of one PUT; the      *)
(* invariant HomeInv says where the PUT gets its two instances from: an    *)
(* update that can still send one was asked for on the connected instance, *)
(* because a switch aborts every queued update, the waiting ones included. *)
(* What the rows contain does not matter there, so HomeInv has shapes of   *)
(* records in place of types.                                              *)
(***************************************************************************)
EXTENDS ProviderConfig, SequenceTheorems, FiniteSetTheorems, TLAPS

\* An update of the queue, and one that may still send its PUT to c.
IsUpdate(op) ==
    op \in [mount : {op.mount}, rec : {op.rec}, to : {"on", "off"}, home : {op.home},
            prev : {op.prev}, stage : {op.stage}, aborted : BOOLEAN]

MaySend(op, c) == ~op.aborted => op.home = c

\* The queue is a sequence of updates that may send to c only.
QueueHome(queue, c) ==
    \E S : queue \in Seq(S) /\ \A op \in S : IsUpdate(op) /\ MaySend(op, c)

\* A write on its way, which is meant for the instance it is going to.
IsPut(w) ==
    /\ w \in [kind : {"put"}, rec : {w.rec}, to : {w.to}, meant : {w.meant},
              live : {w.live}, val : {w.val}]
    /\ w.meant = w.to

IsDelete(w) ==
    w \in [kind : {"delete"}, rec : {w.rec}, to : {w.to}, meant : {w.meant},
           live : {w.live}]

WireHome(writes) == \A w \in writes : IsPut(w) \/ IsDelete(w)

ServerShape == server = [s \in Server |-> server[s]]

HomeInv == QueueHome(ops, conn) /\ WireHome(wire) /\ ServerShape

-----------------------------------------------------------------------------
\* A stage changes neither the shape of an update nor where it may send.
LEMMA StageKeepsUpdate ==
  ASSUME NEW op, IsUpdate(op), NEW x
  PROVE  /\ IsUpdate([op EXCEPT !.stage = x])
         /\ [op EXCEPT !.stage = x].home = op.home
         /\ [op EXCEPT !.stage = x].aborted = op.aborted
  BY DEF IsUpdate

\* A switch leaves an update that may send nowhere.
LEMMA AbortKeepsUpdate ==
  ASSUME NEW op, IsUpdate(op), NEW x, NEW c
  PROVE  /\ IsUpdate([op EXCEPT !.aborted = TRUE, !.stage = x])
         /\ MaySend([op EXCEPT !.aborted = TRUE, !.stage = x], c)
  BY DEF IsUpdate, MaySend

\* Giving up a write changes neither its kind nor its instances.
LEMMA CutOffKeepsWrite ==
  ASSUME NEW w, IsPut(w) \/ IsDelete(w)
  PROVE  IsPut([w EXCEPT !.live = FALSE]) \/ IsDelete([w EXCEPT !.live = FALSE])
<1>1. CASE IsPut(w)
  BY <1>1 DEF IsPut
<1>2. CASE IsDelete(w)
  BY <1>2 DEF IsDelete
<1>3. QED
  BY <1>1, <1>2

\* Replacing the updates of a queue, one by one, keeps it a queue.
LEMMA MappedQueue ==
  ASSUME NEW queue, NEW S, queue \in Seq(S), NEW next, NEW c,
         next = [n \in DOMAIN queue |-> next[n]],
         \A n \in DOMAIN queue : IsUpdate(next[n]) /\ MaySend(next[n], c)
  PROVE  QueueHome(next, c)
<1> DEFINE T == {next[n] : n \in DOMAIN queue}
<1>1. Len(queue) \in Nat /\ DOMAIN queue = 1 .. Len(queue)
  BY LenProperties
<1>2. next \in [1 .. Len(queue) -> T]
  BY <1>1
<1>3. next \in Seq(T)
  BY <1>1, <1>2, SeqDef
<1>4. \A op \in T : IsUpdate(op) /\ MaySend(op, c)
  OBVIOUS
<1> HIDE DEF T
<1>5. QED
  BY <1>3, <1>4 DEF QueueHome

\* An element of the queue.
LEMMA QueueElement ==
  ASSUME NEW queue, NEW c, QueueHome(queue, c), NEW n \in DOMAIN queue
  PROVE  IsUpdate(queue[n]) /\ MaySend(queue[n], c)
<1>1. PICK S : queue \in Seq(S) /\ \A op \in S : IsUpdate(op) /\ MaySend(op, c)
  BY DEF QueueHome
<1>2. queue[n] \in S
  BY <1>1, LenProperties, ElementOfSeq
<1>3. QED
  BY <1>1, <1>2

\* A changed stage of one update.
LEMMA RestagedQueue ==
  ASSUME NEW queue, NEW c, QueueHome(queue, c), NEW n \in DOMAIN queue, NEW x
  PROVE  QueueHome([queue EXCEPT ![n].stage = x], c)
<1> DEFINE next == [queue EXCEPT ![n].stage = x]
<1>1. PICK S : queue \in Seq(S) /\ \A op \in S : IsUpdate(op) /\ MaySend(op, c)
  BY DEF QueueHome
<1>2. next = [m \in DOMAIN queue |-> next[m]]
  OBVIOUS
<1>3. \A m \in DOMAIN queue : next[m] = IF m = n THEN [queue[n] EXCEPT !.stage = x] ELSE queue[m]
  OBVIOUS
<1>4. \A m \in DOMAIN queue : IsUpdate(next[m]) /\ MaySend(next[m], c)
  BY <1>3, QueueElement, StageKeepsUpdate DEF MaySend
<1> HIDE DEF next
<1>5. QueueHome(next, c)
  BY <1>1, <1>2, <1>4, MappedQueue
<1>6. QED
  BY <1>5 DEF next

-----------------------------------------------------------------------------
LEMMA HomeInit == Init => HomeInv
<1> SUFFICES ASSUME Init PROVE HomeInv
  OBVIOUS
<1>1. ops \in Seq({}) /\ wire = {} /\ ServerShape
  BY DEF Init, ServerShape
<1>2. QED
  BY <1>1 DEF HomeInv, QueueHome, WireHome

\* The first update of a calm queue that is about to read may send.
LEMMA ReaderIsHome ==
  ASSUME HomeInv, Calm, NEW n \in Turns, ops[n].stage = "reading"
  PROVE  n \in DOMAIN ops /\ ops[n].home = conn
<1>1. PICK S : ops \in Seq(S)
  BY DEF HomeInv, QueueHome
<1>2. n = 1 /\ ops # <<>>
  BY DEF Turns
<1>3. n \in DOMAIN ops
  BY <1>1, <1>2, EmptySeq, LenProperties
<1>4. ~ops[n].aborted
  BY <1>2, <1>3 DEF Calm, Fails, Admitted
<1>5. QED
  BY <1>3, <1>4, QueueElement DEF HomeInv, MaySend

\* The update whose turn it is belongs to the queue.
LEMMA TurnInQueue ==
  ASSUME HomeInv, NEW n \in Turns
  PROVE  n = 1 /\ n \in DOMAIN ops /\ Len(ops) \in Nat /\ DOMAIN ops = 1 .. Len(ops)
<1>1. PICK S : ops \in Seq(S)
  BY DEF HomeInv, QueueHome
<1>2. QED
  BY <1>1, EmptySeq, LenProperties DEF Turns

LEMMA HomeStep == HomeInv /\ [Next]_vars => HomeInv'
<1> SUFFICES ASSUME HomeInv, [Next]_vars PROVE HomeInv'
  OBVIOUS
<1>0. PICK S : ops \in Seq(S) /\ \A op \in S : IsUpdate(op) /\ MaySend(op, conn)
  BY DEF HomeInv, QueueHome
<1>s. ASSUME UNCHANGED <<conn, ops, wire, server>> PROVE HomeInv'
  BY <1>s DEF HomeInv, ServerShape
<1>f. CASE Fail
  <2>1. Tail(ops) \in Seq(S)
    BY <1>0, <1>f, HeadTailProperties DEF Fail
  <2>2. QueueHome(ops', conn')
    BY <1>0, <1>f, <2>1 DEF Fail, QueueHome
  <2>3. QED
    BY <1>f, <2>2 DEF Fail, HomeInv, ServerShape
<1>r. CASE ReadLatest
  <2> PICK n \in Turns :
        /\ ops[n].stage = "reading"
        /\ IF server[conn][ops[n].rec] = "gone"
           THEN ops' = [ops EXCEPT ![n].stage = "failed"] /\ wire' = wire
           ELSE /\ ops' = [ops EXCEPT ![n].stage = "writing"]
                /\ wire' = wire \cup {Put(ops[n], server[conn])}
    BY <1>r DEF ReadLatest
  <2>1. n \in DOMAIN ops /\ ops[n].home = conn
    BY <1>r, ReaderIsHome DEF ReadLatest
  <2>2. QueueHome(ops', conn)
    BY <2>1, RestagedQueue DEF HomeInv
  <2>3. IsPut(Put(ops[n], server[conn]))
    BY <2>1 DEF IsPut, Put
  <2>4. WireHome(wire')
    BY <2>3 DEF HomeInv, WireHome
  <2>5. QED
    BY <1>r, <2>2, <2>4 DEF ReadLatest, HomeInv, ServerShape
<1>e. CASE Refused
  <2> PICK n \in Turns : /\ ops' = [ops EXCEPT ![n].stage = "failed"]
                         /\ wire' \subseteq wire
    BY <1>e DEF Refused
  <2>1. QueueHome(ops', conn)
    BY TurnInQueue, RestagedQueue DEF HomeInv
  <2>2. QED
    BY <1>e, <2>1 DEF Refused, HomeInv, WireHome, ServerShape
<1>t. CASE TimesOut
  <2> PICK n \in Turns :
        /\ ops' = [ops EXCEPT ![n].stage = "failed"]
        /\ wire' = {IF w.kind = "put" /\ w.rec = ops[n].rec
                    THEN [w EXCEPT !.live = FALSE] ELSE w : w \in wire}
    BY <1>t DEF TimesOut
  <2>1. QueueHome(ops', conn)
    BY TurnInQueue, RestagedQueue DEF HomeInv
  <2>2. WireHome(wire')
    BY CutOffKeepsWrite DEF HomeInv, WireHome
  <2>3. QED
    BY <1>t, <2>1, <2>2 DEF TimesOut, HomeInv, ServerShape
<1>p. CASE PutArrives
  <2> PICK w \in wire :
        /\ server' = [server EXCEPT ![w.to] = w.val]
        /\ wire' = wire \ {w}
        /\ ops' = [n \in DOMAIN ops |->
                     IF w.live /\ ops[n].stage = "writing" /\ ops[n].rec = w.rec
                     THEN [ops[n] EXCEPT !.stage = "written"] ELSE ops[n]]
    BY <1>p DEF PutArrives
  <2>1. ASSUME NEW n \in DOMAIN ops PROVE IsUpdate(ops'[n]) /\ MaySend(ops'[n], conn)
    <3>1. ops'[n] \in {ops[n], [ops[n] EXCEPT !.stage = "written"]}
      OBVIOUS
    <3>2. IsUpdate(ops[n]) /\ MaySend(ops[n], conn)
      BY QueueElement DEF HomeInv
    <3>3. /\ IsUpdate([ops[n] EXCEPT !.stage = "written"])
          /\ MaySend([ops[n] EXCEPT !.stage = "written"], conn)
      BY <3>2, StageKeepsUpdate DEF MaySend
    <3>4. QED
      BY <3>1, <3>2, <3>3
  <2>2. ops' = [n \in DOMAIN ops |-> ops'[n]]
    OBVIOUS
  <2>3. QueueHome(ops', conn)
    BY <1>0, <2>1, <2>2, MappedQueue
  <2>4. ServerShape'
    BY DEF HomeInv, ServerShape
  <2>5. QED
    BY <1>p, <2>3, <2>4 DEF PutArrives, HomeInv, WireHome
<1>l. CASE WriteLost
  BY <1>l DEF WriteLost, HomeInv, WireHome, ServerShape
<1>u. CASE Updated
  <2> PICK n \in Turns : ops' = SubSeq(ops, 1, n - 1) \o SubSeq(ops, n + 1, Len(ops))
    BY <1>u DEF Updated
  <2>1. n = 1 /\ Len(ops) \in Nat
    BY TurnInQueue
  <2>2. SubSeq(ops, 1, n - 1) \in Seq(S) /\ SubSeq(ops, n + 1, Len(ops)) \in Seq(S)
    BY <1>0, <2>1, ElementOfSeq, SubSeqProperties
  <2>3. ops' \in Seq(S)
    BY <2>2, ConcatProperties
  <2>4. QueueHome(ops', conn)
    BY <1>0, <2>3 DEF QueueHome
  <2>5. QED
    BY <1>u, <2>4 DEF Updated, HomeInv, ServerShape
<1>g. CASE Toggle
  <2> PICK r \in Offered, to \in {"on", "off"} :
        ops' = Append(ops, [mount |-> page.mount, rec |-> r, to |-> to, home |-> conn,
                            prev |-> page.rows, stage |-> "reading", aborted |-> FALSE])
    BY <1>g DEF Toggle
  <2> DEFINE op == [mount |-> page.mount, rec |-> r, to |-> to, home |-> conn,
                    prev |-> page.rows, stage |-> "reading", aborted |-> FALSE]
  <2>1. IsUpdate(op) /\ MaySend(op, conn)
    BY DEF IsUpdate, MaySend
  <2> HIDE DEF op
  <2>2. ops' \in Seq(S \cup {op})
    BY <1>0 DEF op
  <2>3. QueueHome(ops', conn)
    BY <1>0, <2>1, <2>2 DEF QueueHome
  <2>4. QED
    BY <1>g, <2>3 DEF Toggle, HomeInv, ServerShape
<1>c. CASE ConfirmDelete
  <2> DEFINE w == [kind |-> "delete", rec |-> dialog.rec, to |-> conn,
                   meant |-> dialog.rows.of, live |-> TRUE]
  <2>1. IsDelete(w)
    BY DEF IsDelete
  <2>2. WireHome(wire')
    BY <1>c, <2>1 DEF ConfirmDelete, HomeInv, WireHome
  <2>3. QED
    BY <1>c, <2>2 DEF ConfirmDelete, HomeInv, ServerShape
<1>d. CASE DeleteArrives
  BY <1>d DEF DeleteArrives, HomeInv, WireHome, ServerShape
<1>n. CASE DeleteRefused
  BY <1>n DEF DeleteRefused, HomeInv, WireHome, ServerShape
<1>w. CASE Switch
  <2>1. /\ ops' = [n \in DOMAIN ops |->
                     [ops[n] EXCEPT !.aborted = TRUE,
                                    !.stage = IF @ = "reading" /\ n > 1 THEN @ ELSE "failed"]]
        /\ wire' = {[w EXCEPT !.live = FALSE] : w \in wire}
    BY <1>w DEF Switch
  <2>2. \A n \in DOMAIN ops : IsUpdate(ops'[n]) /\ MaySend(ops'[n], conn')
    BY <2>1, QueueElement, AbortKeepsUpdate DEF HomeInv
  <2>3. ops' = [n \in DOMAIN ops |-> ops'[n]]
    BY <2>1
  <2>4. QueueHome(ops', conn')
    BY <1>0, <2>2, <2>3, MappedQueue
  <2>5. WireHome(wire')
    BY <2>1, CutOffKeepsWrite DEF HomeInv, WireHome
  <2>6. QED
    BY <1>w, <2>4, <2>5 DEF Switch, HomeInv, ServerShape
<1>o. ASSUME \/ Rerender \/ FetchRead \/ FetchAnswered \/ FetchFails \/ LoadEnds
             \/ Expires \/ AskDelete \/ CancelDelete \/ Deleted \/ RefreshAll
             \/ Open \/ Leave
      PROVE  UNCHANGED <<conn, ops, wire, server>>
  BY <1>o DEF Rerender, FetchRead, FetchAnswered, FetchFails, LoadEnds, Expires,
              AskDelete, CancelDelete, Deleted, RefreshAll, Open, Leave
<1>v. CASE UNCHANGED vars
  BY <1>s, <1>v DEF vars
<1>q. QED
  BY <1>s, <1>f, <1>r, <1>e, <1>t, <1>p, <1>l, <1>u, <1>g, <1>c, <1>d, <1>n, <1>w, <1>o,
     <1>v DEF Next, Network

-----------------------------------------------------------------------------
\* An update asked for on one instance is never written to another, however
\* many switches, timeouts and queued updates there are: only a PUT changes a
\* section as a whole, and it is meant for the instance it arrives at
\* (mutateProviderSection, apiClient's cancellation on a switch).
THEOREM UpdatesStayHome == Spec => WritesStayHome
<1> DEFINE Home == \A s \in Server : server'[s] # server[s] =>
                      \E w \in wire \ wire' : w.kind = "put" => w.meant = s
<1>1. ASSUME HomeInv, [Next]_vars PROVE Home
  <2>1. CASE server' = server
    BY <2>1
  <2>2. CASE PutArrives
    <3> PICK w \in wire : server' = [server EXCEPT ![w.to] = w.val] /\ wire' = wire \ {w}
      BY <2>2 DEF PutArrives
    <3>1. w.kind = "put" => w.meant = w.to
      BY <1>1 DEF HomeInv, WireHome, IsPut, IsDelete
    <3>2. QED
      BY <1>1, <3>1 DEF HomeInv, ServerShape
  <2>3. CASE DeleteArrives
    BY <2>3 DEF DeleteArrives
  <2>4. QED
    BY <1>1, <2>1, <2>2, <2>3
    DEF Next, Network, vars, Fail, Rerender, ReadLatest, Updated, FetchRead, FetchAnswered,
        LoadEnds, Deleted, Refused, TimesOut, WriteLost, FetchFails, DeleteRefused, Expires,
        Toggle, AskDelete, ConfirmDelete, CancelDelete, RefreshAll, Open, Leave, Switch
<1>2. Spec => [][Home]_vars
  BY <1>1, HomeInit, HomeStep, PTL DEF Spec
<1>3. QED
  BY <1>2 DEF WritesStayHome

-----------------------------------------------------------------------------
(* No lost update.  While no outcome is in doubt, there is one PUT on its  *)
(* way at most, that of the first update of the queue, and what it carries *)
(* beside its own record is what the server has, deletions excepted.       *)

Puts == {w \in wire : w.kind = "put"}

\* What a PUT carries is as good as a copy of what the server has.
Fresh(w) == \A r \in Record : r # w.rec => server[w.to][r] \in {w.val[r], "gone"}

OfTheHead(w) == /\ w.live /\ ops # <<>>
                /\ ops[1].stage = "writing" /\ ops[1].rec = w.rec

Sections ==
    /\ conn \in Server
    /\ server \in [Server -> Section]
    /\ \A w \in Puts : w.to \in Server /\ w.val \in Section

AloneOnWire ==
    "outcome" \notin doubt =>
        /\ \A w \in Puts : OfTheHead(w) /\ Fresh(w)
        /\ \A w1, w2 \in Puts : w1 = w2

KeepInv == HomeInv /\ Sections /\ AloneOnWire

\* A doubt about an outcome stays.
LEMMA DoubtStays == [Next]_vars /\ "outcome" \in doubt => "outcome" \in doubt'
  BY DEF Next, Network, vars, Fail, Rerender, ReadLatest, Updated, FetchRead, FetchAnswered,
         LoadEnds, Deleted, Refused, TimesOut, WriteLost, FetchFails, DeleteRefused, Expires,
         Toggle, AskDelete, ConfirmDelete, CancelDelete, RefreshAll, Open, Leave, Switch,
         PutArrives, DeleteArrives, Doubts, ReadDoubt, WriteDoubt

\* Types of what the PUTs carry.
LEMMA SectionsStep == KeepInv /\ [Next]_vars => Sections'
<1> SUFFICES ASSUME KeepInv, [Next]_vars PROVE Sections'
  OBVIOUS
<1> USE DEF KeepInv, Sections, Puts
<1>r. CASE ReadLatest
  <2> PICK n \in Turns : wire' = wire \/ wire' = wire \cup {Put(ops[n], server[conn])}
    BY <1>r DEF ReadLatest
  <2>1. ops[n].to \in {"on", "off"}
    BY TurnInQueue, QueueElement DEF HomeInv, IsUpdate
  <2>2. Put(ops[n], server[conn]).to = conn /\ Put(ops[n], server[conn]).val \in Section
    BY <2>1 DEF Put, Section
  <2>3. QED
    BY <1>r, <2>2 DEF ReadLatest
<1>p. CASE PutArrives
  BY <1>p DEF PutArrives
<1>d. CASE DeleteArrives
  <2> PICK w \in wire : /\ server' = [server EXCEPT ![w.to][w.rec] = "gone"]
                        /\ wire' = wire \ {w}
    BY <1>d DEF DeleteArrives
  <2>1. server' \in [Server -> Section]
    BY DEF Section
  <2>2. QED
    BY <1>d, <2>1 DEF DeleteArrives
<1>t. CASE TimesOut \/ Switch
  <2>1. server' = server /\ conn' \in Server
    BY <1>t DEF TimesOut, Switch
  <2>2. \A w2 \in wire' : \E w \in wire : w2 \in {w, [w EXCEPT !.live = FALSE]}
    <3>1. CASE TimesOut
      BY <3>1 DEF TimesOut
    <3>2. CASE Switch
      BY <3>2 DEF Switch
    <3>3. QED
      BY <1>t, <3>1, <3>2
  <2>3. ASSUME NEW w \in wire
        PROVE  /\ [w EXCEPT !.live = FALSE].kind = w.kind
               /\ [w EXCEPT !.live = FALSE].to = w.to
               /\ w.kind = "put" => [w EXCEPT !.live = FALSE].val = w.val
    <3>1. IsPut(w) \/ IsDelete(w)
      BY DEF HomeInv, WireHome
    <3>2. CASE IsPut(w)
      BY <3>2 DEF IsPut
    <3>3. CASE IsDelete(w)
      BY <3>3 DEF IsDelete
    <3>4. QED
      BY <3>1, <3>2, <3>3
  <2>4. ASSUME NEW w2 \in wire', w2.kind = "put"
        PROVE  w2.to \in Server /\ w2.val \in Section
    <3>1. PICK w \in wire : w2 \in {w, [w EXCEPT !.live = FALSE]}
      BY <2>2
    <3>2. w.kind = "put" /\ w2.to = w.to /\ w2.val = w.val
      BY <2>3, <2>4, <3>1
    <3>3. QED
      BY <3>2
  <2>5. QED
    BY <2>1, <2>4
<1>c. CASE ConfirmDelete
  BY <1>c DEF ConfirmDelete
<1>o. ASSUME server' = server, conn' = conn, wire' \subseteq wire PROVE Sections'
  BY <1>o
<1>q. QED
  BY <1>r, <1>p, <1>d, <1>t, <1>c, <1>o
  DEF Next, Network, vars, Fail, Rerender, Updated, FetchRead, FetchAnswered,
      LoadEnds, Deleted, Refused, WriteLost, FetchFails, DeleteRefused, Expires,
      Toggle, AskDelete, CancelDelete, RefreshAll, Open, Leave

\* At most the first update's PUT is on its way, and it is up to date.
LEMMA AloneStep == KeepInv /\ [Next]_vars => AloneOnWire'
<1> SUFFICES ASSUME KeepInv, [Next]_vars, "outcome" \notin doubt' PROVE AloneOnWire'
  BY DEF AloneOnWire
<1>0. /\ "outcome" \notin doubt
      /\ \A w \in Puts : OfTheHead(w) /\ Fresh(w)
      /\ \A w1, w2 \in Puts : w1 = w2
  BY DoubtStays DEF KeepInv, AloneOnWire
<1>1. PICK S : ops \in Seq(S) /\ \A op \in S : IsUpdate(op) /\ MaySend(op, conn)
  BY DEF KeepInv, HomeInv, QueueHome
<1>n. ASSUME Puts' = {} PROVE AloneOnWire'
  BY <1>n DEF AloneOnWire
<1>k. ASSUME Puts' \subseteq Puts, server' = server,
             \A w \in Puts : OfTheHead(w) => OfTheHead(w)'
      PROVE  AloneOnWire'
  BY <1>0, <1>k DEF AloneOnWire, Fresh
<1>f. CASE Fail
  <2>1. Puts = {}
    BY <1>f, <1>0 DEF Fail, Fails, OfTheHead, Puts
  <2>2. QED
    BY <1>f, <1>n, <2>1 DEF Fail, Puts
<1>r. CASE ReadLatest
  <2> PICK n \in Turns :
        /\ ops[n].stage = "reading"
        /\ \/ wire' = wire
           \/ /\ ops' = [ops EXCEPT ![n].stage = "writing"]
              /\ wire' = wire \cup {Put(ops[n], server[conn])}
    BY <1>r DEF ReadLatest
  <2>1. n = 1 /\ n \in DOMAIN ops /\ Len(ops) \in Nat /\ DOMAIN ops = 1 .. Len(ops)
    BY TurnInQueue DEF KeepInv
  <2>2. Puts = {}
    BY <1>0, <2>1 DEF OfTheHead
  <2>3. CASE wire' = wire
    BY <1>n, <2>2, <2>3 DEF Puts
  <2>4. CASE /\ ops' = [ops EXCEPT ![n].stage = "writing"]
             /\ wire' = wire \cup {Put(ops[n], server[conn])}
    <3>0. PICK w : w = Put(ops[n], server[conn])
      OBVIOUS
    <3>1. /\ w.kind = "put" /\ w.live /\ w.rec = ops[n].rec /\ w.to = conn
          /\ w.val = [server[conn] EXCEPT ![ops[n].rec] = ops[n].to]
      BY <3>0 DEF Put
    <3>2. Puts' = {w}
      BY <2>2, <2>4, <3>0, <3>1 DEF Puts
    <3>3. ops' # <<>> /\ ops'[1].stage = "writing" /\ ops'[1].rec = w.rec
      <4>1. IsUpdate(ops[1])
        BY <2>1, QueueElement DEF KeepInv, HomeInv
      <4>2. ops'[1] = [ops[1] EXCEPT !.stage = "writing"] /\ DOMAIN ops' = DOMAIN ops
        BY <2>1, <2>4
      <4>3. ops' # <<>>
        BY <2>1, <4>2, EmptySeq
      <4>4. QED
        BY <2>1, <3>1, <4>1, <4>2, <4>3 DEF IsUpdate
    <3>4. Fresh(w)'
      <4>1. server' = server /\ server[conn] \in Section
        BY <1>r DEF ReadLatest, KeepInv, Sections
      <4>2. \A r \in Record : r # w.rec => w.val[r] = server[conn][r]
        BY <3>1, <4>1 DEF Section
      <4>3. QED
        BY <3>1, <4>1, <4>2 DEF Fresh
    <3>5. QED
      BY <3>1, <3>2, <3>3, <3>4 DEF AloneOnWire, OfTheHead
  <2>5. QED
    BY <2>3, <2>4
<1>e. CASE Refused
  <2> PICK n \in Turns :
        wire' = {w \in wire : ~(w.live /\ w.kind = "put" /\ w.rec = ops[n].rec)}
    BY <1>e DEF Refused
  <2>1. n = 1
    BY DEF Turns
  <2>2. Puts' = {}
    BY <1>0, <2>1 DEF Puts, OfTheHead
  <2>3. QED
    BY <1>n, <2>2
<1>t. CASE TimesOut
  BY <1>t DEF TimesOut, Doubts
<1>p. CASE PutArrives
  <2> PICK w \in wire : w.kind = "put" /\ wire' = wire \ {w}
    BY <1>p DEF PutArrives
  <2>1. Puts' = {}
    BY <1>0 DEF Puts
  <2>2. QED
    BY <1>n, <2>1
<1>u. CASE Updated
  <2> PICK n \in Turns : ops[n].stage = "written" /\ wire' = wire
    BY <1>u DEF Updated
  <2>1. n = 1
    BY DEF Turns
  <2>2. Puts' = {}
    BY <1>0, <2>1 DEF Puts, OfTheHead
  <2>3. QED
    BY <1>n, <2>2
<1>g. CASE Toggle
  <2>1. PICK op : ops' = Append(ops, op)
    BY <1>g DEF Toggle
  <2>2. ops # <<>> => ops' # <<>> /\ ops'[1] = ops[1]
    <3>1. ops # <<>> => Len(ops) \in Nat \ {0}
      BY <1>1, EmptySeq
    <3>2. Len(ops') = Len(ops) + 1 /\ \A n \in 1 .. Len(ops) : ops'[n] = ops[n]
      BY <1>1, <2>1, AppendProperties, SeqMonotonic
    <3>3. Len(<<>>) = 0
      BY EmptySeq
    <3>4. QED
      BY <3>1, <3>2, <3>3
  <2>3. QED
    BY <1>g, <1>k, <2>2 DEF Toggle, Puts, OfTheHead
<1>d. CASE DeleteArrives
  <2> PICK w \in wire : /\ server' = [server EXCEPT ![w.to][w.rec] = "gone"]
                        /\ wire' = wire \ {w} /\ ops' = ops
    BY <1>d DEF DeleteArrives
  <2>1. \A s \in Server, r \in Record : server'[s][r] \in {server[s][r], "gone"}
    BY DEF KeepInv, Sections, Section
  <2>2. \A p \in Puts : p.to \in Server
    BY DEF KeepInv, Sections
  <2>3. \A p \in Puts : Fresh(p) => Fresh(p)'
    BY <2>1, <2>2 DEF Fresh
  <2>4. QED
    BY <1>0, <2>3 DEF AloneOnWire, Puts, OfTheHead
<1>w. CASE Switch
  <2>1. ops = <<>>
    BY <1>w DEF Switch, Doubts
  <2>2. Puts = {}
    BY <1>0, <2>1 DEF OfTheHead
  <2>3. ASSUME NEW w \in wire PROVE [w EXCEPT !.live = FALSE].kind = w.kind
    <3>1. IsPut(w) \/ IsDelete(w)
      BY DEF KeepInv, HomeInv, WireHome
    <3>2. CASE IsPut(w)
      BY <3>2 DEF IsPut
    <3>3. CASE IsDelete(w)
      BY <3>3 DEF IsDelete
    <3>4. QED
      BY <3>1, <3>2, <3>3
  <2>4. Puts' = {}
    BY <1>w, <2>2, <2>3 DEF Switch, Puts
  <2>5. QED
    BY <1>n, <2>4
<1>c. CASE ConfirmDelete
  BY <1>c, <1>k DEF ConfirmDelete, Puts, OfTheHead
<1>o. ASSUME server' = server, ops' = ops, wire' \subseteq wire PROVE AloneOnWire'
  BY <1>o, <1>k DEF Puts, OfTheHead
<1>q. QED
  BY <1>f, <1>r, <1>e, <1>t, <1>p, <1>u, <1>g, <1>d, <1>w, <1>c, <1>o
  DEF Next, Network, vars, Rerender, FetchRead, FetchAnswered, LoadEnds, Deleted,
      WriteLost, FetchFails, DeleteRefused, Expires, AskDelete, CancelDelete, RefreshAll,
      Open, Leave

\* The queue loses no update: a PUT carries the whole section, and changes no
\* record but the one its update is for, unless that had been deleted or an
\* update was given up while it could still be applied (mutateProviderSection
\* reads the section again when the turn of an update comes).
THEOREM UpdatesKeepOtherRecords == Spec => UpdatesKeepOthers
<1> DEFINE Keep == \A s \in Server, r \in Record :
                      server'[s][r] # server[s][r] =>
                          \/ server[s][r] = "gone" \/ "outcome" \in doubt
                          \/ \E w \in wire \ wire' : w.rec = r
<1>1. Init => KeepInv
  <2> SUFFICES ASSUME Init PROVE KeepInv
    OBVIOUS
  <2>1. Sections /\ AloneOnWire
    BY FirstIsServer DEF Init, Sections, AloneOnWire, Section, Puts
  <2>2. QED
    BY <2>1, HomeInit DEF KeepInv
<1>2. KeepInv /\ [Next]_vars => KeepInv'
  BY HomeStep, SectionsStep, AloneStep DEF KeepInv
<1>3. ASSUME KeepInv, [Next]_vars PROVE Keep
  <2>1. CASE server' = server
    BY <2>1
  <2>2. CASE PutArrives
    <3> PICK w \in wire : /\ w.kind = "put"
                          /\ server' = [server EXCEPT ![w.to] = w.val]
                          /\ wire' = wire \ {w}
      BY <2>2 DEF PutArrives
    <3>1. "outcome" \notin doubt => Fresh(w)
      BY <1>3 DEF KeepInv, AloneOnWire, Puts
    <3>2. server \in [Server -> Section] /\ w.to \in Server
      BY <1>3 DEF KeepInv, Sections, Puts
    <3>3. QED
      BY <3>1, <3>2 DEF Fresh
  <2>3. CASE DeleteArrives
    <3> PICK w \in wire : /\ server' = [server EXCEPT ![w.to][w.rec] = "gone"]
                          /\ wire' = wire \ {w}
      BY <2>3 DEF DeleteArrives
    <3>1. server \in [Server -> Section]
      BY <1>3 DEF KeepInv, Sections
    <3>2. QED
      BY <3>1 DEF Section
  <2>4. QED
    BY <1>3, <2>1, <2>2, <2>3
    DEF Next, Network, vars, Fail, Rerender, ReadLatest, Updated, FetchRead, FetchAnswered,
        LoadEnds, Deleted, Refused, TimesOut, WriteLost, FetchFails, DeleteRefused, Expires,
        Toggle, AskDelete, ConfirmDelete, CancelDelete, RefreshAll, Open, Leave, Switch
<1>4. Spec => [][Keep]_vars
  BY <1>1, <1>2, <1>3, PTL DEF Spec
<1>5. QED
  BY <1>4 DEF UpdatesKeepOthers

-----------------------------------------------------------------------------
(* Types. *)

Stores == [config : Rows \cup {None}, full : Rows \cup {None},
           flight : RequestId \cup {0}]
Fetches == [id : RequestId, read : Rows \cup {None}]
Pages == [mount : 0 .. MaxMounts, shown : BOOLEAN, due : BOOLEAN,
          rows : Rows \cup {None}, locked : BOOLEAN, loading : BOOLEAN]
Loads == [mount : 1 .. MaxMounts, locks : BOOLEAN, fetch : RequestId \cup {0},
          data : Rows \cup {None}]
Updates == [mount : 1 .. MaxMounts, rec : Record, to : {"on", "off"}, home : Server,
            prev : Rows, aborted : BOOLEAN,
            stage : {"reading", "writing", "written", "failed"}]
Dialogs == [rec : Record, rows : Rows, mount : 1 .. MaxMounts, sent : BOOLEAN]
PutWrites == [kind : {"put"}, rec : Record, to : Server, meant : Server,
              live : BOOLEAN, val : Section]
DeleteWrites == [kind : {"delete"}, rec : Record, to : Server, meant : Server,
                 live : BOOLEAN]

Shapes ==
    /\ conn \in Server /\ server \in [Server -> Section]
    /\ store \in Stores /\ fetches \subseteq Fetches
    /\ page \in Pages /\ loads \subseteq Loads
    /\ ops \in Seq(Updates) /\ wire \subseteq PutWrites \cup DeleteWrites
    /\ dialog \in Dialogs \cup {None}
    /\ doubt \subseteq Doubts /\ clicks \in 0 .. MaxClicks
    /\ page.shown => page.mount > 0
    /\ ~page.shown => page.rows = None

\* A request to join is under way.
Joinable(st, requests) == st.flight # 0 => \E f \in requests : f.id = st.flight

\* Every request for the configuration was started by a mount or by a click,
\* so that there is an identifier for one more.
EnoughIds ==
    /\ IsFiniteSet(fetches)
    /\ Cardinality(fetches) + Len(ops) + (IF page.due THEN 1 ELSE 0)
           <= page.mount + clicks

TypeInv == Shapes /\ Joinable(store, fetches) /\ EnoughIds

LEMMA TypeInvIsType == TypeInv => ProviderTypeOK
<1> SUFFICES ASSUME TypeInv PROVE ProviderTypeOK
  OBVIOUS
<1>1. \A n \in 1 .. Len(ops) : ops[n] \in Updates
  BY ElementOfSeq DEF TypeInv, Shapes
<1>2. QED
  BY <1>1 DEF TypeInv, Shapes, Joinable, ProviderTypeOK, Stores, Fetches, Pages, Loads,
              Updates

\* There is an identifier for one more request.
LEMMA FreeId ==
  ASSUME IsFiniteSet(fetches), Cardinality(fetches) < MaxMounts + MaxClicks
  PROVE  \E n \in RequestId : \A f \in fetches : f.id # n
<1> SUFFICES ASSUME \A n \in RequestId : \E f \in fetches : f.id = n PROVE FALSE
  OBVIOUS
<1> DEFINE user == [n \in RequestId |-> CHOOSE f \in fetches : f.id = n]
<1>1. \A n \in RequestId : user[n] \in fetches /\ user[n].id = n
  OBVIOUS
<1>2. user \in [RequestId -> fetches]
  BY <1>1
<1>3. IsFiniteSet(RequestId) /\ Cardinality(RequestId) = MaxMounts + MaxClicks
  <2>1. 1 \in Int /\ MaxMounts + MaxClicks \in Nat
    BY BoundsAreNat
  <2>2. QED
    BY <2>1, FS_Interval DEF RequestId
<1> HIDE DEF user
<1>4. PICK x \in RequestId, y \in RequestId : x # y /\ user[x] = user[y]
  BY <1>2, <1>3, FS_PigeonHole
<1>5. QED
  BY <1>1, <1>4

\* What fetchConfig gives: the cached whole, the request to join, a new one.
LEMMA FetchGives ==
  ASSUME IsFiniteSet(fetches), Cardinality(fetches) < MaxMounts + MaxClicks,
         NEW st \in Stores, NEW forced \in BOOLEAN
  PROVE  /\ Fetch(st, forced).data = IF forced THEN None ELSE st.full
         /\ \/ Fetch(st, forced).id = 0 /\ st.full # None /\ ~forced
            \/ Fetch(st, forced).id = st.flight /\ st.flight # 0
            \/ /\ st.flight = 0 /\ Fetch(st, forced).id \in RequestId
               /\ \A f \in fetches : f.id # Fetch(st, forced).id
<1> DEFINE free == CHOOSE n \in RequestId : \A f \in fetches : f.id # n
<1>1. free \in RequestId /\ \A f \in fetches : f.id # free
  BY FreeId
<1>2. Fetch(st, forced) =
        IF st.full # None /\ ~forced THEN [id |-> 0, data |-> st.full]
        ELSE [id |-> IF st.flight # 0 THEN st.flight ELSE free, data |-> None]
  BY DEF Fetch
<1> HIDE DEF free
<1>3. QED
  BY <1>1, <1>2

\* The copy joins a request, or a new one is sent.
Asked(st) ==
    \/ store' = st /\ fetches' = fetches
    \/ \E n \in RequestId :
         /\ \A f \in fetches : f.id # n
         /\ store' = [st EXCEPT !.flight = n]
         /\ fetches' = fetches \cup {[id |-> n, read |-> None]}

LEMMA AsksGives ==
  ASSUME IsFiniteSet(fetches), Cardinality(fetches) < MaxMounts + MaxClicks,
         fetches \subseteq Fetches,
         NEW st \in Stores, NEW forced \in BOOLEAN, Joinable(st, fetches),
         Asks(st, Fetch(st, forced))
  PROVE  /\ Asked(st)
         /\ store' \in Stores /\ fetches' \subseteq Fetches
         /\ Joinable(store', fetches') /\ IsFiniteSet(fetches')
         /\ Cardinality(fetches') <= Cardinality(fetches) + 1
<1>1. Asked(st)
  BY FetchGives, 0 \notin RequestId DEF Asks, Asked, RequestId
<1>2. CASE store' = st /\ fetches' = fetches
  BY <1>1, <1>2, FS_CardinalityType
<1>3. ASSUME NEW n \in RequestId,
             store' = [st EXCEPT !.flight = n],
             fetches' = fetches \cup {[id |-> n, read |-> None]}
      PROVE  /\ store' \in Stores /\ fetches' \subseteq Fetches
             /\ Joinable(store', fetches') /\ IsFiniteSet(fetches')
             /\ Cardinality(fetches') <= Cardinality(fetches) + 1
  <2>1. IsFiniteSet(fetches') /\ Cardinality(fetches') <= Cardinality(fetches) + 1
    <3>1. Cardinality(fetches) \in Nat
      BY FS_CardinalityType
    <3>2. PICK f : f = [id |-> n, read |-> None]
      OBVIOUS
    <3>3. /\ IsFiniteSet(fetches \cup {f})
          /\ Cardinality(fetches \cup {f}) \in {Cardinality(fetches), Cardinality(fetches) + 1}
      BY FS_AddElement
    <3>4. QED
      BY <1>3, <3>1, <3>2, <3>3
  <2>2. store' \in Stores /\ fetches' \subseteq Fetches
    BY <1>3 DEF Stores, Fetches
  <2>3. Joinable(store', fetches')
    <3>1. store'.flight = n
      BY <1>3 DEF Stores
    <3>2. [id |-> n, read |-> None] \in fetches'
      BY <1>3
    <3>3. QED
      BY <3>1, <3>2 DEF Joinable
  <2>4. QED
    BY <2>1, <2>2, <2>3
<1>4. QED
  BY <1>1, <1>2, <1>3 DEF Asked

LEMMA LoadGives ==
  ASSUME IsFiniteSet(fetches), Cardinality(fetches) < MaxMounts + MaxClicks,
         fetches \subseteq Fetches,
         NEW st \in Stores, Joinable(st, fetches), NEW pg \in Pages,
         NEW mount \in 1 .. MaxMounts, NEW locks \in BOOLEAN, Load(st, pg, mount, locks)
  PROVE  /\ Asked(st)
         /\ store' \in Stores /\ fetches' \subseteq Fetches
         /\ Joinable(store', fetches') /\ IsFiniteSet(fetches')
         /\ Cardinality(fetches') <= Cardinality(fetches) + 1
         /\ \E l \in Loads : /\ l.mount = mount /\ l.locks = locks /\ l.data = st.full
                            /\ loads' = loads \cup {l}
         /\ page' \in {pg, [pg EXCEPT !.loading = TRUE]}
<1>1. PICK got : got = Fetch(st, FALSE)
  OBVIOUS
<1>2. got.data = st.full /\ got.id \in RequestId \cup {0}
  BY <1>1, FetchGives DEF Stores
<1>3. /\ Asks(st, Fetch(st, FALSE))
      /\ loads' = loads \cup {[mount |-> mount, locks |-> locks, fetch |-> got.id,
                              data |-> got.data]}
      /\ page' \in {pg, [pg EXCEPT !.loading = TRUE]}
  BY <1>1 DEF Load
<1>4. [mount |-> mount, locks |-> locks, fetch |-> got.id, data |-> got.data] \in Loads
  BY <1>2 DEF Loads, Stores
<1>5. \E l \in Loads : /\ l.mount = mount /\ l.locks = locks /\ l.data = st.full
                      /\ loads' = loads \cup {l}
  BY <1>2, <1>3, <1>4
<1>6. QED
  BY <1>3, <1>5, AsksGives

\* The queue of updates: a stage, the end of the first update.
LEMMA RestagedUpdates ==
  ASSUME NEW queue \in Seq(Updates), NEW n \in 1 .. Len(queue),
         NEW x \in {"reading", "writing", "written", "failed"}
  PROVE  /\ [queue EXCEPT ![n].stage = x] \in Seq(Updates)
         /\ Len([queue EXCEPT ![n].stage = x]) = Len(queue)
<1>1. queue[n] \in Updates
  BY ElementOfSeq
<1>2. [queue[n] EXCEPT !.stage = x] \in Updates
  BY <1>1 DEF Updates
<1>3. [queue EXCEPT ![n].stage = x] = [queue EXCEPT ![n] = [queue[n] EXCEPT !.stage = x]]
  OBVIOUS
<1>4. QED
  BY <1>2, <1>3, ExceptSeq

LEMMA MappedUpdates ==
  ASSUME NEW queue \in Seq(Updates), NEW next, next = [n \in DOMAIN queue |-> next[n]],
         \A n \in DOMAIN queue : next[n] \in Updates
  PROVE  next \in Seq(Updates) /\ Len(next) = Len(queue)
<1>1. Len(queue) \in Nat /\ DOMAIN queue = 1 .. Len(queue)
  BY LenProperties
<1>2. next \in [1 .. Len(queue) -> Updates]
  BY <1>1
<1>3. next \in Seq(Updates)
  BY <1>1, <1>2, SeqDef
<1>4. DOMAIN next = 1 .. Len(queue)
  BY <1>2
<1>5. QED
  BY <1>1, <1>3, <1>4, LenProperties

LEMMA FirstRemoved ==
  ASSUME NEW queue \in Seq(Updates), queue # <<>>
  PROVE  LET next == SubSeq(queue, 1, 1 - 1) \o SubSeq(queue, 1 + 1, Len(queue)) IN
         /\ next \in Seq(Updates) /\ Len(next) = Len(queue) - 1
         /\ next = Tail(queue)
<1>1. Len(queue) \in Nat \ {0}
  BY EmptySeq, LenProperties
<1>2. \A i \in 1 .. Len(queue) : queue[i] \in Updates
  BY ElementOfSeq
<1>3. SubSeq(queue, 1, 1 - 1) \in Seq(Updates) /\ Len(SubSeq(queue, 1, 1 - 1)) = 0
  BY <1>1, <1>2, SubSeqProperties
<1>4. /\ SubSeq(queue, 1 + 1, Len(queue)) \in Seq(Updates)
      /\ Len(SubSeq(queue, 1 + 1, Len(queue))) = Len(queue) - 1
  <2>1. 1 + 1 = 2
    OBVIOUS
  <2>2. QED
    BY <2>1, TailIsSubSeq, HeadTailProperties
<1>5. QED
  BY <1>1, <1>3, <1>4, ConcatProperties

-----------------------------------------------------------------------------
LEMMA TypeInit == Init => TypeInv
<1> SUFFICES ASSUME Init PROVE TypeInv
  OBVIOUS
<1>1. server \in [Server -> Section] /\ conn \in Server
  BY FirstIsServer DEF Init, Section
<1>2. store \in Stores /\ page \in Pages /\ clicks \in 0 .. MaxClicks
  BY BoundsAreNat DEF Init, Stores, Pages, NewPage
<1>3. ops = <<>> /\ ops \in Seq(Updates) /\ Len(ops) = 0
  BY EmptySeq DEF Init
<1>4. Shapes
  BY <1>1, <1>2, <1>3 DEF Init, Shapes, NewPage
<1>5. IsFiniteSet(fetches) /\ Cardinality(fetches) = 0
  BY FS_EmptySet DEF Init
<1>6. QED
  BY <1>3, <1>4, <1>5, BoundsAreNat DEF Init, TypeInv, Joinable, EnoughIds, NewPage

\* A copy with new rows, and a page that shows them.
LEMMA EditedType ==
  ASSUME NEW st \in Stores, NEW rows \in Rows \cup {None}
  PROVE  /\ Edited(st, rows) = [config |-> rows, full |-> None, flight |-> 0]
         /\ Edited(st, rows) \in Stores
<1>1. PICK new : new = Edited(st, rows)
  OBVIOUS
<1>2. new \in Stores /\ new.config = rows /\ new.full = None /\ new.flight = 0
  BY <1>1 DEF Edited, Stores
<1>3. new = [config |-> new.config, full |-> new.full, flight |-> new.flight]
  BY <1>2 DEF Stores
<1>4. QED
  BY <1>1, <1>2, <1>3

LEMMA ShownType ==
  ASSUME NEW pg \in Pages, NEW rows \in Rows \cup {None}
  PROVE  /\ Shown(pg, rows) \in Pages
         /\ Shown(pg, rows) = [pg EXCEPT !.rows = IF pg.shown THEN rows ELSE @]
  BY DEF Shown, Pages

LEMMA EndedType ==
  ASSUME NEW pg \in Pages, NEW ls \in SUBSET Loads
  PROVE  /\ Ended(pg, ls) \in Pages
         /\ Ended(pg, ls).mount = pg.mount /\ Ended(pg, ls).shown = pg.shown
         /\ Ended(pg, ls).due = pg.due /\ Ended(pg, ls).rows = pg.rows
  BY DEF Ended, Pages, Loads

LEMMA OpenedPage ==
  ASSUME NEW n \in 0 .. MaxMounts, NEW rows \in Rows \cup {None}
  PROVE  LET pg == [NewPage(n) EXCEPT !.shown = TRUE, !.rows = rows] IN
         /\ pg \in Pages /\ pg.mount = n /\ pg.shown /\ ~pg.due /\ ~pg.locked
         /\ pg.rows = rows
  BY DEF NewPage, Pages

\* The rows with one record changed.
LEMMA ChangedRows ==
  ASSUME NEW rows \in Rows, NEW r \in Record, NEW x \in {"on", "off", "gone"}
  PROVE  /\ [rows EXCEPT !.val[r] = x] \in Rows
         /\ [rows EXCEPT !.val[r] = x] = [of |-> rows.of, val |-> [rows.val EXCEPT ![r] = x]]
  BY DEF Rows, Section

\* A write that is given up.
LEMMA CutOffType ==
  ASSUME NEW w \in PutWrites \cup DeleteWrites
  PROVE  [w EXCEPT !.live = FALSE] \in PutWrites \cup DeleteWrites
<1>1. CASE w \in PutWrites
  BY <1>1 DEF PutWrites
<1>2. CASE w \in DeleteWrites
  BY <1>2 DEF DeleteWrites
<1>3. QED
  BY <1>1, <1>2

LEMMA TypeStep == TypeInv /\ [Next]_vars => TypeInv'
<1> SUFFICES ASSUME TypeInv, [Next]_vars PROVE TypeInv'
  OBVIOUS
<1> USE BoundsAreNat, NoneIsNothing
<1>0. /\ Shapes /\ Joinable(store, fetches) /\ IsFiniteSet(fetches)
      /\ Cardinality(fetches) \in Nat /\ Len(ops) \in Nat /\ DOMAIN ops = 1 .. Len(ops)
      /\ Cardinality(fetches) + Len(ops) + (IF page.due THEN 1 ELSE 0)
           <= page.mount + clicks
      /\ page.mount \in 0 .. MaxMounts /\ clicks \in 0 .. MaxClicks
  BY FS_CardinalityType, LenProperties DEF TypeInv, EnoughIds, Shapes, Pages
<1>1. \A n \in Turns : n = 1 /\ n \in DOMAIN ops /\ ops # <<>>
  BY <1>0, EmptySeq DEF Turns, Shapes
<1>2. \A n \in DOMAIN ops : ops[n] \in Updates
  BY <1>0, ElementOfSeq DEF Shapes
<1>r. ASSUME ops # <<>> PROVE Cardinality(fetches) < MaxMounts + MaxClicks
  <2>1. Len(ops) >= 1
    <3>1. 1 \in 1 .. Len(ops)
      BY <1>0, <1>1, <1>r DEF Turns
    <3>2. QED
      BY <1>0, <3>1
  <2>2. Cardinality(fetches) + Len(ops) <= page.mount + clicks
    BY <1>0
  <2>3. QED
    BY <1>0, <2>1, <2>2
<1>k. ASSUME Shapes', UNCHANGED <<store, fetches>>,
             Len(ops') <= Len(ops) /\ page' = page /\ clicks' = clicks
      PROVE  TypeInv'
  BY <1>0, <1>k DEF TypeInv, EnoughIds
<1>fail. CASE Fail
  <2>1. ops # <<>> /\ ops' = Tail(ops) /\ RolledBack(Head(ops))
    BY <1>fail DEF Fail
  <2>2. Head(ops) \in Updates /\ ops' \in Seq(Updates) /\ Len(ops') = Len(ops) - 1
    BY <1>0, <2>1, HeadTailProperties DEF Shapes
  <2>3. Head(ops).prev \in Rows
    BY <2>2 DEF Updates
  <2>4. store' \in Stores /\ store'.flight = 0
    BY <1>0, <2>1, <2>3, EditedType DEF RolledBack, Shapes
  <2>5. /\ page' \in Pages /\ page'.mount = page.mount /\ page'.shown = page.shown
        /\ page'.due = page.due
        /\ ~page.shown => page'.rows = page.rows
    <3>1. PICK pg : pg = Shown(page, Head(ops).prev)
      OBVIOUS
    <3>2. /\ pg \in Pages /\ pg.mount = page.mount /\ pg.shown = page.shown
          /\ pg.due = page.due
          /\ ~page.shown => pg.rows = page.rows
      BY <1>0, <2>3, <3>1, ShownType DEF Shapes, Pages
    <3>3. page' = [pg EXCEPT !.locked = @ /\ Head(ops).mount # page.mount]
      BY <2>1, <3>1 DEF RolledBack
    <3>4. QED
      BY <3>2, <3>3 DEF Pages
  <2>6. Shapes'
    BY <1>0, <1>fail, <2>2, <2>4, <2>5 DEF Fail, Shapes
  <2>7. QED
    BY <1>0, <1>fail, <2>2, <2>4, <2>5, <2>6 DEF Fail, TypeInv, Joinable, EnoughIds
<1>reren. CASE Rerender
  <2>1. Cardinality(fetches) < MaxMounts + MaxClicks
    BY <1>0, <1>reren DEF Rerender
  <2>2. doubt' \subseteq Doubts
    BY <1>0, <1>reren DEF Rerender, ReadDoubt, Shapes, Doubts, Copies
  <2>3. /\ store' \in Stores /\ fetches' \subseteq Fetches
        /\ Joinable(store', fetches') /\ IsFiniteSet(fetches')
        /\ Cardinality(fetches') <= Cardinality(fetches) + 1
        /\ page' \in Pages /\ page'.mount = page.mount /\ page'.shown = page.shown
        /\ ~page'.due
        /\ ~page.shown => page'.rows = None
        /\ loads' \subseteq Loads
    <3>1. CASE page.shown
      <4> DEFINE pg == [NewPage(page.mount) EXCEPT !.shown = TRUE, !.rows = store.config]
      <4>1. /\ pg \in Pages /\ pg.mount = page.mount /\ pg.shown /\ ~pg.due
        BY <1>0, OpenedPage DEF Shapes, Stores
      <4>2. Load(store, pg, page.mount, FALSE)
        BY <1>reren, <3>1 DEF Rerender
      <4>3. page.mount \in 1 .. MaxMounts
        BY <1>0, <3>1 DEF Shapes
      <4> HIDE DEF pg
      <4>4. /\ store' \in Stores /\ fetches' \subseteq Fetches
            /\ Joinable(store', fetches') /\ IsFiniteSet(fetches')
            /\ Cardinality(fetches') <= Cardinality(fetches) + 1
            /\ \E l \in Loads : loads' = loads \cup {l}
            /\ page' \in {pg, [pg EXCEPT !.loading = TRUE]}
        BY <1>0, <2>1, <4>1, <4>2, <4>3, LoadGives DEF Shapes
      <4>5. page' \in Pages /\ page'.mount = page.mount /\ page'.shown /\ ~page'.due
        BY <4>1, <4>4 DEF Pages
      <4>6. QED
        BY <1>0, <3>1, <4>4, <4>5 DEF Shapes
    <3>2. CASE ~page.shown
      <4>1. /\ Asks(store, Fetch(store, FALSE)) /\ loads' = loads
            /\ page' = NewPage(page.mount)
        BY <1>reren, <3>2 DEF Rerender
      <4>2. /\ page' \in Pages /\ page'.mount = page.mount /\ ~page'.shown
            /\ ~page'.due /\ page'.rows = None
        BY <1>0, <4>1 DEF NewPage, Pages
      <4>3. /\ store' \in Stores /\ fetches' \subseteq Fetches
            /\ Joinable(store', fetches') /\ IsFiniteSet(fetches')
            /\ Cardinality(fetches') <= Cardinality(fetches) + 1
        BY <1>0, <2>1, <4>1, AsksGives DEF Shapes
      <4>4. QED
        BY <1>0, <3>2, <4>1, <4>2, <4>3 DEF Shapes, Pages
    <3>3. QED
      BY <3>1, <3>2
  <2>4. Shapes'
    BY <1>0, <1>reren, <2>2, <2>3 DEF Rerender, Shapes
  <2>5. EnoughIds'
    <3>1. page.due /\ ops' = ops /\ clicks' = clicks
      BY <1>reren DEF Rerender
    <3>2. Cardinality(fetches') \in Nat
      BY <2>3, FS_CardinalityType
    <3>3. QED
      BY <1>0, <2>3, <3>1, <3>2 DEF EnoughIds
  <2>6. QED
    BY <2>3, <2>4, <2>5 DEF TypeInv
<1>read. CASE ReadLatest
  <2> PICK n \in Turns, x \in {"failed", "writing"} :
        /\ ops' = [ops EXCEPT ![n].stage = x]
        /\ wire' = wire \/ wire' = wire \cup {Put(ops[n], server[conn])}
    BY <1>read DEF ReadLatest
  <2>1. n \in 1 .. Len(ops) /\ ops[n] \in Updates
    BY <1>0, <1>1, <1>2
  <2>2. ops' \in Seq(Updates) /\ Len(ops') = Len(ops)
    <3>1. x \in {"reading", "writing", "written", "failed"}
      OBVIOUS
    <3>2. ops \in Seq(Updates)
      BY <1>0 DEF Shapes
    <3>3. QED
      BY <2>1, <3>1, <3>2, RestagedUpdates
  <2>3. Put(ops[n], server[conn]) \in PutWrites
    BY <1>0, <2>1 DEF Put, PutWrites, Updates, Shapes, Section
  <2>4. QED
    BY <1>0, <1>read, <1>k, <2>2, <2>3 DEF ReadLatest, Shapes
<1>refu. CASE Refused
  <2> PICK n \in Turns : ops' = [ops EXCEPT ![n].stage = "failed"] /\ wire' \subseteq wire
    BY <1>refu DEF Refused
  <2>1. ops' \in Seq(Updates) /\ Len(ops') = Len(ops)
    BY <1>0, <1>1, RestagedUpdates DEF Shapes
  <2>2. QED
    BY <1>0, <1>refu, <1>k, <2>1 DEF Refused, Shapes
<1>time. CASE TimesOut
  <2> PICK n \in Turns :
        /\ ops' = [ops EXCEPT ![n].stage = "failed"]
        /\ wire' = {IF w.kind = "put" /\ w.rec = ops[n].rec
                    THEN [w EXCEPT !.live = FALSE] ELSE w : w \in wire}
    BY <1>time DEF TimesOut
  <2>1. ops' \in Seq(Updates) /\ Len(ops') = Len(ops)
    BY <1>0, <1>1, RestagedUpdates DEF Shapes
  <2>2. wire' \subseteq PutWrites \cup DeleteWrites
    BY <1>0, CutOffType DEF Shapes
  <2>3. QED
    BY <1>0, <1>time, <1>k, <2>1, <2>2 DEF TimesOut, Shapes
<1>puta. CASE PutArrives
  <2> PICK w \in wire :
        /\ w.kind = "put"
        /\ server' = [server EXCEPT ![w.to] = w.val]
        /\ wire' = wire \ {w}
        /\ ops' = [n \in DOMAIN ops |->
                     IF w.live /\ ops[n].stage = "writing" /\ ops[n].rec = w.rec
                     THEN [ops[n] EXCEPT !.stage = "written"] ELSE ops[n]]
    BY <1>puta DEF PutArrives
  <2>1. w \in PutWrites
    BY <1>0 DEF Shapes, DeleteWrites
  <2>2. server' \in [Server -> Section]
    BY <1>0, <2>1 DEF Shapes, PutWrites
  <2>3. \A n \in DOMAIN ops : ops'[n] \in Updates
    BY <1>2 DEF Updates
  <2>4. ops' \in Seq(Updates) /\ Len(ops') = Len(ops)
    <3>1. ops' = [n \in DOMAIN ops |-> ops'[n]]
      OBVIOUS
    <3>2. QED
      BY <1>0, <2>3, <3>1, MappedUpdates DEF Shapes
  <2>5. QED
    BY <1>0, <1>puta, <1>k, <2>2, <2>4 DEF PutArrives, Shapes
<1>lost. CASE WriteLost
  BY <1>0, <1>lost, <1>k DEF WriteLost, Shapes
<1>upda. CASE Updated
  <2> PICK n \in Turns :
        /\ ops' = SubSeq(ops, 1, n - 1) \o SubSeq(ops, n + 1, Len(ops))
        /\ Load(store, page, ops[n].mount, TRUE)
    BY <1>upda DEF Updated
  <2>1. n = 1 /\ ops # <<>> /\ ops[n].mount \in 1 .. MaxMounts
    BY <1>1, <1>2 DEF Updates
  <2>2. ops' \in Seq(Updates) /\ Len(ops') = Len(ops) - 1
    BY <1>0, <2>1, FirstRemoved DEF Shapes
  <2>3. Cardinality(fetches) < MaxMounts + MaxClicks
    BY <1>r, <2>1
  <2>4. /\ store' \in Stores /\ fetches' \subseteq Fetches
        /\ Joinable(store', fetches') /\ IsFiniteSet(fetches')
        /\ Cardinality(fetches') <= Cardinality(fetches) + 1
        /\ \E l \in Loads : loads' = loads \cup {l}
        /\ page' \in {page, [page EXCEPT !.loading = TRUE]}
    BY <1>0, <2>1, <2>3, LoadGives DEF Shapes
  <2>5. /\ page' \in Pages /\ page'.mount = page.mount /\ page'.shown = page.shown
        /\ page'.due = page.due /\ page'.rows = page.rows
    BY <1>0, <2>4 DEF Shapes, Pages
  <2>6. doubt' \subseteq Doubts
    BY <1>0, <1>upda DEF Updated, ReadDoubt, Shapes, Doubts, Copies
  <2>7. Shapes'
    BY <1>0, <1>upda, <2>2, <2>4, <2>5, <2>6 DEF Updated, Shapes
  <2>8. EnoughIds'
    <3>1. clicks' = clicks /\ Cardinality(fetches') \in Nat
      BY <1>upda, <2>4, FS_CardinalityType DEF Updated
    <3>2. /\ Cardinality(fetches') <= Cardinality(fetches) + 1
          /\ Len(ops') = Len(ops) - 1
          /\ page'.mount = page.mount /\ page'.due = page.due
      BY <2>2, <2>4, <2>5
    <3>3. PICK d \in {0, 1} : d = IF page.due THEN 1 ELSE 0
      OBVIOUS
    <3>4. Cardinality(fetches) + Len(ops) + d <= page.mount + clicks
      BY <1>0, <3>3
    <3>5. Cardinality(fetches') + Len(ops') + d <= page'.mount + clicks'
      <4>1. \A a, b, c, m \in Nat : a <= b + 1 /\ b + c + d <= m => a + (c - 1) + d <= m
        OBVIOUS
      <4>2. /\ Cardinality(fetches') \in Nat /\ Cardinality(fetches) \in Nat
            /\ Len(ops) \in Nat /\ page.mount + clicks \in Nat
        <5>1. page.mount \in Nat /\ clicks \in Nat
          BY <1>0
        <5>2. Cardinality(fetches) \in Nat /\ Len(ops) \in Nat
          BY <1>0
        <5>3. page.mount + clicks \in Nat
          BY <5>1
        <5>4. QED
          BY <3>1, <5>2, <5>3
      <4>3. Cardinality(fetches') + (Len(ops) - 1) + d <= page.mount + clicks
        BY <3>2, <3>4, <4>1, <4>2
      <4>4. QED
        BY <3>1, <3>2, <4>3
    <3>6. d = IF page'.due THEN 1 ELSE 0
      BY <3>2, <3>3
    <3>7. QED
      BY <2>4, <3>5, <3>6 DEF EnoughIds
  <2>9. QED
    BY <2>4, <2>7, <2>8 DEF TypeInv
<1>fetr. CASE FetchRead
  <2> PICK f \in fetches : /\ f.read = None
                          /\ fetches' = (fetches \ {f})
                                \cup {[f EXCEPT !.read = [of |-> conn, val |-> server[conn]]]}
    BY <1>fetr DEF FetchRead
  <2> DEFINE g == [f EXCEPT !.read = [of |-> conn, val |-> server[conn]]]
  <2>1. g \in Fetches /\ g.id = f.id
    BY <1>0 DEF Shapes, Fetches, Rows
  <2> HIDE DEF g
  <2>2. fetches' = (fetches \ {f}) \cup {g}
    BY DEF g
  <2>3. IsFiniteSet(fetches') /\ Cardinality(fetches') <= Cardinality(fetches)
    <3>1. IsFiniteSet(fetches \ {f}) /\ Cardinality(fetches \ {f}) = Cardinality(fetches) - 1
      BY <1>0, FS_RemoveElement
    <3>2. /\ IsFiniteSet((fetches \ {f}) \cup {g})
          /\ Cardinality((fetches \ {f}) \cup {g})
                \in {Cardinality(fetches \ {f}), Cardinality(fetches \ {f}) + 1}
      BY <3>1, FS_AddElement
    <3>3. \A c \in Nat : c - 1 <= c /\ c - 1 + 1 <= c
      OBVIOUS
    <3>4. Cardinality((fetches \ {f}) \cup {g}) <= Cardinality(fetches)
      <4>1. Cardinality(fetches) \in Nat
        BY <1>0
      <4>2. QED
        BY <4>1, <3>1, <3>2, <3>3
    <3>5. QED
      BY <2>2, <3>2, <3>4
  <2>4. Shapes'
    BY <1>0, <1>fetr, <2>1, <2>2 DEF FetchRead, Shapes
  <2>5. Joinable(store', fetches')
    BY <1>0, <1>fetr, <2>1, <2>2 DEF FetchRead, Joinable
  <2>6. EnoughIds'
    <3>1. ops' = ops /\ page' = page /\ clicks' = clicks /\ Cardinality(fetches') \in Nat
      BY <1>fetr, <2>3, FS_CardinalityType DEF FetchRead
    <3>2. QED
      BY <1>0, <2>3, <3>1 DEF EnoughIds
  <2>7. QED
    BY <2>4, <2>5, <2>6 DEF TypeInv
<1>feta. CASE FetchAnswered
  <2> PICK f \in fetches :
        /\ f.read # None
        /\ fetches' = fetches \ {f}
        /\ loads' = {IF l.fetch = f.id /\ l.data = None THEN [l EXCEPT !.data = f.read]
                     ELSE l : l \in loads}
        /\ IF f.id = store.flight
           THEN /\ store' = [config |-> f.read, full |-> f.read, flight |-> 0]
                /\ page' = Shown(page, f.read)
           ELSE UNCHANGED <<store, page>>
    BY <1>feta DEF FetchAnswered
  <2>1. f.read \in Rows
    BY <1>0 DEF Shapes, Fetches
  <2>2. loads' \subseteq Loads
    BY <1>0, <2>1 DEF Shapes, Loads
  <2>3. store' \in Stores /\ fetches' \subseteq Fetches
    BY <1>0, <2>1 DEF Shapes, Stores
  <2>4. /\ page' \in Pages /\ page'.mount = page.mount /\ page'.shown = page.shown
        /\ page'.due = page.due
        /\ ~page.shown => page'.rows = page.rows
    <3>1. page' = page \/ page' = [page EXCEPT !.rows = IF page.shown THEN f.read ELSE @]
      BY <1>0, <2>1, ShownType DEF Shapes
    <3>2. QED
      BY <1>0, <2>1, <3>1 DEF Shapes, Pages
  <2>5. Shapes'
    BY <1>0, <1>feta, <2>2, <2>3, <2>4 DEF FetchAnswered, Shapes
  <2>6. Joinable(store', fetches')
    BY <1>0 DEF Joinable
  <2>7. EnoughIds'
    <3>1. ops' = ops /\ clicks' = clicks
      BY <1>feta DEF FetchAnswered
    <3>2. IsFiniteSet(fetches \ {f}) /\ Cardinality(fetches \ {f}) = Cardinality(fetches) - 1
      BY <1>0, FS_RemoveElement
    <3>3. QED
      BY <1>0, <2>4, <3>1, <3>2 DEF EnoughIds
  <2>8. QED
    BY <2>5, <2>6, <2>7 DEF TypeInv
<1>fetf. CASE FetchFails
  <2> PICK f \in fetches :
        /\ fetches' = fetches \ {f}
        /\ loads' = loads \ {l \in loads : l.fetch = f.id /\ l.data = None}
        /\ page' = Ended(page, {l \in loads : l.fetch = f.id /\ l.data = None})
        /\ store' = Settled(store, f)
    BY <1>fetf DEF FetchFails
  <2> DEFINE ls == {l \in loads : l.fetch = f.id /\ l.data = None}
  <2>1. ls \in SUBSET Loads
    BY <1>0 DEF Shapes
  <2> HIDE DEF ls
  <2>2. /\ page' \in Pages /\ page'.mount = page.mount /\ page'.shown = page.shown
        /\ page'.due = page.due /\ page'.rows = page.rows
    BY <1>0, <2>1, EndedType DEF Shapes, ls
  <2>3. store' \in Stores
    BY <1>0 DEF Shapes, Settled, Stores
  <2>4. Shapes'
    BY <1>0, <1>fetf, <2>2, <2>3 DEF FetchFails, Shapes
  <2>5. Joinable(store', fetches')
    BY <1>0 DEF Joinable, Settled, Shapes, Stores
  <2>6. EnoughIds'
    <3>1. ops' = ops /\ clicks' = clicks
      BY <1>fetf DEF FetchFails
    <3>2. IsFiniteSet(fetches \ {f}) /\ Cardinality(fetches \ {f}) = Cardinality(fetches) - 1
      BY <1>0, FS_RemoveElement
    <3>3. QED
      BY <1>0, <2>2, <3>1, <3>2 DEF EnoughIds
  <2>7. QED
    BY <2>4, <2>5, <2>6 DEF TypeInv
<1>load. CASE LoadEnds
  <2> PICK l \in loads, other \in BOOLEAN :
        /\ l.data # None
        /\ loads' = loads \ {l}
        /\ page' = Ended(IF l.mount = page.mount THEN Shown(page, l.data) ELSE page, {l})
        /\ store' = IF other THEN Invalidated(store) ELSE store
    BY <1>load DEF LoadEnds
  <2>1. l.data \in Rows
    BY <1>0 DEF Shapes, Loads
  <2>2. store' \in Stores /\ Joinable(store', fetches)
    BY <1>0 DEF Shapes, Stores, Invalidated, Joinable
  <2>3. /\ page' \in Pages /\ page'.mount = page.mount /\ page'.shown = page.shown
        /\ page'.due = page.due
        /\ ~page.shown => page'.rows = page.rows
    <3>1. PICK pg : pg = IF l.mount = page.mount THEN Shown(page, l.data) ELSE page
      OBVIOUS
    <3>2. /\ pg \in Pages /\ pg.mount = page.mount /\ pg.shown = page.shown
          /\ pg.due = page.due
          /\ ~page.shown => pg.rows = page.rows
      BY <1>0, <2>1, <3>1, ShownType DEF Shapes, Pages
    <3>3. {l} \in SUBSET Loads
      BY <1>0 DEF Shapes
    <3>4. QED
      BY <3>1, <3>2, <3>3, EndedType
  <2>4. Shapes'
    BY <1>0, <1>load, <2>2, <2>3 DEF LoadEnds, Shapes
  <2>5. QED
    BY <1>0, <1>load, <2>2, <2>3, <2>4 DEF LoadEnds, TypeInv, EnoughIds
<1>expi. CASE Expires
  <2>1. store' \in Stores /\ Joinable(store', fetches)
    BY <1>0, <1>expi DEF Expires, Shapes, Stores, Joinable
  <2>2. QED
    BY <1>0, <1>expi, <2>1 DEF Expires, TypeInv, Shapes, EnoughIds
<1>togg. CASE Toggle
  <2> PICK r \in Offered, to \in {"on", "off"} :
        /\ page' = [page EXCEPT !.rows = [page.rows EXCEPT !.val[r] = to], !.locked = TRUE]
        /\ store' = Edited(store, [page.rows EXCEPT !.val[r] = to])
        /\ ops' = Append(ops, [mount |-> page.mount, rec |-> r, to |-> to, home |-> conn,
                               prev |-> page.rows, stage |-> "reading", aborted |-> FALSE])
    BY <1>togg DEF Toggle
  <2> DEFINE next == [page.rows EXCEPT !.val[r] = to]
             op == [mount |-> page.mount, rec |-> r, to |-> to, home |-> conn,
                    prev |-> page.rows, stage |-> "reading", aborted |-> FALSE]
  <2>1. page.shown /\ page.rows \in Rows /\ r \in Record /\ page.mount \in 1 .. MaxMounts
    BY <1>0 DEF Offered, Shapes, Pages
  <2>2. next \in Rows
    BY <2>1, ChangedRows
  <2>3. op \in Updates
    BY <1>0, <2>1 DEF Updates, Shapes
  <2> HIDE DEF next, op
  <2>4. ops' \in Seq(Updates) /\ Len(ops') = Len(ops) + 1
    BY <1>0, <2>3, AppendProperties DEF Shapes, op
  <2>5. store' \in Stores /\ store'.flight = 0
    BY <1>0, <2>2, EditedType DEF Shapes, next
  <2>6. /\ page' \in Pages /\ page'.mount = page.mount /\ page'.shown /\ page'.due = page.due
    BY <1>0, <2>1, <2>2 DEF Shapes, Pages, next
  <2>7. doubt' \subseteq Doubts /\ clicks' = clicks + 1 /\ clicks' \in 0 .. MaxClicks
    BY <1>0, <1>togg DEF Toggle, WriteDoubt, Clicks, Shapes, Doubts, Copies
  <2>8. Shapes'
    BY <1>0, <1>togg, <2>1, <2>4, <2>5, <2>6, <2>7 DEF Toggle, Shapes
  <2>9. EnoughIds'
    <3>1. fetches' = fetches
      BY <1>togg DEF Toggle
    <3>2. QED
      BY <1>0, <2>4, <2>6, <2>7, <3>1 DEF EnoughIds
  <2>10. QED
    BY <2>5, <2>8, <2>9 DEF TypeInv, Joinable
<1>askd. CASE AskDelete
  <2> PICK r \in Offered : dialog' = [rec |-> r, rows |-> page.rows, mount |-> page.mount,
                                     sent |-> FALSE]
    BY <1>askd DEF AskDelete
  <2>1. dialog' \in Dialogs
    BY <1>0 DEF Offered, Shapes, Pages, Dialogs
  <2>2. clicks' = clicks + 1 /\ clicks' \in 0 .. MaxClicks
    BY <1>0, <1>askd DEF AskDelete, Clicks
  <2>3. QED
    BY <1>0, <1>askd, <2>1, <2>2 DEF AskDelete, TypeInv, Shapes, EnoughIds
<1>conf. CASE ConfirmDelete
  <2> DEFINE w == [kind |-> "delete", rec |-> dialog.rec, to |-> conn,
                   meant |-> dialog.rows.of, live |-> TRUE]
  <2>1. dialog \in Dialogs
    BY <1>0, <1>conf DEF ConfirmDelete, Shapes
  <2>2. w \in DeleteWrites /\ dialog' \in Dialogs
    BY <1>0, <1>conf, <2>1 DEF ConfirmDelete, Dialogs, DeleteWrites, Rows, Shapes
  <2>3. wire' \subseteq PutWrites \cup DeleteWrites
    BY <1>0, <1>conf, <2>2 DEF ConfirmDelete, Shapes
  <2>4. doubt' \subseteq Doubts
    BY <1>0, <1>conf DEF ConfirmDelete, Shapes, Doubts, Copies
  <2>5. QED
    BY <1>0, <1>k, <1>conf, <2>2, <2>3, <2>4 DEF ConfirmDelete, Shapes
<1>canc. CASE CancelDelete
  BY <1>0, <1>k, <1>canc DEF CancelDelete, Shapes
<1>dela. CASE DeleteArrives
  <2> PICK w \in wire : /\ w.kind = "delete"
                       /\ server' = [server EXCEPT ![w.to][w.rec] = "gone"]
                       /\ wire' = wire \ {w}
    BY <1>dela DEF DeleteArrives
  <2>1. server' \in [Server -> Section]
    BY <1>0 DEF Shapes, Section
  <2>2. QED
    BY <1>0, <1>k, <1>dela, <2>1 DEF DeleteArrives, Shapes
<1>deld. CASE Deleted
  <2> DEFINE next == [dialog.rows EXCEPT !.val[dialog.rec] = "gone"]
  <2>1. dialog \in Dialogs
    BY <1>0, <1>deld DEF Deleted, Shapes
  <2>2. next \in Rows
    BY <2>1, ChangedRows DEF Dialogs
  <2>3. store' = Edited(store, next) /\ page' = Shown(page, next)
    BY <1>deld DEF Deleted
  <2> HIDE DEF next
  <2>4. store' \in Stores /\ store'.flight = 0
    BY <1>0, <2>2, <2>3, EditedType DEF Shapes
  <2>5. /\ page' \in Pages /\ page'.mount = page.mount /\ page'.shown = page.shown
        /\ page'.due = page.due
        /\ ~page.shown => page'.rows = page.rows
    <3>1. page' \in Pages /\ page' = [page EXCEPT !.rows = IF page.shown THEN next ELSE @]
      BY <1>0, <2>2, <2>3, ShownType DEF Shapes
    <3>2. QED
      BY <1>0, <3>1 DEF Shapes, Pages
  <2>6. Shapes'
    BY <1>0, <1>deld, <2>4, <2>5 DEF Deleted, Shapes
  <2>7. QED
    BY <1>0, <1>deld, <2>4, <2>5, <2>6 DEF Deleted, TypeInv, Joinable, EnoughIds
<1>delr. CASE DeleteRefused
  <2>1. doubt' \subseteq Doubts
    BY <1>0, <1>delr DEF DeleteRefused, Shapes, Doubts, Copies
  <2>2. QED
    BY <1>0, <1>k, <1>delr, <2>1 DEF DeleteRefused, Shapes
<1>refr. CASE RefreshAll
  <2>1. clicks' = clicks + 1 /\ clicks' \in 0 .. MaxClicks /\ clicks < MaxClicks
    BY <1>0, <1>refr DEF RefreshAll, Clicks
  <2>2. Cardinality(fetches) < MaxMounts + MaxClicks
    BY <1>0, <2>1
  <2>3. Emptied \in Stores /\ Joinable(Emptied, fetches)
    BY DEF Emptied, Stores, Joinable
  <2>4. /\ store' \in Stores /\ fetches' \subseteq Fetches
        /\ Joinable(store', fetches') /\ IsFiniteSet(fetches')
        /\ Cardinality(fetches') <= Cardinality(fetches) + 1
    BY <1>0, <1>refr, <2>2, <2>3, AsksGives DEF RefreshAll, Shapes
  <2>5. doubt' \subseteq Doubts
    BY <1>0, <1>refr DEF RefreshAll, ReadDoubt, Shapes, Doubts, Copies
  <2>6. Shapes'
    BY <1>0, <1>refr, <2>1, <2>4, <2>5 DEF RefreshAll, Shapes
  <2>7. EnoughIds'
    <3>1. Cardinality(fetches') \in Nat /\ UNCHANGED <<ops, page>>
      BY <1>refr, <2>4, FS_CardinalityType DEF RefreshAll
    <3>2. QED
      BY <1>0, <2>1, <2>4, <3>1 DEF EnoughIds
  <2>8. QED
    BY <2>4, <2>6, <2>7 DEF TypeInv
<1>open. CASE Open
  <2> DEFINE pg == [NewPage(page.mount + 1) EXCEPT !.shown = TRUE, !.rows = store.config]
  <2>1. /\ page.mount + 1 \in 1 .. MaxMounts /\ pg \in Pages /\ pg.mount = page.mount + 1
        /\ pg.shown /\ ~pg.due
    <3>1. page.mount + 1 \in 1 .. MaxMounts /\ page.mount + 1 \in 0 .. MaxMounts
      BY <1>0, <1>open DEF Open
    <3>2. store.config \in Rows \cup {None}
      BY <1>0 DEF Shapes, Stores
    <3>3. QED
      BY <3>1, <3>2, OpenedPage
  <2>2. Load(store, pg, page.mount + 1, FALSE)
    BY <1>open DEF Open
  <2>3. Cardinality(fetches) < MaxMounts + MaxClicks
    BY <1>0, <1>open DEF Open
  <2> HIDE DEF pg
  <2>4. /\ store' \in Stores /\ fetches' \subseteq Fetches
        /\ Joinable(store', fetches') /\ IsFiniteSet(fetches')
        /\ Cardinality(fetches') <= Cardinality(fetches) + 1
        /\ \E l \in Loads : loads' = loads \cup {l}
        /\ page' \in {pg, [pg EXCEPT !.loading = TRUE]}
    BY <1>0, <2>1, <2>2, <2>3, LoadGives DEF Shapes
  <2>5. page' \in Pages /\ page'.mount = page.mount + 1 /\ page'.shown /\ ~page'.due
    BY <2>1, <2>4 DEF Pages
  <2>6. doubt' \subseteq Doubts
    BY <1>0, <1>open DEF Open, ReadDoubt, Shapes, Doubts, Copies
  <2>7. Shapes'
    BY <1>0, <1>open, <2>4, <2>5, <2>6 DEF Open, Shapes
  <2>8. EnoughIds'
    <3>1. Cardinality(fetches') \in Nat /\ UNCHANGED <<ops, clicks>> /\ ~page.due
      BY <1>open, <2>4, FS_CardinalityType DEF Open, Calm
    <3>2. QED
      BY <1>0, <2>4, <2>5, <3>1 DEF EnoughIds
  <2>9. QED
    BY <2>4, <2>7, <2>8 DEF TypeInv
<1>leav. CASE Leave
  <2>1. /\ page' \in Pages /\ page'.mount = page.mount /\ ~page'.shown /\ ~page'.due
        /\ page'.rows = None
    BY <1>0, <1>leav DEF Leave, NewPage, Pages
  <2>2. QED
    BY <1>0, <1>leav, <2>1 DEF Leave, TypeInv, Shapes, EnoughIds
<1>swit. CASE Switch
  <2>1. /\ ops' = [n \in DOMAIN ops |->
                     [ops[n] EXCEPT !.aborted = TRUE,
                                    !.stage = IF @ = "reading" /\ n > 1 THEN @ ELSE "failed"]]
        /\ wire' = {[w EXCEPT !.live = FALSE] : w \in wire}
    BY <1>swit DEF Switch
  <2>2. \A n \in DOMAIN ops : ops'[n] \in Updates
    BY <1>2, <2>1 DEF Updates
  <2>3. ops' \in Seq(Updates) /\ Len(ops') = Len(ops)
    <3>1. ops' = [n \in DOMAIN ops |-> ops'[n]]
      BY <2>1
    <3>2. QED
      BY <1>0, <2>2, <3>1, MappedUpdates DEF Shapes
  <2>4. wire' \subseteq PutWrites \cup DeleteWrites
    BY <1>0, <2>1, CutOffType DEF Shapes
  <2>5. store' \in Stores /\ store'.flight = 0 /\ fetches' = {}
    BY <1>swit DEF Switch, Emptied, Stores
  <2>6. /\ page' \in Pages /\ page'.mount = page.mount + 1 /\ page'.rows = None
    <3>1. page.mount + 1 \in 0 .. MaxMounts /\ page.shown \in BOOLEAN
      <4>1. page.mount < MaxMounts
        BY <1>swit DEF Switch
      <4>2. page.mount + 1 \in 0 .. MaxMounts
        BY <1>0, <4>1
      <4>3. QED
        BY <1>0, <4>2 DEF Shapes, Pages
    <3>2. page' = [mount |-> page.mount + 1, shown |-> page.shown, due |-> TRUE, rows |-> None,
                   locked |-> FALSE, loading |-> FALSE]
      BY <1>swit DEF Switch, NewPage
    <3>3. QED
      BY <3>1, <3>2 DEF Pages
  <2>7. doubt' \subseteq Doubts /\ conn' \in Server /\ loads' \subseteq Loads
        /\ dialog' \in Dialogs \cup {None} /\ UNCHANGED <<server, clicks>>
    BY <1>0, <1>swit DEF Switch, Shapes
  <2>8. Shapes'
    BY <1>0, <2>3, <2>4, <2>5, <2>6, <2>7 DEF Shapes
  <2>9. EnoughIds'
    <3>1. IsFiniteSet(fetches') /\ Cardinality(fetches') = 0
      BY <2>5, FS_EmptySet
    <3>2. QED
      BY <1>0, <2>3, <2>6, <2>7, <3>1 DEF EnoughIds
  <2>10. QED
    BY <2>5, <2>8, <2>9 DEF TypeInv, Joinable
<1>v. CASE UNCHANGED vars
  BY <1>0, <1>v DEF vars, TypeInv, Shapes, EnoughIds
<1>q. QED
  BY <1>fail, <1>reren, <1>read, <1>refu, <1>time, <1>puta, <1>lost, <1>upda, <1>fetr,
     <1>feta, <1>fetf, <1>load, <1>expi, <1>togg, <1>askd, <1>conf, <1>canc, <1>dela,
     <1>deld, <1>delr, <1>refr, <1>open, <1>leav, <1>swit, <1>v DEF Next, Network

-----------------------------------------------------------------------------
(* What page and copy show.  ShowsWhatIsSaved speaks of the moments when   *)
(* nothing is under way.  CopyInv says what the copy is at every moment a  *)
(* copy is not in doubt: the outcome of the one update under way, whatever *)
(* a deletion will replace, or what is saved; PageInv adds the page, which *)
(* may also be shown what was read for it.  OneOwner is needed because a   *)
(* dialog opened during an update would keep rows that a rollback outdates.*)

Saved == [of |-> conn, val |-> server[conn]]
With(rows, r, to) == [rows EXCEPT !.val[r] = to]
Sent == dialog # None /\ dialog.sent

\* Loads and updates belong to mounts that have been; a page mounted by a
\* switch has none before its effects run.
Mounted ==
    /\ \A l \in loads : l.mount <= page.mount /\ (page.due => l.mount < page.mount)
    /\ \A n \in DOMAIN ops : ops[n].mount <= page.mount

\* The loads that hold the lock of the page.
Locks == {l \in loads : l.locks /\ l.mount = page.mount}

\* The lock of the page has one owner, an update or a load.
OneOwner ==
    "store" \notin doubt /\ page.shown =>
        /\ ops # <<>> \/ Locks # {} => page.locked
        /\ ops # <<>> => Locks = {}
        /\ \A l1, l2 \in Locks : l1 = l2

\* An update under way: the copy shows its outcome, the server has its
\* outcome once the PUT has arrived and the earlier rows until then.
UpdatePending ==
    LET op == ops[1]
        new == With(op.prev, op.rec, op.to) IN
    /\ Len(ops) = 1 /\ dialog = None /\ ~op.aborted
    /\ store.config = new /\ store.full = None /\ store.flight = 0
    /\ op.stage \in {"reading", "failed"} => wire = {} /\ op.prev = Saved
    /\ op.stage = "writing" =>
          /\ op.prev = Saved
          /\ \E w \in PutWrites : /\ wire = {w} /\ w.live /\ w.rec = op.rec
                                /\ w.to = conn /\ w.val = new.val
    /\ op.stage = "written" => wire = {} /\ new = Saved

\* A deletion under way.
DeletePending ==
    \/ /\ dialog.rows = Saved
       /\ \E w \in DeleteWrites : /\ wire = {w} /\ w.live /\ w.rec = dialog.rec
                                /\ w.to = conn
    \/ wire = {} /\ With(dialog.rows, dialog.rec, "gone") = Saved

\* No write under way: the copy and what it will get are what is saved.
Resting ==
    /\ wire = {}
    /\ {store.config, store.full} \subseteq {None, Saved}
    /\ \A f \in fetches : f.id = store.flight => f.read \in {None, Saved}

CopyInv ==
    "store" \notin doubt =>
        \/ ops # <<>> /\ UpdatePending
        \/ ops = <<>> /\ Sent /\ DeletePending
        \/ ops = <<>> /\ ~Sent /\ Resting

\* While the page is not in doubt nothing is read during a write.
PageInv ==
    "page" \notin doubt =>
        /\ "store" \notin doubt
        /\ ops # <<>> \/ Sent => fetches = {} /\ loads = {}
        /\ ops # <<>> => page.rows \in {None, store.config}
        /\ ops = <<>> /\ ~Sent =>
              /\ page.rows \in {None, Saved}
              /\ dialog # None => dialog.rows = Saved
              /\ \A f \in fetches : f.read \in {None, Saved}
              /\ \A l \in loads : l.mount = page.mount => l.data \in {None, Saved}

ShowInv == TypeInv /\ Mounted /\ OneOwner /\ CopyInv /\ PageInv

\* A doubt stays, and the copy is never in doubt alone.
LEMMA DoubtsStay == [Next]_vars => doubt \subseteq doubt' \/ doubt' = Doubts
  BY DEF Next, Network, vars, Fail, Rerender, ReadLatest, Updated, FetchRead, FetchAnswered,
         LoadEnds, Deleted, Refused, TimesOut, WriteLost, FetchFails, DeleteRefused, Expires,
         Toggle, AskDelete, ConfirmDelete, CancelDelete, RefreshAll, Open, Leave, Switch,
         PutArrives, DeleteArrives, Doubts, ReadDoubt, WriteDoubt

LEMMA DoubtsPaired ==
  ASSUME [Next]_vars, "store" \in doubt => "page" \in doubt
  PROVE  "store" \in doubt' => "page" \in doubt'
  BY DEF Next, Network, vars, Fail, Rerender, ReadLatest, Updated, FetchRead, FetchAnswered,
         LoadEnds, Deleted, Refused, TimesOut, WriteLost, FetchFails, DeleteRefused, Expires,
         Toggle, AskDelete, ConfirmDelete, CancelDelete, RefreshAll, Open, Leave, Switch,
         PutArrives, DeleteArrives, Doubts, Copies, ReadDoubt, WriteDoubt

\* A request that starts during a write puts the copies in doubt.
LEMMA NothingBusy ==
  ASSUME NEW queue, ReadDoubt(queue), "store" \notin doubt'
  PROVE  queue = <<>> /\ wire = {} /\ dialog = None
  BY DEF ReadDoubt, Busy, Copies

LEMMA ShowInit == Init => ShowInv
<1> SUFFICES ASSUME Init PROVE ShowInv
  OBVIOUS
<1>1. ops = <<>> /\ DOMAIN ops = {}
  BY EmptySeq DEF Init
<1>2. Mounted /\ OneOwner /\ CopyInv
  BY <1>1 DEF Init, Mounted, OneOwner, Locks, NewPage, CopyInv, Sent, Resting
<1>3. PageInv
  BY <1>1 DEF Init, PageInv, Sent, NewPage
<1>4. QED
  BY <1>2, <1>3, TypeInit DEF ShowInv

\* What a load adds.
LEMMA LoadAdds ==
  ASSUME NEW st, NEW pg, NEW mount, NEW locks, Load(st, pg, mount, locks)
  PROVE  /\ \E l : l.mount = mount /\ l.locks = locks /\ loads' = loads \cup {l}
         /\ page' \in {pg, [pg EXCEPT !.loading = TRUE]}
<1>1. PICK l : /\ l = [mount |-> mount, locks |-> locks, fetch |-> Fetch(st, FALSE).id,
                      data |-> Fetch(st, FALSE).data]
               /\ loads' = loads \cup {l}
  BY DEF Load
<1>2. QED
  BY <1>1 DEF Load

\* No load and no update belongs to a mount to come.
LEMMA MountedStep == TypeInv /\ Mounted /\ [Next]_vars => Mounted'
<1> SUFFICES ASSUME TypeInv, Mounted, [Next]_vars PROVE Mounted'
  OBVIOUS
<1>0. /\ page.mount \in 0 .. MaxMounts /\ MaxMounts \in Nat /\ loads \subseteq Loads
      /\ ops \in Seq(Updates) /\ DOMAIN ops = 1 .. Len(ops) /\ Len(ops) \in Nat
  BY BoundsAreNat, LenProperties DEF TypeInv, Shapes, Pages
<1>1. \A l \in loads : l.mount \in 1 .. MaxMounts
  BY <1>0 DEF Loads
<1>2. \A n \in DOMAIN ops : ops[n] \in Updates
  BY <1>0, ElementOfSeq
<1>3. page.mount \in Nat /\ page.mount <= page.mount + 1
  BY <1>0
<1>4. \A l \in loads : l.mount \in Nat /\ l.mount <= page.mount + 1 /\ l.mount < page.mount + 1
  <2>1. \A a, b \in Nat : a <= b => a <= b + 1 /\ a < b + 1
    OBVIOUS
  <2>2. \A l \in loads : l.mount \in Nat /\ l.mount <= page.mount
    BY <1>0, <1>1 DEF Mounted
  <2>3. QED
    BY <1>3, <2>1, <2>2
<1>k. ASSUME page'.mount = page.mount, page'.due => page.due,
             \A l \in loads' : \E l0 \in loads : l.mount = l0.mount,
             \A n \in DOMAIN ops' : \E m \in DOMAIN ops : ops'[n].mount = ops[m].mount
      PROVE  Mounted'
  BY <1>0, <1>1, <1>k DEF Mounted
<1>o. ASSUME page'.mount = page.mount, page'.due => page.due, ops' = ops, loads' \subseteq loads
      PROVE  Mounted'
  BY <1>k, <1>o
<1>r. ASSUME page' = page, loads' = loads,
             \A n \in DOMAIN ops' : \E m \in DOMAIN ops : ops'[n].mount = ops[m].mount
      PROVE  Mounted'
  BY <1>k, <1>r
<1>s. ASSUME NEW n \in DOMAIN ops, NEW x, ops' = [ops EXCEPT ![n].stage = x],
             page' = page, loads' = loads
      PROVE  Mounted'
  <2>1. DOMAIN ops' = DOMAIN ops
    BY <1>s
  <2>2. \A m \in DOMAIN ops : ops'[m].mount = ops[m].mount
    BY <1>2, <1>s DEF Updates
  <2>3. QED
    BY <1>r, <1>s, <2>1, <2>2
<1>f. CASE Fail
  <2>1. ops # <<>> /\ ops' = Tail(ops) /\ RolledBack(Head(ops)) /\ loads' = loads
    BY <1>f DEF Fail
  <2>2. \A n \in DOMAIN ops' : n + 1 \in DOMAIN ops /\ ops'[n] = ops[n + 1]
    <3>1. ops' \in Seq(Updates) /\ Len(ops') = Len(ops) - 1
      BY <1>0, <2>1, HeadTailProperties
    <3>2. DOMAIN ops' = 1 .. Len(ops) - 1
      BY <3>1, LenProperties
    <3>3. \A n \in 1 .. Len(ops) - 1 : ops'[n] = ops[n + 1]
      BY <1>0, <2>1, <3>1, HeadTailProperties
    <3>4. QED
      BY <1>0, <3>2, <3>3
  <2>3. page'.mount = page.mount /\ page'.due = page.due
    BY <2>1 DEF RolledBack, Shown, TypeInv, Shapes, Pages
  <2>4. QED
    BY <1>k, <2>1, <2>2, <2>3
<1>e. CASE Rerender
  <2>1. page.due /\ ops' = ops
    BY <1>e DEF Rerender
  <2>2. CASE page.shown
    <3>1. /\ Load(store, [NewPage(page.mount) EXCEPT !.shown = TRUE, !.rows = store.config],
                   page.mount, FALSE)
      BY <1>e, <2>2 DEF Rerender
    <3>2. \E l : l.mount = page.mount /\ loads' = loads \cup {l}
      <4>1. PICK pg : Load(store, pg, page.mount, FALSE)
        BY <3>1
      <4>2. QED
        BY <4>1, LoadAdds
    <3>3. page'.mount = page.mount /\ ~page'.due
      <4>1. page' \in {[NewPage(page.mount) EXCEPT !.shown = TRUE, !.rows = store.config],
                       [[NewPage(page.mount) EXCEPT !.shown = TRUE, !.rows = store.config]
                            EXCEPT !.loading = TRUE]}
        BY <3>1 DEF Load
      <4>2. QED
        BY <4>1 DEF NewPage
    <3>4. \A l \in loads' : l.mount <= page.mount
      BY <1>3, <3>2 DEF Mounted
    <3>5. QED
      BY <2>1, <3>3, <3>4 DEF Mounted
  <2>3. CASE ~page.shown
    <3>1. page' = NewPage(page.mount) /\ loads' = loads
      BY <1>e, <2>3 DEF Rerender
    <3>2. page'.mount = page.mount /\ ~page'.due
      BY <3>1 DEF NewPage
    <3>3. QED
      BY <1>o, <2>1, <3>1, <3>2
  <2>4. QED
    BY <2>2, <2>3
<1>d. CASE ReadLatest
  <2> PICK n \in Turns, x \in {"failed", "writing"} : ops' = [ops EXCEPT ![n].stage = x]
    BY <1>d DEF ReadLatest
  <2>1. n \in DOMAIN ops /\ page' = page /\ loads' = loads
    BY <1>d, <1>0, EmptySeq DEF Turns, ReadLatest
  <2>2. QED
    BY <1>s, <2>1
<1>n. CASE Refused \/ TimesOut
  <2> PICK n \in Turns : ops' = [ops EXCEPT ![n].stage = "failed"]
    BY <1>n DEF Refused, TimesOut
  <2>1. n \in DOMAIN ops /\ page' = page /\ loads' = loads
    BY <1>n, <1>0, EmptySeq DEF Turns, Refused, TimesOut
  <2>2. QED
    BY <1>s, <2>1
<1>p. CASE PutArrives
  <2> PICK w \in wire :
        ops' = [n \in DOMAIN ops |->
                     IF w.live /\ ops[n].stage = "writing" /\ ops[n].rec = w.rec
                     THEN [ops[n] EXCEPT !.stage = "written"] ELSE ops[n]]
    BY <1>p DEF PutArrives
  <2>1. \A n \in DOMAIN ops : ops'[n].mount = ops[n].mount
    BY <1>2 DEF Updates
  <2>2. DOMAIN ops' = DOMAIN ops
    OBVIOUS
  <2>3. QED
    BY <1>p, <1>r, <2>1, <2>2 DEF PutArrives
<1>u. CASE Updated
  <2> PICK n \in Turns :
        /\ ops' = SubSeq(ops, 1, n - 1) \o SubSeq(ops, n + 1, Len(ops))
        /\ Load(store, page, ops[n].mount, TRUE)
    BY <1>u DEF Updated
  <2>1. n = 1 /\ ops # <<>> /\ n \in DOMAIN ops /\ ~page.due
    BY <1>u, <1>0, EmptySeq DEF Turns, Updated, Calm
  <2>2. ops[n].mount <= page.mount
    BY <2>1 DEF Mounted
  <2>3. \E l : l.mount = ops[n].mount /\ loads' = loads \cup {l}
    BY LoadAdds
  <2>4. page'.mount = page.mount /\ page'.due = page.due
    BY DEF Load, TypeInv, Shapes, Pages
  <2>5. \A m \in DOMAIN ops' : ops'[m].mount <= page.mount
    <3>1. ops' = Tail(ops)
      BY <1>0, <2>1, FirstRemoved
    <3>2. ops' \in Seq(Updates) /\ Len(ops') = Len(ops) - 1
      BY <1>0, <2>1, <3>1, HeadTailProperties
    <3>3. DOMAIN ops' = 1 .. Len(ops) - 1
      BY <3>2, LenProperties
    <3>4. \A m \in 1 .. Len(ops) - 1 : ops'[m] = ops[m + 1]
      BY <1>0, <2>1, <3>1, <3>2, HeadTailProperties
    <3>5. \A m \in DOMAIN ops' : m + 1 \in DOMAIN ops
      <4>1. Len(ops) \in Nat
        BY <1>0
      <4>2. \A m \in 1 .. Len(ops) - 1 : m + 1 \in 1 .. Len(ops)
        BY <4>1
      <4>3. QED
        BY <1>0, <3>3, <4>2
    <3>6. QED
      BY <3>3, <3>4, <3>5 DEF Mounted
  <2>6. QED
    BY <2>1, <2>2, <2>3, <2>4, <2>5 DEF Mounted
<1>a. CASE FetchAnswered
  <2> PICK f \in fetches :
        /\ loads' = {IF l.fetch = f.id /\ l.data = None THEN [l EXCEPT !.data = f.read]
                     ELSE l : l \in loads}
        /\ page' \in {Shown(page, f.read), page}
    BY <1>a DEF FetchAnswered
  <2>1. page'.mount = page.mount /\ page'.due = page.due
    BY DEF Shown, TypeInv, Shapes, Pages
  <2>2. \A l \in loads' : \E l0 \in loads : l.mount = l0.mount
    BY <1>0 DEF Loads
  <2>3. QED
    BY <1>a, <1>k, <2>1, <2>2 DEF FetchAnswered
<1>l. CASE FetchFails \/ LoadEnds
  <2>1. loads' \subseteq loads /\ ops' = ops
    BY <1>l DEF FetchFails, LoadEnds
  <2>2. PICK pg \in Pages, ls \in SUBSET loads :
          /\ page' = Ended(pg, ls) /\ pg.mount = page.mount /\ pg.due = page.due
    <3>1. CASE FetchFails
      <4>1. page \in Pages
        BY DEF TypeInv, Shapes
      <4>2. PICK f \in fetches :
              page' = Ended(page, {l \in loads : l.fetch = f.id /\ l.data = None})
        BY <3>1 DEF FetchFails
      <4>3. QED
        BY <4>1, <4>2
    <3>2. CASE LoadEnds
      <4>1. PICK l \in loads :
              page' = Ended(IF l.mount = page.mount THEN Shown(page, l.data) ELSE page, {l})
        BY <3>2 DEF LoadEnds
      <4>2. l.data \in Rows \cup {None} /\ page \in Pages
        BY <1>0 DEF TypeInv, Shapes, Loads
      <4>3. PICK pg : pg = IF l.mount = page.mount THEN Shown(page, l.data) ELSE page
        OBVIOUS
      <4>4. pg \in Pages /\ pg.mount = page.mount /\ pg.due = page.due
        BY <4>2, <4>3, ShownType DEF Pages
      <4>5. QED
        BY <4>1, <4>3, <4>4
    <3>3. QED
      BY <1>l, <3>1, <3>2
  <2>3. page'.mount = page.mount /\ page'.due = page.due
    BY <1>0, <2>2, EndedType
  <2>4. QED
    BY <1>o, <2>1, <2>3
<1>g. CASE Toggle
  <2> PICK op : ops' = Append(ops, op) /\ op.mount = page.mount
    BY <1>g DEF Toggle
  <2>1. loads' = loads /\ page'.mount = page.mount /\ page'.due = page.due
    BY <1>g DEF Toggle, TypeInv, Shapes, Pages
  <2>2. \A n \in DOMAIN ops' : (n \in DOMAIN ops /\ ops'[n] = ops[n]) \/ ops'[n] = op
    <3>1. ops \in Seq(Updates \cup {op})
      BY <1>0, SeqMonotonic
    <3>2. /\ ops' \in Seq(Updates \cup {op}) /\ Len(ops') = Len(ops) + 1
          /\ \A i \in 1 .. Len(ops) : ops'[i] = ops[i]
          /\ ops'[Len(ops) + 1] = op
      BY <3>1, AppendProperties
    <3>3. DOMAIN ops' = 1 .. Len(ops) + 1
      BY <3>2, LenProperties
    <3>4. QED
      BY <1>0, <3>2, <3>3
  <2>3. QED
    BY <1>0, <2>1, <2>2 DEF Mounted
<1>h. CASE Open
  <2>1. Load(store, [NewPage(page.mount + 1) EXCEPT !.shown = TRUE, !.rows = store.config],
             page.mount + 1, FALSE) /\ ops' = ops
    BY <1>h DEF Open
  <2>2. \E l : l.mount = page.mount + 1 /\ loads' = loads \cup {l}
    BY <2>1, LoadAdds
  <2>3. page'.mount = page.mount + 1 /\ ~page'.due
    <3>1. page' \in {[NewPage(page.mount + 1) EXCEPT !.shown = TRUE, !.rows = store.config],
                     [[NewPage(page.mount + 1) EXCEPT !.shown = TRUE, !.rows = store.config]
                          EXCEPT !.loading = TRUE]}
      BY <2>1 DEF Load
    <3>2. QED
      BY <3>1 DEF NewPage
  <2>4. \A l \in loads' : l.mount <= page.mount + 1
    BY <1>3, <1>4, <2>2
  <2>5. \A n \in DOMAIN ops : ops[n].mount <= page.mount + 1
    BY <1>0, <1>2 DEF Mounted, Updates
  <2>6. QED
    BY <2>1, <2>3, <2>4, <2>5 DEF Mounted
<1>w. CASE Switch
  <2>1. /\ ops' = [n \in DOMAIN ops |->
                     [ops[n] EXCEPT !.aborted = TRUE,
                                    !.stage = IF @ = "reading" /\ n > 1 THEN @ ELSE "failed"]]
        /\ loads' \subseteq loads
    BY <1>w DEF Switch
  <2>2. DOMAIN ops' = DOMAIN ops /\ \A n \in DOMAIN ops : ops'[n].mount = ops[n].mount
    BY <1>2, <2>1 DEF Updates
  <2>3. page'.mount = page.mount + 1
    BY <1>w DEF Switch, NewPage
  <2>4. \A l \in loads' : l.mount < page.mount + 1
    BY <1>4, <2>1
  <2>5. \A n \in DOMAIN ops : ops[n].mount <= page.mount + 1
    BY <1>0, <1>2 DEF Mounted, Updates
  <2>6. \A l \in loads' : l.mount <= page.mount + 1
    BY <1>4, <2>1
  <2>7. QED
    BY <2>2, <2>3, <2>4, <2>5, <2>6 DEF Mounted
<1>m. CASE Leave
  BY <1>m, <1>o DEF Leave, NewPage
<1>x. CASE Deleted
  <2>1. page'.mount = page.mount /\ page'.due = page.due
    BY <1>x DEF Deleted, Shown, TypeInv, Shapes, Pages
  <2>2. QED
    BY <1>x, <1>o, <2>1 DEF Deleted
<1>v. ASSUME UNCHANGED <<page, ops, loads>> PROVE Mounted'
  BY <1>o, <1>v
<1>q. QED
  BY <1>f, <1>e, <1>d, <1>n, <1>p, <1>u, <1>a, <1>l, <1>g, <1>h, <1>w, <1>m, <1>x, <1>v
  DEF Next, Network, vars, FetchRead, WriteLost, DeleteRefused, Expires, AskDelete,
      ConfirmDelete, CancelDelete, RefreshAll, DeleteArrives

\* The last update leaves an empty queue.
LEMMA LastUpdate ==
  ASSUME NEW queue \in Seq(Updates), Len(queue) = 1
  PROVE  /\ queue # <<>> /\ DOMAIN queue = {1} /\ queue[1] \in Updates
         /\ Head(queue) = queue[1] /\ Tail(queue) = <<>>
<1>1. queue # <<>> /\ DOMAIN queue = 1 .. 1
  BY EmptySeq, LenProperties
<1>2. Tail(queue) \in Seq(Updates) /\ Len(Tail(queue)) = 0
  BY <1>1, HeadTailProperties
<1>3. Tail(queue) = <<>>
  BY <1>2, EmptySeq
<1>4. queue[1] \in Updates
  BY ElementOfSeq
<1>5. Head(queue) = queue[1]
  BY <1>1
<1>6. QED
  BY <1>1, <1>3, <1>4, <1>5

\* The queue is empty, or has one update, while the copy is not in doubt.
LEMMA OneUpdate ==
  ASSUME ShowInv, "store" \notin doubt, ops # <<>>
  PROVE  /\ UpdatePending /\ ops \in Seq(Updates) /\ Len(ops) = 1
         /\ DOMAIN ops = {1} /\ ops[1] \in Updates
         /\ Head(ops) = ops[1] /\ Tail(ops) = <<>>
<1>1. UpdatePending /\ ops \in Seq(Updates) /\ Len(ops) = 1
  BY DEF ShowInv, CopyInv, UpdatePending, TypeInv, Shapes
<1>2. QED
  BY <1>1, LastUpdate

\* A switch that puts nothing in doubt finds an empty queue.
LEMMA SwitchedQueue ==
  ASSUME Switch, ops \in Seq(Updates), doubt' # Doubts
  PROVE  ops = <<>> /\ ops' = <<>> /\ dialog = None
<1>1. ops = <<>> /\ dialog = None
  BY DEF Switch
<1>2. DOMAIN ops = {}
  BY <1>1, EmptySeq
<1>3. ops' = [n \in DOMAIN ops |-> ops'[n]]
  BY DEF Switch
<1>4. ops' \in Seq(Updates) /\ Len(ops') = Len(ops)
  BY <1>2, <1>3, MappedUpdates
<1>5. QED
  BY <1>1, <1>4, EmptySeq

LEMMA OwnerStep == ShowInv /\ [Next]_vars => OneOwner'
<1> SUFFICES ASSUME ShowInv, [Next]_vars, "store" \notin doubt', page'.shown
             PROVE  /\ ops' # <<>> \/ Locks' # {} => page'.locked
                    /\ ops' # <<>> => Locks' = {}
                    /\ \A l1, l2 \in Locks' : l1 = l2
  BY DEF OneOwner
<1> DEFINE Goal == /\ ops' # <<>> \/ Locks' # {} => page'.locked
                   /\ ops' # <<>> => Locks' = {}
                   /\ \A l1, l2 \in Locks' : l1 = l2
<1>0. "store" \notin doubt
  BY DoubtsStay DEF Doubts, Copies
<1>1. page \in Pages /\ loads \subseteq Loads /\ ops \in Seq(Updates)
  BY DEF ShowInv, TypeInv, Shapes
<1>2. page.shown => /\ ops # <<>> \/ Locks # {} => page.locked
                    /\ ops # <<>> => Locks = {}
                    /\ \A l1, l2 \in Locks : l1 = l2
  BY <1>0 DEF ShowInv, OneOwner
<1>3. \A l \in loads : l.mount \in Nat /\ l.mount <= page.mount /\ page.mount \in Nat
                      /\ (page.due => l.mount < page.mount)
  BY <1>1, BoundsAreNat DEF ShowInv, Mounted, Loads, Pages
<1> HIDE DEF Goal
<1>k. ASSUME page'.shown = page.shown, page'.mount = page.mount, page'.locked = page.locked,
             ops' # <<>> => ops # <<>>, loads' \subseteq loads
      PROVE  Goal
  BY <1>2, <1>k DEF Goal, Locks
<1>n. ASSUME ops' = <<>>, Locks' = {} PROVE Goal
  BY <1>n DEF Goal
<1>f. CASE Fail
  <2>1. ops # <<>> /\ ops' = <<>> /\ RolledBack(Head(ops)) /\ loads' = loads
    BY <1>f, <1>0, OneUpdate DEF Fail
  <2>2. page'.shown = page.shown /\ page'.mount = page.mount
    BY <1>1, <2>1 DEF RolledBack, Shown, Pages
  <2>3. Locks' = {}
    BY <1>2, <2>1, <2>2 DEF Locks
  <2>4. QED
    BY <1>n, <2>1, <2>3
<1>e. CASE Rerender
  <2>1. ops' = <<>> /\ page.due
    BY <1>e, NothingBusy DEF Rerender
  <2>2. page.shown
    <3>1. ~page.shown => page' = NewPage(page.mount)
      BY <1>e DEF Rerender
    <3>2. QED
      BY <3>1 DEF NewPage
  <2>3. PICK pg : pg = [NewPage(page.mount) EXCEPT !.shown = TRUE, !.rows = store.config]
    OBVIOUS
  <2>4. Load(store, pg, page.mount, FALSE)
    BY <1>e, <2>2, <2>3 DEF Rerender
  <2>5. \E l : ~l.locks /\ loads' = loads \cup {l}
    BY <2>4, LoadAdds
  <2>6. page' \in {pg, [pg EXCEPT !.loading = TRUE]}
    BY <2>4, LoadAdds
  <2>7. page'.mount = page.mount
    BY <2>3, <2>6 DEF NewPage
  <2>8. Locks' = {}
    BY <1>3, <2>1, <2>5, <2>7 DEF Locks
  <2>9. QED
    BY <1>n, <2>1, <2>8
<1>d. CASE ReadLatest \/ Refused \/ TimesOut \/ PutArrives
  <2>1. UNCHANGED <<page, loads>>
    BY <1>d DEF ReadLatest, Refused, TimesOut, PutArrives
  <2>2. ops' # <<>> => ops # <<>>
    BY <1>d DEF ReadLatest, Refused, TimesOut, PutArrives, Turns
  <2>3. QED
    BY <1>k, <2>1, <2>2 DEF Goal
<1>u. CASE Updated
  <2> PICK n \in Turns :
        /\ ops' = SubSeq(ops, 1, n - 1) \o SubSeq(ops, n + 1, Len(ops))
        /\ Load(store, page, ops[n].mount, TRUE)
    BY <1>u DEF Updated
  <2>1. n = 1 /\ ops # <<>>
    BY DEF Turns
  <2>2. ops' = <<>>
    BY <1>0, <1>1, <2>1, OneUpdate, FirstRemoved
  <2>3. /\ \E l : loads' = loads \cup {l}
        /\ page' \in {page, [page EXCEPT !.loading = TRUE]}
    BY LoadAdds
  <2>4. page'.shown = page.shown /\ page'.mount = page.mount /\ page'.locked = page.locked
    BY <1>1, <2>3 DEF Pages
  <2>5. page'.locked /\ Locks = {}
    BY <1>2, <2>1, <2>4
  <2>6. \A l1, l2 \in Locks' : l1 = l2
    BY <2>3, <2>4, <2>5 DEF Locks
  <2>7. QED
    BY <2>2, <2>5, <2>6 DEF Goal
<1>a. CASE FetchAnswered
  <2> PICK f \in fetches :
        /\ loads' = {IF l.fetch = f.id /\ l.data = None THEN [l EXCEPT !.data = f.read]
                     ELSE l : l \in loads}
        /\ page' \in {Shown(page, f.read), page}
    BY <1>a DEF FetchAnswered
  <2>1. ops' = ops /\ page'.shown = page.shown /\ page'.mount = page.mount
        /\ page'.locked = page.locked
    BY <1>a, <1>1 DEF FetchAnswered, Shown, Pages
  <2> DEFINE New(l) == IF l.fetch = f.id /\ l.data = None THEN [l EXCEPT !.data = f.read] ELSE l
  <2>2. \A l \in loads : New(l).locks = l.locks /\ New(l).mount = l.mount
    BY <1>1 DEF Loads
  <2>3. \A l \in loads' : \E l0 \in loads : l = New(l0)
    OBVIOUS
  <2> HIDE DEF New
  <2>4. \A l \in Locks' : \E l0 \in Locks : l = New(l0)
    BY <2>1, <2>2, <2>3 DEF Locks
  <2>5. QED
    BY <1>2, <2>1, <2>4 DEF Goal
<1>l. CASE FetchFails \/ LoadEnds
  <2>1. PICK pg \in Pages, ls \in SUBSET loads :
          /\ page' = Ended(pg, ls) /\ pg.mount = page.mount /\ pg.shown = page.shown
          /\ pg.locked = page.locked /\ loads' = loads \ ls /\ ops' = ops
    <3>1. CASE FetchFails
      <4>1. PICK f \in fetches :
              /\ page' = Ended(page, {l \in loads : l.fetch = f.id /\ l.data = None})
              /\ loads' = loads \ {l \in loads : l.fetch = f.id /\ l.data = None}
        BY <3>1 DEF FetchFails
      <4>2. QED
        BY <1>1, <3>1, <4>1 DEF FetchFails
    <3>2. CASE LoadEnds
      <4>1. PICK l \in loads :
              /\ page' = Ended(IF l.mount = page.mount THEN Shown(page, l.data) ELSE page, {l})
              /\ loads' = loads \ {l}
        BY <3>2 DEF LoadEnds
      <4>2. l.data \in Rows \cup {None}
        BY <1>1 DEF Loads
      <4>3. PICK pg : pg = IF l.mount = page.mount THEN Shown(page, l.data) ELSE page
        OBVIOUS
      <4>4. pg \in Pages /\ pg.mount = page.mount /\ pg.shown = page.shown
            /\ pg.locked = page.locked
        BY <1>1, <4>2, <4>3, ShownType DEF Pages
      <4>5. {l} \in SUBSET loads
        OBVIOUS
      <4>6. QED
        BY <3>2, <4>1, <4>3, <4>4, <4>5 DEF LoadEnds
    <3>3. QED
      BY <1>l, <3>1, <3>2
  <2>2. /\ page'.mount = page.mount /\ page'.shown = page.shown
        /\ page'.locked = (page.locked /\ \A l \in ls : l.mount = page.mount => ~l.locks)
    <3>1. page'.mount = pg.mount /\ page'.shown = pg.shown
      BY <1>1, <2>1, EndedType
    <3>2. page'.locked = (pg.locked /\ \A l \in {m \in ls : m.mount = pg.mount /\ pg.shown} :
                                           ~l.locks)
      BY <2>1 DEF Ended, Pages
    <3>3. QED
      BY <2>1, <3>1, <3>2
  <2>3. CASE \A l \in ls : l.mount = page.mount => ~l.locks
    <3>1. page'.locked = page.locked
      BY <1>1, <2>2, <2>3 DEF Pages
    <3>2. QED
      BY <1>k, <2>1, <2>2, <3>1 DEF Goal
  <2>4. CASE \E l \in ls : l.mount = page.mount /\ l.locks
    <3>1. PICK l \in Locks : l \in ls
      BY <2>1, <2>4 DEF Locks
    <3>2. ops = <<>> /\ Locks = {l}
      BY <1>2, <2>2, <3>1
    <3>3. Locks' = {}
      BY <2>1, <2>2, <3>1, <3>2 DEF Locks
    <3>4. QED
      BY <1>n, <2>1, <3>2, <3>3
  <2>5. QED
    BY <2>3, <2>4
<1>g. CASE Toggle
  <2>1. page.shown /\ ~page.locked
    BY <1>g DEF Toggle, Offered
  <2>2. loads' = loads /\ page'.mount = page.mount /\ page'.locked
    BY <1>g, <1>1 DEF Toggle, Pages
  <2>3. Locks' = {}
    BY <1>2, <2>1, <2>2 DEF Locks
  <2>4. QED
    BY <2>2, <2>3 DEF Goal
<1>h. CASE Open
  <2>1. ops' = <<>>
    BY <1>h, NothingBusy DEF Open
  <2>2. PICK pg : pg = [NewPage(page.mount + 1) EXCEPT !.shown = TRUE, !.rows = store.config]
    OBVIOUS
  <2>3. Load(store, pg, page.mount + 1, FALSE)
    BY <1>h, <2>2 DEF Open
  <2>4. \E l : ~l.locks /\ loads' = loads \cup {l}
    BY <2>3, LoadAdds
  <2>5. page' \in {pg, [pg EXCEPT !.loading = TRUE]}
    BY <2>3, LoadAdds
  <2>6. page'.mount = page.mount + 1
    BY <2>2, <2>5 DEF NewPage
  <2>7. Locks' = {}
    BY <1>3, <2>4, <2>6 DEF Locks
  <2>8. QED
    BY <1>n, <2>1, <2>7
<1>w. CASE Switch
  <2>1. ops' = <<>>
    BY <1>w, <1>1, SwitchedQueue DEF Doubts, Copies
  <2>2. page'.mount = page.mount + 1 /\ loads' \subseteq loads
    BY <1>w DEF Switch, NewPage
  <2>3. Locks' = {}
    BY <1>3, <2>2 DEF Locks
  <2>4. QED
    BY <1>n, <2>1, <2>3
<1>m. CASE Leave
  BY <1>m DEF Leave, NewPage
<1>x. CASE Deleted
  <2>1. /\ page'.shown = page.shown /\ page'.mount = page.mount
        /\ page'.locked = page.locked
    BY <1>x, <1>1 DEF Deleted, Shown, Pages
  <2>2. QED
    BY <1>x, <1>k, <2>1 DEF Deleted, Goal
<1>v. ASSUME UNCHANGED <<page, ops, loads>> PROVE Goal
  BY <1>k, <1>v
<1>q. QED
  BY <1>f, <1>e, <1>d, <1>u, <1>a, <1>l, <1>g, <1>h, <1>w, <1>m, <1>x, <1>v
  DEF Next, Network, vars, FetchRead, WriteLost, DeleteRefused, Expires, AskDelete,
      ConfirmDelete, CancelDelete, RefreshAll, DeleteArrives, Goal

\* A request that starts while no write is under way gives what is saved.
LEMMA AskedRests ==
  ASSUME NEW st \in Stores, fetches \subseteq Fetches, Asked(st),
         {st.config, st.full} \subseteq {None, Saved},
         \A f \in fetches : f.id = st.flight => f.read \in {None, Saved},
         wire' = {}, conn' = conn, server' = server
  PROVE  Resting'
<1>1. Saved' = Saved
  BY DEF Saved
<1>2. CASE store' = st /\ fetches' = fetches
  BY <1>1, <1>2 DEF Resting
<1>3. ASSUME NEW n \in RequestId,
             \A f \in fetches : f.id # n,
             store' = [st EXCEPT !.flight = n],
             fetches' = fetches \cup {[id |-> n, read |-> None]}
      PROVE  Resting'
  <2>1. store'.config = st.config /\ store'.full = st.full /\ store'.flight = n
    BY <1>3 DEF Stores
  <2>2. \A f \in fetches' : f.id = n => f.read = None
    BY <1>3
  <2>3. QED
    BY <1>1, <2>1, <2>2 DEF Resting
<1>4. QED
  BY <1>2, <1>3 DEF Asked

\* The only update of the queue gets a new stage.
LEMMA RestagedOnly ==
  ASSUME NEW queue \in Seq(Updates), Len(queue) = 1,
         NEW x \in {"reading", "writing", "written", "failed"},
         NEW n, n = 1, NEW next, next = [queue EXCEPT ![n].stage = x]
  PROVE  /\ next # <<>> /\ Len(next) = 1
         /\ next[1] \in Updates /\ next[1].stage = x /\ next[1].prev = queue[1].prev
         /\ next[1].rec = queue[1].rec /\ next[1].to = queue[1].to
         /\ next[1].aborted = queue[1].aborted
<1>1. DOMAIN queue = {1} /\ queue[1] \in Updates
  BY LastUpdate
<1>2. next \in Seq(Updates) /\ Len(next) = 1
  <2>1. n \in 1 .. Len(queue)
    OBVIOUS
  <2>2. [queue[n] EXCEPT !.stage = x] \in Updates
    BY <1>1 DEF Updates
  <2>3. next = [queue EXCEPT ![n] = [queue[n] EXCEPT !.stage = x]]
    OBVIOUS
  <2>4. QED
    BY <2>1, <2>2, <2>3, ExceptSeq
<1>3. next[1] = [queue[1] EXCEPT !.stage = x]
  BY <1>1
<1>4. next # <<>>
  BY <1>2, LastUpdate
<1>5. /\ next[1] \in Updates /\ next[1].stage = x /\ next[1].prev = queue[1].prev
      /\ next[1].rec = queue[1].rec /\ next[1].to = queue[1].to
      /\ next[1].aborted = queue[1].aborted
  BY <1>1, <1>3 DEF Updates
<1>6. QED
  BY <1>2, <1>4, <1>5

\* The same of the rows an update leads to.
LEMMA WithRows ==
  ASSUME NEW rows \in Rows, NEW r \in Record, NEW x \in {"on", "off", "gone"}
  PROVE  /\ With(rows, r, x) \in Rows
         /\ With(rows, r, x) = [of |-> rows.of, val |-> [rows.val EXCEPT ![r] = x]]
  BY ChangedRows DEF With

LEMMA SavedRows == Shapes => Saved \in Rows
  BY DEF Shapes, Saved, Rows

\* While there is an update or a mount to come, or the effects of a mount are
\* due, there is an identifier left.
LEMMA IdLeft ==
  ASSUME TypeInv,
         ops # <<>> \/ page.due \/ page.mount < MaxMounts \/ clicks < MaxClicks
  PROVE  IsFiniteSet(fetches) /\ Cardinality(fetches) < MaxMounts + MaxClicks
<1>1. /\ IsFiniteSet(fetches) /\ ops \in Seq(Updates)
      /\ page.mount \in 0 .. MaxMounts /\ clicks \in 0 .. MaxClicks
      /\ Cardinality(fetches) + Len(ops) + (IF page.due THEN 1 ELSE 0)
            <= page.mount + clicks
  BY DEF TypeInv, EnoughIds, Shapes, Pages
<1>2. Cardinality(fetches) \in Nat /\ Len(ops) \in Nat
  BY <1>1, FS_CardinalityType, LenProperties
<1>3. ops # <<>> => Len(ops) > 0
  BY <1>1, <1>2, EmptySeq
<1>4. QED
  BY <1>1, <1>2, <1>3, BoundsAreNat

LEMMA CopyStep == ShowInv /\ [Next]_vars => CopyInv'
<1> SUFFICES ASSUME ShowInv, [Next]_vars, "store" \notin doubt'
             PROVE  \/ (ops # <<>> /\ UpdatePending)'
                    \/ (ops = <<>> /\ Sent /\ DeletePending)'
                    \/ (ops = <<>> /\ ~Sent /\ Resting)'
  BY DEF CopyInv
<1> DEFINE Goal == \/ (ops # <<>> /\ UpdatePending)'
                   \/ (ops = <<>> /\ Sent /\ DeletePending)'
                   \/ (ops = <<>> /\ ~Sent /\ Resting)'
<1>0. /\ Shapes /\ store \in Stores /\ fetches \subseteq Fetches /\ ops \in Seq(Updates)
      /\ page \in Pages /\ dialog \in Dialogs \cup {None} /\ "store" \notin doubt
      /\ wire \subseteq PutWrites \cup DeleteWrites /\ conn \in Server
      /\ server \in [Server -> Section] /\ loads \subseteq Loads
  BY DoubtsStay DEF ShowInv, TypeInv, Shapes, Doubts, Copies
<1>1. \/ ops # <<>> /\ UpdatePending
      \/ ops = <<>> /\ Sent /\ DeletePending
      \/ ops = <<>> /\ ~Sent /\ Resting
  BY <1>0 DEF ShowInv, CopyInv
<1>2. ops # <<>> => /\ UpdatePending /\ Len(ops) = 1 /\ DOMAIN ops = {1}
                    /\ ops[1] \in Updates /\ Head(ops) = ops[1] /\ Tail(ops) = <<>>
  BY <1>0, OneUpdate
<1>3. \A f \in fetches : f.id # 0
  BY <1>0 DEF Fetches, RequestId
<1>4. Saved \in Rows
  BY <1>0, SavedRows
<1> HIDE DEF Goal
\* Nothing that matters changes.
<1>k. ASSUME conn' = conn, server' = server, wire' = wire, ops' = ops, dialog' = dialog,
             store'.config = store.config, store'.full \in {None, store.full},
             store'.flight \in {0, store.flight}, fetches' \subseteq fetches
      PROVE  Goal
  <2>1. Saved' = Saved /\ (Sent' <=> Sent)
    BY <1>k DEF Saved, Sent
  <2>2. CASE ops # <<>>
    BY <1>2, <1>k, <2>1, <2>2 DEF Goal, UpdatePending
  <2>3. CASE Sent /\ DeletePending /\ ops = <<>>
    BY <1>k, <2>1, <2>3 DEF Goal, DeletePending
  <2>4. CASE ~Sent /\ Resting /\ ops = <<>>
    BY <1>k, <1>3, <2>1, <2>4 DEF Goal, Resting
  <2>5. QED
    BY <1>1, <2>2, <2>3, <2>4
<1>fail. CASE Fail
  <2>1. /\ ops # <<>> /\ ops' = <<>> /\ Fails(ops[1])
        /\ store' = Edited(store, ops[1].prev)
    BY <1>2, <1>fail DEF Fail, RolledBack
  <2>2. ops[1].prev = Saved /\ wire = {} /\ dialog = None
    BY <1>2, <2>1 DEF Fails, Admitted, UpdatePending
  <2>3. store'.config = Saved /\ store'.full = None /\ store'.flight = 0
    BY <1>0, <1>4, <2>1, <2>2, EditedType
  <2>4. Saved' = Saved /\ wire' = {} /\ dialog' = None /\ fetches' = fetches
    BY <1>fail, <2>2 DEF Fail, Saved
  <2>5. Resting' /\ ~Sent'
    BY <1>3, <2>3, <2>4 DEF Resting, Sent
  <2>6. QED
    BY <2>1, <2>5
<1>read. CASE ReadLatest
  <2> PICK n \in Turns, x \in {"failed", "writing"} :
        /\ ops[n].stage = "reading"
        /\ ops' = [ops EXCEPT ![n].stage = x]
        /\ x = "failed" => wire' = wire
        /\ x = "writing" => wire' = wire \cup {Put(ops[n], server[conn])}
    BY <1>read DEF ReadLatest
  <2>1. n = 1 /\ ops # <<>>
    BY DEF Turns
  <2>2. /\ UpdatePending /\ Len(ops) = 1 /\ ops[1] \in Updates
        /\ wire = {} /\ ops[1].prev = Saved
    BY <1>2, <2>1 DEF UpdatePending
  <2>3. /\ ops' # <<>> /\ Len(ops') = 1
        /\ ops'[1].stage = x /\ ops'[1].prev = ops[1].prev
        /\ ops'[1].rec = ops[1].rec /\ ops'[1].to = ops[1].to
        /\ ops'[1].aborted = ops[1].aborted
    <3>1. x \in {"reading", "writing", "written", "failed"}
      OBVIOUS
    <3>2. QED
      BY <1>0, <2>1, <2>2, <3>1, RestagedOnly
  <2>4. Saved' = Saved /\ dialog' = dialog /\ store' = store /\ conn' = conn
    BY <1>read DEF ReadLatest, Saved
  <2>5. CASE x = "failed"
    <3>1. UpdatePending'
      BY <2>2, <2>3, <2>4, <2>5 DEF UpdatePending
    <3>2. QED
      BY <2>3, <3>1
  <2>6. CASE x = "writing"
    <3>1. PICK w : w = Put(ops[1], server[conn])
      OBVIOUS
    <3>2. /\ w \in PutWrites /\ w.live /\ w.rec = ops[1].rec /\ w.to = conn
          /\ w.val = [server[conn] EXCEPT ![ops[1].rec] = ops[1].to]
      BY <1>0, <2>2, <3>1 DEF Put, PutWrites, Updates, Section
    <3>3. w.val = With(Saved, ops[1].rec, ops[1].to).val
      <4>1. ops[1].rec \in Record /\ ops[1].to \in {"on", "off", "gone"}
        BY <2>2 DEF Updates
      <4>2. Saved.of = conn /\ Saved.val = server[conn]
        BY DEF Saved
      <4>3. With(Saved, ops[1].rec, ops[1].to)
              = [of |-> conn, val |-> [server[conn] EXCEPT ![ops[1].rec] = ops[1].to]]
        BY <1>4, <4>1, <4>2, WithRows
      <4>4. QED
        BY <3>2, <4>3
    <3>4. wire' = {w}
      BY <2>1, <2>2, <2>6, <3>1
    <3>5. UpdatePending'
      BY <2>2, <2>3, <2>4, <2>6, <3>2, <3>3, <3>4 DEF UpdatePending
    <3>6. QED
      BY <2>3, <3>5
  <2>7. QED
    BY <2>5, <2>6
<1>refu. CASE Refused
  <2> PICK n \in Turns :
        /\ ops[n].stage \in {"reading", "writing"}
        /\ ops' = [ops EXCEPT ![n].stage = "failed"]
        /\ wire' = {w \in wire : ~(w.live /\ w.kind = "put" /\ w.rec = ops[n].rec)}
    BY <1>refu DEF Refused
  <2>1. n = 1 /\ ops # <<>>
    BY DEF Turns
  <2>2. UpdatePending /\ Len(ops) = 1 /\ ops[1] \in Updates
    BY <1>2, <2>1
  <2>3. ops[1].prev = Saved
    BY <2>1, <2>2 DEF UpdatePending
  <2>4. wire' = {}
    BY <2>1, <2>2 DEF UpdatePending, PutWrites
  <2>5. /\ ops' # <<>> /\ Len(ops') = 1
        /\ ops'[1].stage = "failed" /\ ops'[1].prev = ops[1].prev
        /\ ops'[1].rec = ops[1].rec /\ ops'[1].to = ops[1].to
        /\ ops'[1].aborted = ops[1].aborted
    BY <1>0, <2>1, <2>2, RestagedOnly
  <2>6. Saved' = Saved /\ dialog' = dialog /\ store' = store
    BY <1>refu DEF Refused, Saved
  <2>7. UpdatePending'
    BY <2>2, <2>3, <2>4, <2>5, <2>6 DEF UpdatePending
  <2>8. QED
    BY <2>5, <2>7
<1>time. CASE TimesOut
  BY <1>time DEF TimesOut, Doubts, Copies
<1>puta. CASE PutArrives
  <2> PICK w \in wire :
        /\ w.kind = "put"
        /\ server' = [server EXCEPT ![w.to] = w.val]
        /\ wire' = wire \ {w}
        /\ ops' = [n \in DOMAIN ops |->
                     IF w.live /\ ops[n].stage = "writing" /\ ops[n].rec = w.rec
                     THEN [ops[n] EXCEPT !.stage = "written"] ELSE ops[n]]
    BY <1>puta DEF PutArrives
  <2>1. ops # <<>>
    BY <1>1 DEF DeletePending, Resting, DeleteWrites
  <2>2. UpdatePending /\ Len(ops) = 1 /\ ops[1] \in Updates /\ DOMAIN ops = {1}
    BY <1>2, <2>1
  <2>3. /\ ops[1].stage = "writing" /\ ops[1].prev = Saved /\ wire = {w}
        /\ w.live /\ w.rec = ops[1].rec /\ w.to = conn
        /\ w.val = With(Saved, ops[1].rec, ops[1].to).val
    BY <2>2 DEF UpdatePending, Updates
  <2>4. \E n : n = 1 /\ ops' = [ops EXCEPT ![n].stage = "written"]
    BY <2>2, <2>3
  <2>5. /\ ops' # <<>> /\ Len(ops') = 1
        /\ ops'[1].stage = "written" /\ ops'[1].prev = ops[1].prev
        /\ ops'[1].rec = ops[1].rec /\ ops'[1].to = ops[1].to
        /\ ops'[1].aborted = ops[1].aborted
    <3>1. PICK n : n = 1 /\ ops' = [ops EXCEPT ![n].stage = "written"]
      BY <2>4
    <3>2. "written" \in {"reading", "writing", "written", "failed"}
      OBVIOUS
    <3>3. QED
      BY <1>0, <2>2, <3>1, <3>2, RestagedOnly
  <2>6. dialog' = dialog /\ store' = store /\ conn' = conn /\ wire' = {}
    BY <1>puta, <2>3 DEF PutArrives
  <2>7. With(Saved, ops[1].rec, ops[1].to) = Saved'
    <3>1. With(Saved, ops[1].rec, ops[1].to)
            = [of |-> conn, val |-> [server[conn] EXCEPT ![ops[1].rec] = ops[1].to]]
      <4>1. ops[1].rec \in Record /\ ops[1].to \in {"on", "off", "gone"}
        BY <2>2 DEF Updates
      <4>2. Saved.of = conn /\ Saved.val = server[conn]
        BY DEF Saved
      <4>3. QED
        BY <1>4, <4>1, <4>2, WithRows
    <3>2. server'[conn] = w.val
      BY <1>0, <2>3
    <3>3. w.val = [server[conn] EXCEPT ![ops[1].rec] = ops[1].to]
      BY <2>3, <3>1
    <3>4. QED
      BY <2>6, <3>1, <3>2, <3>3 DEF Saved
  <2>8. UpdatePending'
    BY <2>2, <2>3, <2>5, <2>6, <2>7 DEF UpdatePending
  <2>9. QED
    BY <2>5, <2>8
<1>lost. CASE WriteLost
  <2>1. PICK w \in wire : ~w.live
    BY <1>lost DEF WriteLost
  <2>2. ops # <<>>
    BY <1>1, <2>1 DEF DeletePending, Resting
  <2>3. QED
    BY <1>2, <2>1, <2>2 DEF UpdatePending, Updates
<1>upda. CASE Updated
  <2> PICK n \in Turns :
        /\ ops[n].stage = "written"
        /\ ops' = SubSeq(ops, 1, n - 1) \o SubSeq(ops, n + 1, Len(ops))
        /\ Load(store, page, ops[n].mount, TRUE)
    BY <1>upda DEF Updated
  <2>1. n = 1 /\ ops # <<>>
    BY DEF Turns
  <2>2. ops' = <<>>
    BY <1>0, <1>2, <2>1, FirstRemoved
  <2>3. wire = {} /\ store.config = Saved /\ store.full = None /\ store.flight = 0 /\ dialog = None
    BY <1>2, <2>1 DEF UpdatePending
  <2>4. Asked(store)
    <3>1. Cardinality(fetches) < MaxMounts + MaxClicks /\ IsFiniteSet(fetches)
      BY <2>1, IdLeft DEF ShowInv
    <3>2. Joinable(store, fetches) /\ ops[n].mount \in 1 .. MaxMounts
      BY <1>2, <2>1 DEF ShowInv, TypeInv, Updates
    <3>3. QED
      BY <1>0, <3>1, <3>2, LoadGives
  <2>5. UNCHANGED <<conn, server, wire, dialog>>
    BY <1>upda DEF Updated
  <2>6. Resting'
    BY <1>0, <1>3, <2>3, <2>4, <2>5, AskedRests
  <2>7. QED
    BY <2>2, <2>3, <2>5, <2>6 DEF Sent
\* A load or a refresh that starts at rest.
<1>s. ASSUME NEW st \in Stores, Asked(st), wire = {}, ops' = <<>>, dialog' = None,
             {st.config, st.full} \subseteq {None, Saved},
             st.flight \in {0, store.flight}, ops = <<>>, dialog = None,
             UNCHANGED <<conn, server, wire>>
      PROVE  Goal
  <2>1. Resting
    BY <1>1, <1>s DEF Sent
  <2>2. \A f \in fetches : f.id = st.flight => f.read \in {None, Saved}
    BY <1>3, <1>s, <2>1 DEF Resting
  <2>3. Resting'
    BY <1>0, <1>s, <2>2, AskedRests
  <2>4. QED
    BY <1>s, <2>3 DEF Goal, Sent
<1>e. CASE Rerender \/ Open
  <2>1. ops = <<>> /\ wire = {} /\ dialog = None
    BY <1>e, NothingBusy DEF Rerender, Open
  <2>2. UNCHANGED <<conn, server, ops, wire, dialog>>
    BY <1>e DEF Rerender, Open
  <2>3. {store.config, store.full} \subseteq {None, Saved}
    BY <1>1, <2>1 DEF Resting, Sent
  <2>4. IsFiniteSet(fetches) /\ Cardinality(fetches) < MaxMounts + MaxClicks
    BY <1>e, IdLeft DEF ShowInv, Rerender, Open
  <2>5. Joinable(store, fetches)
    BY DEF ShowInv, TypeInv
  <2>6. \/ Asks(store, Fetch(store, FALSE))
        \/ \E pg, n, b : Load(store, pg, n, b)
    BY <1>e DEF Rerender, Open
  <2>7. Asks(store, Fetch(store, FALSE))
    BY <2>6 DEF Load
  <2>8. Asked(store)
    BY <1>0, <2>4, <2>5, <2>7, AsksGives
  <2>9. QED
    BY <1>0, <1>s, <2>1, <2>2, <2>3, <2>8 DEF Goal
<1>fetr. CASE FetchRead
  <2> PICK f \in fetches : /\ f.read = None
                          /\ fetches' = (fetches \ {f}) \cup {[f EXCEPT !.read = Saved]}
    BY <1>fetr DEF FetchRead, Saved
  <2>1. UNCHANGED <<conn, server, store, ops, wire, dialog>>
    BY <1>fetr DEF FetchRead
  <2>2. Saved' = Saved /\ (Sent' <=> Sent)
    BY <2>1 DEF Saved, Sent
  <2>3. CASE ops # <<>>
    BY <1>2, <2>1, <2>2, <2>3 DEF UpdatePending
  <2>4. CASE Sent /\ DeletePending /\ ops = <<>>
    BY <2>1, <2>2, <2>4 DEF DeletePending
  <2>5. CASE ~Sent /\ Resting /\ ops = <<>>
    <3>1. [f EXCEPT !.read = Saved].read = Saved
      BY <1>0 DEF Fetches
    <3>2. QED
      BY <2>1, <2>2, <2>5, <3>1 DEF Resting
  <2>6. QED
    BY <1>1, <2>3, <2>4, <2>5
<1>feta. CASE FetchAnswered
  <2> PICK f \in fetches :
        /\ f.read # None
        /\ fetches' = fetches \ {f}
        /\ f.id = store.flight =>
             store' = [config |-> f.read, full |-> f.read, flight |-> 0]
        /\ f.id # store.flight => store' = store
    BY <1>feta DEF FetchAnswered
  <2>1. UNCHANGED <<conn, server, ops, wire, dialog>>
    BY <1>feta DEF FetchAnswered
  <2>2. CASE f.id # store.flight
    BY <1>k, <2>1, <2>2 DEF Goal
  <2>3. CASE f.id = store.flight
    <3>0. Saved' = Saved /\ (Sent' <=> Sent)
      BY <2>1 DEF Saved, Sent
    <3>1. ops = <<>>
      BY <1>2, <1>3, <2>3 DEF UpdatePending
    <3>2. CASE Sent /\ DeletePending
      BY <2>1, <3>0, <3>1, <3>2 DEF DeletePending
    <3>3. CASE ~Sent /\ Resting
      <4>1. /\ store'.config = Saved /\ store'.full = Saved /\ store'.flight = 0
            /\ wire' = {} /\ \A g \in fetches' : g.id # 0
        BY <1>3, <2>1, <2>3, <3>3 DEF Resting
      <4>2. Resting'
        BY <3>0, <4>1 DEF Resting
      <4>3. QED
        BY <2>1, <3>0, <3>1, <3>3, <4>2
    <3>4. QED
      BY <1>1, <3>1, <3>2, <3>3
  <2>4. QED
    BY <2>2, <2>3
<1>fetf. CASE FetchFails
  <2> PICK f \in fetches : fetches' = fetches \ {f} /\ store' = Settled(store, f)
    BY <1>fetf DEF FetchFails
  <2>1. /\ store'.config = store.config /\ store'.full = store.full
        /\ store'.flight \in {0, store.flight}
    BY <1>0 DEF Settled, Stores
  <2>2. QED
    BY <1>fetf, <1>k, <2>1 DEF FetchFails, Goal
<1>load. CASE LoadEnds
  <2>1. store' \in {store, Invalidated(store)}
    BY <1>load DEF LoadEnds
  <2>2. /\ store'.config = store.config /\ store'.full \in {None, store.full}
        /\ store'.flight \in {0, store.flight}
    BY <1>0, <2>1 DEF Invalidated, Stores
  <2>3. QED
    BY <1>load, <1>k, <2>2 DEF LoadEnds, Goal
<1>expi. CASE Expires
  <2>1. /\ store'.config = store.config /\ store'.full = None
        /\ store'.flight = store.flight
    BY <1>0, <1>expi DEF Expires, Stores
  <2>2. QED
    BY <1>expi, <1>k, <2>1 DEF Expires, Goal
<1>leav. CASE Leave
  BY <1>leav, <1>k DEF Leave, Goal
<1>v. CASE UNCHANGED vars
  BY <1>v, <1>k DEF vars, Goal
<1>delr. CASE DeleteRefused
  BY <1>delr DEF DeleteRefused, Copies
<1>refr. CASE RefreshAll
  <2>1. ops = <<>> /\ wire = {} /\ dialog = None
    BY <1>refr, NothingBusy DEF RefreshAll
  <2>2. IsFiniteSet(fetches) /\ Cardinality(fetches) < MaxMounts + MaxClicks
    BY <1>refr, IdLeft DEF ShowInv, RefreshAll, Clicks
  <2>3. /\ Emptied \in Stores /\ Joinable(Emptied, fetches) /\ Emptied.config = None
        /\ Emptied.full = None /\ Emptied.flight = 0
    BY DEF Emptied, Stores, Joinable
  <2>4. Asked(Emptied)
    BY <1>0, <1>refr, <2>2, <2>3, AsksGives DEF RefreshAll
  <2>5. QED
    BY <1>refr, <1>s, <2>1, <2>3, <2>4 DEF RefreshAll, Goal
<1>swit. CASE Switch
  <2>1. ops = <<>> /\ ops' = <<>> /\ dialog = None
    BY <1>0, <1>swit, SwitchedQueue DEF Doubts, Copies
  <2>2. wire = {} /\ wire' = {}
    BY <1>1, <1>swit, <2>1 DEF Switch, Resting, Sent
  <2>3. dialog' = None /\ fetches' = {} /\ store'.config = None /\ store'.full = None
    BY <1>swit, <2>1 DEF Switch, Emptied
  <2>4. Resting' /\ ~Sent'
    BY <2>2, <2>3 DEF Resting, Sent
  <2>5. QED
    BY <2>1, <2>4
<1>togg. CASE Toggle
  <2> PICK r \in Offered, to \in {"on", "off"} :
        /\ store' = Edited(store, [page.rows EXCEPT !.val[r] = to])
        /\ ops' = Append(ops, [mount |-> page.mount, rec |-> r, to |-> to, home |-> conn,
                               prev |-> page.rows, stage |-> "reading", aborted |-> FALSE])
    BY <1>togg DEF Toggle
  <2>1. ops = <<>> /\ wire = {} /\ dialog = None /\ "page" \notin doubt
    BY <1>togg DEF Toggle, WriteDoubt, Busy, Copies
  <2>2. page.rows = Saved /\ r \in Record
    BY <2>1 DEF Offered, ShowInv, PageInv, Sent
  <2>3. UNCHANGED <<conn, server, wire, dialog>>
    BY <1>togg DEF Toggle
  <2>4. PICK op : op = [mount |-> page.mount, rec |-> r, to |-> to, home |-> conn,
                        prev |-> page.rows, stage |-> "reading", aborted |-> FALSE]
    OBVIOUS
  <2>5. ops' # <<>> /\ Len(ops') = 1 /\ ops'[1] = op
    <3>1. ops' = Append(<<>>, op)
      BY <2>1, <2>4
    <3>2. <<>> \in Seq({op}) /\ Len(<<>>) = 0
      BY EmptySeq
    <3>3. /\ Len(Append(<<>>, op)) = Len(<<>>) + 1
          /\ Append(<<>>, op)[Len(<<>>) + 1] = op
      <4>1. op \in {op}
        OBVIOUS
      <4>2. QED
        BY <3>2, <4>1, AppendProperties
    <3>4. Len(ops') = 1 /\ ops'[1] = op
      BY <3>1, <3>2, <3>3
    <3>5. QED
      BY <3>2, <3>4
  <2>6. With(Saved, r, to) \in Rows
    BY <1>4, <2>2, WithRows
  <2>7. store'.config = With(Saved, r, to) /\ store'.full = None /\ store'.flight = 0
    BY <1>0, <2>2, <2>6, EditedType DEF With
  <2>8. /\ op.prev = Saved /\ op.rec = r /\ op.to = to /\ ~op.aborted
        /\ op.stage = "reading"
    BY <2>2, <2>4
  <2>9. Saved' = Saved
    BY <2>3 DEF Saved
  <2>10. UpdatePending'
    BY <2>1, <2>3, <2>5, <2>7, <2>8, <2>9 DEF UpdatePending
  <2>11. QED
    BY <2>5, <2>10
<1>askd. CASE AskDelete
  <2>1. /\ dialog = None /\ dialog' \in Dialogs /\ dialog'.sent = FALSE
        /\ page.shown /\ ~page.locked
    <3>1. PICK r \in Offered : dialog' = [rec |-> r, rows |-> page.rows, mount |-> page.mount,
                                         sent |-> FALSE]
      BY <1>askd DEF AskDelete
    <3>2. page.shown /\ ~page.locked /\ page.rows \in Rows /\ r \in Record
      BY <1>0 DEF Offered, Pages
    <3>3. page.mount \in 1 .. MaxMounts
      BY <1>0, <3>2, BoundsAreNat DEF Shapes, Pages
    <3>4. QED
      BY <1>askd, <3>1, <3>2, <3>3 DEF AskDelete, Clicks, Dialogs
  <2>2. ops = <<>>
    BY <1>0, <2>1 DEF ShowInv, OneOwner
  <2>3. Resting
    BY <1>1, <2>1, <2>2 DEF Sent
  <2>4. Resting'
    BY <1>askd, <2>3 DEF AskDelete, Resting, Saved
  <2>5. ~Sent' /\ ops' = ops
    BY <1>askd, <2>1 DEF Sent, AskDelete
  <2>6. QED
    BY <2>2, <2>4, <2>5
<1>conf. CASE ConfirmDelete
  <2>1. ops = <<>> /\ wire = {} /\ "page" \notin doubt /\ dialog \in Dialogs /\ ~dialog.sent
    BY <1>0, <1>conf DEF ConfirmDelete, Copies
  <2>2. dialog.rows = Saved
    BY <1>conf, <2>1 DEF ConfirmDelete, ShowInv, PageInv, Sent
  <2>3. PICK w : /\ w = [kind |-> "delete", rec |-> dialog.rec, to |-> conn,
                         meant |-> dialog.rows.of, live |-> TRUE]
                 /\ wire' = wire \cup {w}
    BY <1>conf DEF ConfirmDelete
  <2>4. dialog.rec \in Record /\ dialog.rows.of \in Server
    BY <2>1 DEF Dialogs, Rows
  <2>5. w \in DeleteWrites /\ w.live /\ w.rec = dialog.rec /\ w.to = conn
    BY <1>0, <2>3, <2>4 DEF DeleteWrites
  <2>6. /\ dialog' \in Dialogs /\ dialog'.sent /\ dialog'.rows = dialog.rows
        /\ dialog'.rec = dialog.rec
    BY <1>conf, <2>1 DEF ConfirmDelete, Dialogs
  <2>7. dialog' # None
    BY <2>6, NoneIsNothing DEF Dialogs
  <2>8. UNCHANGED <<conn, server, ops>> /\ Saved' = Saved
    BY <1>conf DEF ConfirmDelete, Saved
  <2>9. DeletePending'
    BY <2>1, <2>2, <2>3, <2>5, <2>6, <2>8 DEF DeletePending
  <2>10. QED
    BY <2>1, <2>6, <2>7, <2>8, <2>9 DEF Sent
<1>canc. CASE CancelDelete
  <2>1. ops = <<>> /\ ~Sent
    BY <1>2, <1>canc DEF CancelDelete, UpdatePending, Sent
  <2>2. Resting
    BY <1>1, <2>1
  <2>3. Resting' /\ ops' = ops /\ ~Sent'
    BY <1>canc, <2>2 DEF CancelDelete, Resting, Saved, Sent
  <2>4. QED
    BY <2>1, <2>3
<1>dela. CASE DeleteArrives
  <2> PICK w \in wire : /\ w.kind = "delete"
                       /\ server' = [server EXCEPT ![w.to][w.rec] = "gone"]
                       /\ wire' = wire \ {w}
    BY <1>dela DEF DeleteArrives
  <2>1. ops = <<>>
    BY <1>2 DEF UpdatePending, PutWrites, Updates
  <2>2. Sent /\ DeletePending
    BY <1>1, <2>1 DEF Resting
  <2>3. /\ dialog.rows = Saved /\ wire = {w} /\ w.rec = dialog.rec /\ w.to = conn
        /\ dialog.rec \in Record
    BY <1>0, <2>2 DEF DeletePending, Sent, Dialogs
  <2>4. UNCHANGED <<conn, ops, dialog>>
    BY <1>dela DEF DeleteArrives
  <2>5. With(Saved, dialog.rec, "gone") = Saved'
    <3>1. Saved.of = conn /\ Saved.val = server[conn]
      BY DEF Saved
    <3>2. With(Saved, dialog.rec, "gone")
            = [of |-> conn, val |-> [server[conn] EXCEPT ![dialog.rec] = "gone"]]
      BY <1>4, <2>3, <3>1, WithRows
    <3>3. server'[conn] = [server[conn] EXCEPT ![dialog.rec] = "gone"]
      BY <1>0, <2>3
    <3>4. QED
      BY <2>4, <3>2, <3>3 DEF Saved
  <2>6. DeletePending' /\ Sent'
    BY <2>2, <2>3, <2>4, <2>5 DEF DeletePending, Sent
  <2>7. QED
    BY <2>1, <2>4, <2>6
<1>deld. CASE Deleted
  <2>1. Sent /\ Deleting = {}
    BY <1>deld DEF Deleted, Sent
  <2>2. ops = <<>> /\ DeletePending
    BY <1>1, <1>2, <2>1 DEF UpdatePending, Sent
  <2>3. wire = {} /\ With(dialog.rows, dialog.rec, "gone") = Saved
    BY <2>1, <2>2 DEF DeletePending, Deleting, DeleteWrites
  <2>4. store' = Edited(store, Saved)
    BY <1>deld, <2>3 DEF Deleted, With
  <2>5. store'.config = Saved /\ store'.full = None /\ store'.flight = 0
    BY <1>0, <1>4, <2>4, EditedType
  <2>6. dialog' = None /\ UNCHANGED <<conn, server, ops, wire, fetches>>
    BY <1>deld DEF Deleted
  <2>7. Resting' /\ ~Sent'
    BY <1>3, <2>3, <2>5, <2>6 DEF Resting, Sent, Saved
  <2>8. QED
    BY <2>2, <2>6, <2>7
<1>q. QED
  BY <1>fail, <1>read, <1>refu, <1>time, <1>puta, <1>lost, <1>upda, <1>e, <1>fetr, <1>feta,
     <1>fetf, <1>load, <1>expi, <1>togg, <1>askd, <1>conf, <1>canc, <1>dela, <1>deld,
     <1>delr, <1>refr, <1>leav, <1>swit, <1>v DEF Next, Network

LEMMA PageStep == ShowInv /\ [Next]_vars => PageInv'
<1> DEFINE Goal == /\ ops # <<>> \/ Sent => fetches = {} /\ loads = {}
                   /\ ops # <<>> => page.rows \in {None, store.config}
                   /\ ops = <<>> /\ ~Sent =>
                         /\ page.rows \in {None, Saved}
                         /\ dialog # None => dialog.rows = Saved
                         /\ \A f \in fetches : f.read \in {None, Saved}
                         /\ \A l \in loads : l.mount = page.mount => l.data \in {None, Saved}
<1> SUFFICES ASSUME ShowInv, [Next]_vars, "page" \notin doubt' PROVE Goal'
  BY DoubtsPaired DEF ShowInv, PageInv
<1>0. /\ Shapes /\ store \in Stores /\ fetches \subseteq Fetches /\ ops \in Seq(Updates)
      /\ page \in Pages /\ dialog \in Dialogs \cup {None} /\ loads \subseteq Loads
      /\ "page" \notin doubt /\ "store" \notin doubt /\ "store" \notin doubt'
  <2>1. "page" \notin doubt
    BY DoubtsStay DEF Doubts, Copies
  <2>2. QED
    BY <2>1, DoubtsPaired DEF ShowInv, TypeInv, Shapes, PageInv
<1>1. Goal
  BY <1>0 DEF ShowInv, PageInv
<1>2. ops # <<>> => UpdatePending
  BY <1>0, OneUpdate
<1>3. ops = <<>> /\ ~Sent => Resting
  BY <1>0 DEF ShowInv, CopyInv
<1>4. CopyInv'
  BY CopyStep
<1>5. \A l \in loads : l.mount < page.mount + 1 /\ (page.due => l.mount # page.mount)
  <2>1. \A a, b \in Nat : (a <= b => a < b + 1) /\ (a < b => a # b)
    OBVIOUS
  <2>2. \A l \in loads : l.mount \in Nat /\ page.mount \in Nat
    BY <1>0, BoundsAreNat DEF Loads, Pages
  <2>3. QED
    BY <2>1, <2>2 DEF ShowInv, Mounted
<1>k. ASSUME UNCHANGED <<conn, server>>, ops' = <<>> => ops = <<>>, ops' # <<>> => ops # <<>>,
             dialog' = dialog, store'.config = store.config, fetches' \subseteq fetches,
             loads' \subseteq loads, page'.rows \in {None, page.rows}, page'.mount = page.mount
      PROVE  Goal'
  BY <1>1, <1>k DEF Saved, Sent
<1>fail. CASE Fail
  <2>1. ops # <<>> /\ ops' = <<>> /\ dialog = None /\ ops[1].prev = Saved
        /\ RolledBack(ops[1])
    BY <1>0, <1>2, <1>fail, OneUpdate DEF Fail, Fails, Admitted, UpdatePending
  <2>2. UNCHANGED <<conn, server, dialog>> /\ fetches' = {} /\ loads' = {}
    BY <1>1, <1>fail, <2>1 DEF Fail
  <2>3. page'.rows \in {None, Saved}
    <3>1. page'.rows = Shown(page, Saved).rows
      BY <1>0, <2>1 DEF RolledBack, Shown, Pages
    <3>2. QED
      BY <1>0, <3>1 DEF Shown, Pages, Shapes
  <2>4. QED
    BY <2>1, <2>2, <2>3 DEF Saved, Sent
<1>d. CASE ReadLatest \/ Refused \/ TimesOut \/ PutArrives
  <2>1. UNCHANGED <<conn, page, loads, fetches, store, dialog>>
    BY <1>d DEF ReadLatest, Refused, TimesOut, PutArrives
  <2>2. ops # <<>>
    <3>1. CASE PutArrives
      <4>1. \E w \in wire : w.kind = "put"
        BY <3>1 DEF PutArrives
      <4>2. QED
        BY <1>0, <4>1 DEF ShowInv, CopyInv, DeletePending, Resting, DeleteWrites
    <3>2. CASE ReadLatest \/ Refused \/ TimesOut
      BY <3>2 DEF ReadLatest, Refused, TimesOut, Turns
    <3>3. QED
      BY <1>d, <3>1, <3>2
  <2>3. ops' # <<>>
    <3>1. DOMAIN ops' = DOMAIN ops
      <4>1. CASE PutArrives
        BY <4>1 DEF PutArrives
      <4>2. CASE ReadLatest
        BY <4>2 DEF ReadLatest
      <4>3. CASE Refused
        BY <4>3 DEF Refused
      <4>4. CASE TimesOut
        BY <4>4 DEF TimesOut
      <4>5. QED
        BY <1>d, <4>1, <4>2, <4>3, <4>4
    <3>2. DOMAIN ops = {1}
      BY <1>0, <2>2, OneUpdate
    <3>3. QED
      BY <3>1, <3>2, EmptySeq
  <2>4. QED
    BY <1>1, <2>1, <2>2, <2>3
<1>u. CASE Updated
  <2> PICK n \in Turns :
        /\ ops[n].stage = "written"
        /\ ops' = SubSeq(ops, 1, n - 1) \o SubSeq(ops, n + 1, Len(ops))
        /\ Load(store, page, ops[n].mount, TRUE)
    BY <1>u DEF Updated
  <2>1. n = 1 /\ ops # <<>>
    BY DEF Turns
  <2>2. ops' = <<>>
    BY <1>0, <2>1, OneUpdate, FirstRemoved
  <2>3. /\ store.config = Saved /\ store.full = None /\ dialog = None
        /\ fetches = {} /\ loads = {} /\ page.rows \in {None, Saved}
    BY <1>1, <1>2, <2>1 DEF UpdatePending
  <2>4. /\ Asked(store)
        /\ \E l \in Loads : l.data = None /\ loads' = {l}
        /\ page' \in {page, [page EXCEPT !.loading = TRUE]}
    <3>1. Cardinality(fetches) < MaxMounts + MaxClicks /\ IsFiniteSet(fetches)
      BY <2>1, IdLeft DEF ShowInv
    <3>2. Joinable(store, fetches) /\ ops[n].mount \in 1 .. MaxMounts
      BY <1>0, <2>1, OneUpdate DEF ShowInv, TypeInv, Updates
    <3>3. /\ Asked(store)
          /\ \E l \in Loads : l.data = store.full /\ loads' = loads \cup {l}
          /\ page' \in {page, [page EXCEPT !.loading = TRUE]}
      BY <1>0, <3>1, <3>2, LoadGives
    <3>4. QED
      BY <2>3, <3>3
  <2>5. \A f \in fetches' : f.read = None
    BY <2>3, <2>4 DEF Asked
  <2>6. page'.rows = page.rows
    BY <1>0, <2>4 DEF Pages
  <2>7. UNCHANGED <<conn, server, dialog>>
    BY <1>u DEF Updated
  <2>8. QED
    BY <2>2, <2>3, <2>4, <2>5, <2>6, <2>7 DEF Saved, Sent
\* A page that starts to load at rest.
<1>e. CASE Rerender \/ Open
  <2>1. ops = <<>> /\ wire = {} /\ dialog = None
    BY <1>e, <1>0, NothingBusy DEF Rerender, Open
  <2>2. UNCHANGED <<conn, server, ops, wire, dialog>>
    BY <1>e DEF Rerender, Open
  <2>3. /\ {store.config, store.full} \subseteq {None, Saved}
        /\ \A f \in fetches : f.read \in {None, Saved}
        /\ \A l \in loads : l.mount = page.mount => l.data \in {None, Saved}
    BY <1>1, <1>3, <2>1 DEF Resting, Sent
  <2>4. IsFiniteSet(fetches) /\ Cardinality(fetches) < MaxMounts + MaxClicks
    BY <1>e, IdLeft DEF ShowInv, Rerender, Open
  <2>5. Joinable(store, fetches)
    BY DEF ShowInv, TypeInv
  <2>6. ASSUME NEW pg \in Pages, NEW m \in 1 .. MaxMounts, pg.mount = m,
               pg.rows = store.config, Load(store, pg, m, FALSE),
               \A l \in loads : l.mount # m
        PROVE  Goal'
    <3>1. /\ Asked(store)
          /\ \E l \in Loads : l.data = store.full /\ loads' = loads \cup {l}
          /\ page' \in {pg, [pg EXCEPT !.loading = TRUE]}
      BY <1>0, <2>4, <2>5, <2>6, LoadGives
    <3>2. page'.rows = store.config /\ page'.mount = m
      BY <2>6, <3>1 DEF Pages
    <3>3. \A l \in loads' : l.mount = m => l.data \in {None, Saved}
      BY <2>3, <2>6, <3>1
    <3>4. \A f \in fetches' : f.read \in {None, Saved}
      BY <2>3, <3>1 DEF Asked
    <3>5. Saved' = Saved /\ ops' = <<>> /\ dialog' = None
      BY <2>1, <2>2 DEF Saved
    <3>6. QED
      BY <2>3, <3>2, <3>3, <3>4, <3>5 DEF Sent
  <2>7. CASE Rerender /\ page.shown
    <3>1. page.mount \in 1 .. MaxMounts /\ page.mount \in 0 .. MaxMounts
      BY <1>0, <2>7, BoundsAreNat DEF Shapes, Pages
    <3>2. PICK pg : pg = [NewPage(page.mount) EXCEPT !.shown = TRUE, !.rows = store.config]
      OBVIOUS
    <3>3. pg \in Pages /\ pg.mount = page.mount /\ pg.rows = store.config
      <4>1. store.config \in Rows \cup {None}
        BY <1>0 DEF Stores
      <4>2. QED
        BY <3>1, <3>2, <4>1, OpenedPage
    <3>4. Load(store, pg, page.mount, FALSE) /\ page.due
      BY <2>7, <3>2 DEF Rerender
    <3>5. QED
      BY <1>5, <2>6, <3>1, <3>3, <3>4
  <2>8. CASE Open
    <3>1. page.mount + 1 \in 1 .. MaxMounts /\ page.mount + 1 \in 0 .. MaxMounts
      BY <1>0, <2>8, BoundsAreNat DEF Open, Shapes, Pages
    <3>2. PICK pg : pg = [NewPage(page.mount + 1) EXCEPT !.shown = TRUE, !.rows = store.config]
      OBVIOUS
    <3>3. pg \in Pages /\ pg.mount = page.mount + 1 /\ pg.rows = store.config
      <4>1. store.config \in Rows \cup {None}
        BY <1>0 DEF Stores
      <4>2. QED
        BY <3>1, <3>2, <4>1, OpenedPage
    <3>4. Load(store, pg, page.mount + 1, FALSE)
      BY <2>8, <3>2 DEF Open
    <3>5. \A l \in loads : l.mount # page.mount + 1
      <4>1. \A a, b \in Nat : a < b => a # b
        OBVIOUS
      <4>2. \A l \in loads : l.mount \in Nat
        BY <1>0, BoundsAreNat DEF Loads
      <4>3. page.mount + 1 \in Nat
        BY <3>1
      <4>4. QED
        BY <1>5, <4>1, <4>2, <4>3
    <3>6. QED
      BY <2>6, <3>1, <3>3, <3>4, <3>5
  <2>9. CASE Rerender /\ ~page.shown
    <3>1. Asks(store, Fetch(store, FALSE)) /\ page' = NewPage(page.mount) /\ loads' = loads
      BY <2>9 DEF Rerender
    <3>2. Asked(store)
      BY <1>0, <2>4, <2>5, <3>1, AsksGives
    <3>3. page'.rows = None /\ page'.mount = page.mount
      BY <3>1 DEF NewPage
    <3>4. \A f \in fetches' : f.read \in {None, Saved}
      BY <2>3, <3>2 DEF Asked
    <3>5. Saved' = Saved /\ ops' = <<>> /\ dialog' = None
      BY <2>1, <2>2 DEF Saved
    <3>6. QED
      BY <2>3, <3>1, <3>3, <3>4, <3>5 DEF Sent
  <2>10. QED
    BY <1>e, <2>7, <2>8, <2>9
<1>fetr. CASE FetchRead
  <2> PICK f \in fetches : /\ f.read = None
                          /\ fetches' = (fetches \ {f}) \cup {[f EXCEPT !.read = Saved]}
    BY <1>fetr DEF FetchRead, Saved
  <2>1. UNCHANGED <<conn, server, store, ops, page, dialog, loads>>
    BY <1>fetr DEF FetchRead
  <2>2. [f EXCEPT !.read = Saved].read = Saved
    BY <1>0 DEF Fetches
  <2>3. ops = <<>> /\ ~Sent
    BY <1>1
  <2>4. QED
    BY <1>1, <2>1, <2>2, <2>3 DEF Saved, Sent
<1>feta. CASE FetchAnswered
  <2> PICK f \in fetches :
        /\ f.read # None
        /\ fetches' = fetches \ {f}
        /\ loads' = {IF l.fetch = f.id /\ l.data = None THEN [l EXCEPT !.data = f.read]
                     ELSE l : l \in loads}
        /\ page' \in {Shown(page, f.read), page}
    BY <1>feta DEF FetchAnswered
  <2>1. UNCHANGED <<conn, server, ops, dialog>>
    BY <1>feta DEF FetchAnswered
  <2>2. ops = <<>> /\ ~Sent /\ f.read = Saved
    BY <1>1
  <2>3. page'.rows \in {None, Saved} /\ page'.mount = page.mount
    BY <1>0, <1>1, <2>2 DEF Shown, Pages
  <2>4. \A l \in loads' : l.mount = page.mount => l.data \in {None, Saved}
    BY <1>0, <1>1, <2>2 DEF Loads
  <2>5. QED
    BY <1>1, <2>1, <2>2, <2>3, <2>4 DEF Saved, Sent
<1>fetf. CASE FetchFails
  <2> PICK f \in fetches :
        /\ fetches' = fetches \ {f}
        /\ loads' = loads \ {l \in loads : l.fetch = f.id /\ l.data = None}
        /\ page' = Ended(page, {l \in loads : l.fetch = f.id /\ l.data = None})
        /\ store' = Settled(store, f)
    BY <1>fetf DEF FetchFails
  <2>1. store'.config = store.config
    BY <1>0 DEF Settled, Stores
  <2>2. page'.rows = page.rows /\ page'.mount = page.mount
    BY <1>0 DEF Ended, Pages
  <2>3. QED
    BY <1>fetf, <1>k, <2>1, <2>2 DEF FetchFails
<1>load. CASE LoadEnds
  <2> PICK l \in loads :
        /\ l.data # None
        /\ loads' = loads \ {l}
        /\ page' = Ended(IF l.mount = page.mount THEN Shown(page, l.data) ELSE page, {l})
    BY <1>load DEF LoadEnds
  <2>1. UNCHANGED <<conn, server, ops, dialog, fetches>>
    BY <1>load DEF LoadEnds
  <2>2. ops = <<>> /\ ~Sent /\ (l.mount = page.mount => l.data = Saved)
    BY <1>1
  <2>3. page'.rows \in {None, Saved} /\ page'.mount = page.mount
    <3>1. PICK pg : pg = IF l.mount = page.mount THEN Shown(page, l.data) ELSE page
      OBVIOUS
    <3>2. pg \in Pages /\ pg.mount = page.mount /\ pg.rows \in {None, Saved}
      <4>1. CASE l.mount = page.mount
        <5>1. l.data \in Rows \cup {None}
          BY <1>0 DEF Loads
        <5>2. QED
          BY <1>0, <1>1, <2>2, <3>1, <4>1, <5>1, ShownType DEF Pages
      <4>2. CASE l.mount # page.mount
        BY <1>0, <1>1, <2>2, <3>1, <4>2
      <4>3. QED
        BY <4>1, <4>2
    <3>3. {l} \in SUBSET Loads
      BY <1>0
    <3>4. QED
      BY <3>1, <3>2, <3>3, EndedType
  <2>4. QED
    BY <1>1, <2>1, <2>2, <2>3 DEF Saved, Sent
<1>expi. CASE Expires
  <2>1. store'.config = store.config
    BY <1>0, <1>expi DEF Expires, Stores
  <2>2. QED
    BY <1>expi, <1>k, <2>1 DEF Expires
<1>togg. CASE Toggle
  <2> PICK r \in Offered, to \in {"on", "off"} :
        /\ page' = [page EXCEPT !.rows = [page.rows EXCEPT !.val[r] = to], !.locked = TRUE]
        /\ store' = Edited(store, [page.rows EXCEPT !.val[r] = to])
        /\ ops' = Append(ops, [mount |-> page.mount, rec |-> r, to |-> to, home |-> conn,
                               prev |-> page.rows, stage |-> "reading", aborted |-> FALSE])
    BY <1>togg DEF Toggle
  <2>1. fetches = {} /\ loads = {} /\ UNCHANGED <<fetches, loads>>
    BY <1>togg DEF Toggle, WriteDoubt, Reading, Copies
  <2>2. page'.rows = store'.config
    BY <1>0 DEF Edited, Stores, Pages
  <2>3. ops' # <<>>
    <3>1. PICK op : ops' = Append(ops, op)
      OBVIOUS
    <3>2. ops \in Seq(Updates \cup {op}) /\ Len(ops) \in Nat
      BY <1>0, SeqMonotonic, LenProperties
    <3>3. Len(ops') = Len(ops) + 1
      BY <3>1, <3>2, AppendProperties
    <3>4. Len(<<>>) = 0
      BY EmptySeq
    <3>5. QED
      BY <3>2, <3>3, <3>4
  <2>4. QED
    BY <2>1, <2>2, <2>3
<1>askd. CASE AskDelete
  <2> PICK r \in Offered : dialog' = [rec |-> r, rows |-> page.rows, mount |-> page.mount,
                                     sent |-> FALSE]
    BY <1>askd DEF AskDelete
  <2>1. /\ page.rows # None /\ dialog = None /\ dialog'.rows = page.rows /\ ~dialog'.sent
        /\ UNCHANGED <<conn, server, store, fetches, page, loads, ops>>
    BY <1>askd DEF AskDelete, Clicks, Offered
  <2>2. QED
    BY <1>1, <2>1 DEF Saved, Sent
<1>conf. CASE ConfirmDelete
  <2>1. /\ ops = <<>> /\ fetches = {} /\ loads = {} /\ ~dialog.sent /\ dialog # None
        /\ UNCHANGED <<fetches, loads, ops>>
    BY <1>conf DEF ConfirmDelete, Copies, Reading
  <2>2. dialog \in Dialogs /\ dialog' = [dialog EXCEPT !.sent = TRUE]
    BY <1>0, <1>conf DEF ConfirmDelete
  <2>3. dialog' \in Dialogs /\ dialog'.sent
    BY <2>2 DEF Dialogs
  <2>4. Sent'
    BY <2>3, NoneIsNothing DEF Sent, Dialogs
  <2>5. QED
    BY <2>1, <2>4
<1>canc. CASE CancelDelete
  <2>1. /\ dialog # None /\ ~dialog.sent /\ dialog' = None
        /\ UNCHANGED <<conn, server, store, fetches, page, loads, ops>>
    BY <1>canc DEF CancelDelete
  <2>2. QED
    BY <1>1, <2>1 DEF Saved, Sent
<1>dela. CASE DeleteArrives
  <2>1. \E w \in wire : w.kind = "delete"
    BY <1>dela DEF DeleteArrives
  <2>2. UNCHANGED <<conn, store, fetches, page, loads, ops, dialog>>
    BY <1>dela DEF DeleteArrives
  <2>3. ops # <<>> \/ Sent
    BY <1>3, <2>1 DEF Resting
  <2>4. QED
    BY <1>1, <2>2, <2>3 DEF Sent
<1>deld. CASE Deleted
  <2>1. Sent /\ ops = <<>>
    BY <1>2, <1>deld DEF Deleted, Sent, UpdatePending
  <2>2. PICK next : next = With(dialog.rows, dialog.rec, "gone")
    OBVIOUS
  <2>3. store' = Edited(store, next) /\ page' = Shown(page, next) /\ dialog' = None
        /\ UNCHANGED <<conn, server, fetches, loads, ops>>
    BY <1>deld, <2>2 DEF Deleted, With
  <2>4. fetches' = {} /\ loads' = {} /\ ops' = <<>> /\ ~Sent'
    BY <1>1, <2>1, <2>3 DEF Sent
  <2>5. store'.config = next
    BY <1>0, <2>3 DEF Edited, Stores
  <2>6. Resting'
    BY <1>0, <1>4, <2>4 DEF CopyInv
  <2>7. next \in {None, Saved'}
    BY <2>5, <2>6 DEF Resting
  <2>8. page'.rows \in {None, Saved'}
    BY <1>0, <2>3, <2>7 DEF Shown, Pages, Shapes
  <2>9. QED
    BY <2>3, <2>4, <2>8
<1>delr. CASE DeleteRefused
  BY <1>delr DEF DeleteRefused, Copies
<1>refr. CASE RefreshAll
  <2>1. ops = <<>> /\ wire = {} /\ dialog = None
    BY <1>0, <1>refr, NothingBusy DEF RefreshAll
  <2>2. IsFiniteSet(fetches) /\ Cardinality(fetches) < MaxMounts + MaxClicks
    BY <1>refr, IdLeft DEF ShowInv, RefreshAll, Clicks
  <2>3. Emptied \in Stores /\ Joinable(Emptied, fetches)
    BY DEF Emptied, Stores, Joinable
  <2>4. Asked(Emptied)
    BY <1>0, <1>refr, <2>2, <2>3, AsksGives DEF RefreshAll
  <2>5. \A f \in fetches' : f.read = None \/ f \in fetches
    BY <2>4 DEF Asked
  <2>6. UNCHANGED <<conn, server, page, loads, ops, dialog>>
    BY <1>refr DEF RefreshAll
  <2>7. QED
    BY <1>1, <2>1, <2>5, <2>6 DEF Saved, Sent
<1>leav. CASE Leave
  <2>1. page'.rows = None /\ page'.mount = page.mount
    BY <1>leav DEF Leave, NewPage
  <2>2. QED
    BY <1>leav, <1>k, <2>1 DEF Leave
<1>swit. CASE Switch
  <2>1. ops' = <<>> /\ dialog = None
    BY <1>0, <1>swit, SwitchedQueue DEF Doubts, Copies
  <2>2. /\ dialog' = None /\ fetches' = {} /\ loads' \subseteq loads
        /\ page'.rows = None /\ page'.mount = page.mount + 1
    BY <1>swit, <2>1 DEF Switch, NewPage
  <2>3. \A l \in loads' : l.mount # page'.mount
    <3>1. \A a, b \in Nat : a < b => a # b
      OBVIOUS
    <3>2. \A l \in loads : l.mount \in Nat
      BY <1>0, BoundsAreNat DEF Loads
    <3>3. page.mount + 1 \in Nat
      BY <1>0, BoundsAreNat DEF Pages
    <3>4. QED
      BY <1>5, <2>2, <3>1, <3>2, <3>3
  <2>4. QED
    BY <2>1, <2>2, <2>3 DEF Sent
<1>v. ASSUME UNCHANGED vars \/ WriteLost PROVE Goal'
  BY <1>1, <1>v DEF vars, WriteLost, Saved, Sent
<1>q. QED
  BY <1>fail, <1>d, <1>u, <1>e, <1>fetr, <1>feta, <1>fetf, <1>load, <1>expi, <1>togg, <1>askd,
     <1>conf, <1>canc, <1>dela, <1>deld, <1>delr, <1>refr, <1>leav, <1>swit, <1>v
  DEF Next, Network

-----------------------------------------------------------------------------
\* Types hold in every state, and a request that later calls join is always
\* one that is under way (fetchConfig's inFlightConfigRequest).
THEOREM ProviderTypesHold == Spec => []ProviderTypeOK
<1>1. TypeInv /\ [Next]_vars => TypeInv'
  BY TypeStep
<1>2. QED
  BY <1>1, TypeInit, TypeInvIsType, PTL DEF Spec

\* The inductive invariant of page and copy holds.
THEOREM ShowInvHolds == Spec => []ShowInv
<1>1. ShowInv /\ [Next]_vars => ShowInv'
  BY TypeStep, MountedStep, OwnerStep, CopyStep, PageStep DEF ShowInv
<1>2. QED
  BY <1>1, ShowInit, PTL DEF Spec

\* Once nothing is under way, page and copy show what the connected instance
\* has saved, after optimistic edits, rollbacks, joined and outdated requests,
\* unless overlapping requests, or a switch during a write, put them in doubt
\* (useConfigStore, AiProvidersPage).
THEOREM SavedIsShown == Spec => []ShowsWhatIsSaved
<1>1. ShowInv => ShowsWhatIsSaved
  <2> SUFFICES ASSUME ShowInv, Quiet PROVE ShowsWhatIsSaved
    BY DEF ShowsWhatIsSaved
  <2>1. ops = <<>> /\ ~Sent
    BY DEF Quiet, Sent
  <2>2. "store" \notin doubt => store.config \in {None, Saved}
    BY <2>1 DEF ShowInv, CopyInv, Resting
  <2>3. "page" \notin doubt => page.rows \in {None, Saved}
    BY <2>1 DEF ShowInv, PageInv
  <2>4. QED
    BY <2>2, <2>3 DEF ShowsWhatIsSaved, Saved
<1>2. QED
  BY <1>1, ShowInvHolds, PTL
=============================================================================
