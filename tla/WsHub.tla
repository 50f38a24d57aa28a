--------------------------------- MODULE WsHub ---------------------------------
(***************************************************************************)
(* The WebSocket hub: browsers watch delivery requests (DRs), handlers and *)
(* syncs that change a DR publish an event, and every connection has two   *)
(* goroutines and a bounded buffer between them.  An event only names its  *)
(* DR: the browser answers it by loading the DR again.                     *)
(*                                                                         *)
(* drWatchers and watching are only touched under the hub's RWMutex.  The  *)
(* operations that take it for writing are single steps; a publisher holds *)
(* it for reading over several, and its sends interleave with the writers  *)
(* of the connections, with other publishers and with close(send).         *)
(***************************************************************************)
EXTENDS Naturals, Sequences, SequencesExt

CONSTANTS
    Conns,          \* WebSocket connections, each used once
    Drs,            \* delivery requests
    Handlers,       \* goroutines that change rows of DRs
    NoDr,
    Cap,            \* the buffer of a connection holds that many events
    Budgets         \* bound: how often each command, change or failure may happen

Kinds == {"subscribe", "unsubscribe", "change", "sync", "fail"}

ASSUME WsHubAssumption ==
    /\ NoDr \notin Drs
    /\ Cap \in Nat \ {0}
    /\ Budgets \subseteq [Kinds -> Nat]

ReaderPCs == {"off", "read", "unregister", "close", "gone"}
WriterPCs == {"off", "select", "write", "exit", "gone"}
HandlerPCs == {"idle", "sync", "notify", "send"}
NoSnapshot == 0

VARIABLES
    row,            \* the version of the rows of each DR
    drWatchers,     \* the hub: the connections that watch each DR
    watching,       \* each connection: the DRs it watches
    send,           \* its channel: the events in the buffer
    closed,         \* the connections whose channel is closed
    socket,         \* "new", "up" or "down"
    reader,         \* the goroutine of ReadPump
    writer, hand,   \* the goroutine of WritePump, the event it is writing
    pc, dr,         \* the goroutine that changes rows, and of which DR
    before,         \* the snapshot a sync has taken
    todo,           \* the connections a publisher has still to send to
    view,           \* browser: the version it has loaded since it subscribed
    ever,           \* history: the DRs a connection ever watched
    left            \* what is left of the budget

hub == <<drWatchers, watching>>
conn == <<send, closed, socket, reader, writer, hand>>
handlers == <<row, pc, dr, before, todo>>
vars == <<hub, conn, handlers, view, ever, left>>

-------------------------------------------------------------------------------
\* One more command, change or failure of this kind, as long as the bound allows it.
Spend(k) == left[k] > 0 /\ left' = [left EXCEPT ![k] = @ - 1]

Goto(p, l) == pc' = [pc EXCEPT ![p] = l]

\* The goroutine goes to l; when it is done its local variables end with it.
Leave(p, l) ==
    /\ Goto(p, l)
    /\ dr' = [dr EXCEPT ![p] = IF l = "idle" THEN NoDr ELSE @]
    /\ before' = [before EXCEPT ![p] = IF l = "idle" THEN NoSnapshot ELSE @]

\* Nobody holds the hub's mutex for reading.
NoPublisher == \A p \in Handlers : pc[p] # "send"

\* HandleWebSocket: NewConn, and the two goroutines of the connection.
HandleWebSocket(c) ==
    /\ socket[c] = "new"
    /\ socket' = [socket EXCEPT ![c] = "up"]
    /\ reader' = [reader EXCEPT ![c] = "read"]
    /\ writer' = [writer EXCEPT ![c] = "select"]
    /\ UNCHANGED <<hub, send, closed, hand, handlers, view, ever, left>>

\* The browser or the network ends the connection.
SocketFails(c) ==
    /\ socket[c] = "up" /\ Spend("fail")
    /\ socket' = [socket EXCEPT ![c] = "down"]
    /\ UNCHANGED <<hub, send, closed, reader, writer, hand, handlers, view, ever>>

-------------------------------------------------------------------------------
(* ReadPump: the only goroutine that calls Subscribe, Unsubscribe and      *)
(* Disconnect for its connection.                                          *)

Receive(c, command) == reader[c] = "read" /\ socket[c] = "up" /\ Spend(command)

\* Faulty: a second watcher of a DR replaces the first.
SubscribeReplaces(c, d) ==
    /\ Receive(c, "subscribe") /\ NoPublisher
    /\ drWatchers' = [drWatchers EXCEPT ![d] = {c}]
    /\ watching' = [watching EXCEPT ![c] = @ \cup {d}]
    /\ view' = [view EXCEPT ![c][d] = row[d]]
    /\ ever' = [ever EXCEPT ![c] = @ \cup {d}]
    /\ UNCHANGED <<conn, handlers>>

Subscribe(c, d) ==
    /\ Receive(c, "subscribe") /\ NoPublisher
    /\ drWatchers' = [drWatchers EXCEPT ![d] = @ \cup {c}]
    /\ watching' = [watching EXCEPT ![c] = @ \cup {d}]
    /\ view' = [view EXCEPT ![c][d] = row[d]]
    /\ ever' = [ever EXCEPT ![c] = @ \cup {d}]
    /\ UNCHANGED <<conn, handlers>>

Unsubscribe(c, d) ==
    /\ Receive(c, "unsubscribe") /\ NoPublisher
    /\ drWatchers' = [drWatchers EXCEPT ![d] = @ \ {c}]
    /\ watching' = [watching EXCEPT ![c] = @ \ {d}]
    /\ UNCHANGED <<conn, handlers, view, ever>>

\* Faulty: the channel is closed before the connection is unregistered.
ReadFailsClosing(c) ==
    /\ reader[c] = "read" /\ socket[c] = "down"
    /\ reader' = [reader EXCEPT ![c] = "unregister"]
    /\ closed' = closed \cup {c}
    /\ UNCHANGED <<hub, send, socket, writer, hand, handlers, view, ever, left>>

ReadFails(c) ==
    /\ reader[c] = "read" /\ socket[c] = "down"
    /\ reader' = [reader EXCEPT ![c] = "unregister"]
    /\ UNCHANGED <<hub, send, closed, socket, writer, hand, handlers, view, ever, left>>

\* Disconnect, under both mutexes, ...
Unregister(c) ==
    /\ reader[c] = "unregister" /\ NoPublisher
    /\ drWatchers' = [d \in Drs |-> IF d \in watching[c] THEN drWatchers[d] \ {c}
                                                         ELSE drWatchers[d]]
    /\ watching' = [watching EXCEPT ![c] = {}]
    /\ reader' = [reader EXCEPT ![c] = "close"]
    /\ UNCHANGED <<send, closed, socket, writer, hand, handlers, view, ever, left>>

\* ... and, after they are released, close(c.send).
CloseSend(c) ==
    /\ reader[c] = "close"
    /\ closed' = closed \cup {c}
    /\ reader' = [reader EXCEPT ![c] = "gone"]
    /\ UNCHANGED <<hub, send, socket, writer, hand, handlers, view, ever, left>>

-------------------------------------------------------------------------------
(* WritePump. *)

Take(c) ==
    /\ writer[c] = "select" /\ send[c] # << >>
    /\ hand' = [hand EXCEPT ![c] = Head(send[c])]
    /\ send' = [send EXCEPT ![c] = Tail(@)]
    /\ writer' = [writer EXCEPT ![c] = "write"]
    /\ UNCHANGED <<hub, closed, socket, reader, handlers, view, ever, left>>

\* The browser has the event and loads the DR.
WriteSucceeds(c) ==
    /\ writer[c] = "write" /\ socket[c] = "up"
    /\ view' = [view EXCEPT ![c][hand[c]] = row[hand[c]]]
    /\ hand' = [hand EXCEPT ![c] = NoDr]
    /\ writer' = [writer EXCEPT ![c] = "select"]
    /\ UNCHANGED <<hub, send, closed, socket, reader, handlers, ever, left>>

\* Without a socket every call fails; with one it may.
MayFail(c) == IF socket[c] = "down" THEN UNCHANGED left ELSE Spend("fail")

\* The socket is down, or the browser took longer than the 5 seconds.
WriteFails(c) ==
    /\ writer[c] = "write"
    /\ MayFail(c)
    /\ hand' = [hand EXCEPT ![c] = NoDr]
    /\ writer' = [writer EXCEPT ![c] = "exit"]
    /\ UNCHANGED <<hub, send, closed, socket, reader, handlers, view, ever>>

\* The ping fails, or the channel is closed and empty.
Stop(c) ==
    /\ writer[c] = "select"
    /\ IF c \in closed /\ send[c] = << >> THEN UNCHANGED left ELSE MayFail(c)
    /\ writer' = [writer EXCEPT ![c] = "exit"]
    /\ UNCHANGED <<hub, send, closed, socket, reader, hand, handlers, view, ever>>

\* Faulty: the deferred conn.Close is missing.
WritePumpLeaves(c) ==
    /\ writer[c] = "exit"
    /\ writer' = [writer EXCEPT ![c] = "gone"]
    /\ UNCHANGED <<hub, send, closed, socket, reader, hand, handlers, view, ever, left>>

\* The deferred conn.Close.
WritePumpEnds(c) ==
    /\ writer[c] = "exit"
    /\ writer' = [writer EXCEPT ![c] = "gone"]
    /\ socket' = [socket EXCEPT ![c] = "down"]
    /\ UNCHANGED <<hub, send, closed, reader, hand, handlers, view, ever, left>>

-------------------------------------------------------------------------------
(* Handlers change the rows and then call NotifyDrUpdated; a sync calls it *)
(* when the rows differ from what they were when it began.                 *)

Change(p, d) ==
    /\ pc[p] = "idle" /\ Spend("change")
    /\ row' = [row EXCEPT ![d] = @ + 1]
    /\ dr' = [dr EXCEPT ![p] = d]
    /\ Goto(p, "notify")
    /\ UNCHANGED <<hub, conn, before, todo, view, ever>>

SyncBegin(p, d) ==
    /\ pc[p] = "idle" /\ Spend("sync")
    /\ \A q \in Handlers : dr[q] = d => before[q] = NoSnapshot    \* drSyncLocks
    /\ dr' = [dr EXCEPT ![p] = d]
    /\ before' = [before EXCEPT ![p] = row[d]]
    /\ Goto(p, "sync")
    /\ UNCHANGED <<hub, conn, row, todo, view, ever>>

SyncWrite(p) ==
    /\ pc[p] = "sync" /\ Spend("change")
    /\ row' = [row EXCEPT ![dr[p]] = @ + 1]
    /\ UNCHANGED <<hub, conn, pc, dr, before, todo, view, ever>>

SyncEnd(p) ==
    /\ pc[p] = "sync"
    /\ Leave(p, IF before[p] # row[dr[p]] THEN "notify" ELSE "idle")
    /\ UNCHANGED <<hub, conn, row, todo, view, ever, left>>

\* PublishDrEvent takes the mutex for reading and iterates over the watchers.
Publish(p) ==
    /\ pc[p] = "notify"
    /\ todo' = [todo EXCEPT ![p] = drWatchers[dr[p]]]
    /\ Leave(p, IF drWatchers[dr[p]] = {} THEN "idle" ELSE "send")
    /\ UNCHANGED <<hub, conn, row, view, ever, left>>

HasRoom(c) == Len(send[c]) < Cap

Pushed(c, d) == IF HasRoom(c) THEN Append(send[c], d) ELSE send[c]

\* Faulty: a send waits for room in the buffer.
PublishToBlocks(p, c) ==
    /\ pc[p] = "send" /\ c \in todo[p] /\ HasRoom(c)
    /\ send' = [send EXCEPT ![c] = Append(@, dr[p])]
    /\ todo' = [todo EXCEPT ![p] = @ \ {c}]
    /\ Leave(p, IF todo[p] = {c} THEN "idle" ELSE "send")
    /\ UNCHANGED <<hub, closed, socket, reader, writer, hand, row, view, ever, left>>

\* A send to one of them, dropped when its buffer is full.  The mutex is
\* released after the last one.
PublishTo(p, c) ==
    /\ pc[p] = "send" /\ c \in todo[p]
    /\ send' = [send EXCEPT ![c] = Pushed(c, dr[p])]
    /\ todo' = [todo EXCEPT ![p] = @ \ {c}]
    /\ Leave(p, IF todo[p] = {c} THEN "idle" ELSE "send")
    /\ UNCHANGED <<hub, closed, socket, reader, writer, hand, row, view, ever, left>>

-------------------------------------------------------------------------------
ReadPump(c) == ReadFails(c) \/ Unregister(c) \/ CloseSend(c)

WritePump(c) ==
    \/ Take(c)
    \/ WriteSucceeds(c)
    \/ WriteFails(c)
    \/ Stop(c)
    \/ WritePumpEnds(c)

Handler(p) ==
    \/ SyncEnd(p)
    \/ Publish(p)
    \/ \E c \in Conns : PublishTo(p, c)

Next ==
    \/ \E c \in Conns : HandleWebSocket(c) \/ SocketFails(c) \/ ReadPump(c) \/ WritePump(c)
    \/ \E c \in Conns, d \in Drs : Subscribe(c, d) \/ Unsubscribe(c, d)
    \/ \E p \in Handlers, d \in Drs : Change(p, d) \/ SyncBegin(p, d)
    \/ \E p \in Handlers : SyncWrite(p) \/ Handler(p)

Init ==
    /\ row = [d \in Drs |-> 1]
    /\ drWatchers = [d \in Drs |-> {}]
    /\ watching = [c \in Conns |-> {}]
    /\ send = [c \in Conns |-> << >>]
    /\ closed = {}
    /\ socket = [c \in Conns |-> "new"]
    /\ reader = [c \in Conns |-> "off"]
    /\ writer = [c \in Conns |-> "off"]
    /\ hand = [c \in Conns |-> NoDr]
    /\ pc = [p \in Handlers |-> "idle"]
    /\ dr = [p \in Handlers |-> NoDr]
    /\ before = [p \in Handlers |-> NoSnapshot]
    /\ todo = [p \in Handlers |-> {}]
    /\ view = [c \in Conns |-> [d \in Drs |-> 1]]
    /\ ever = [c \in Conns |-> {}]
    /\ left \in Budgets

Spec == Init /\ [][Next]_vars

\* A goroutine that can go on does.  Publishers cannot starve Unregister: a send
\* never blocks, and a writer that waits for the RWMutex keeps new readers out.
FairSpec ==
    /\ Spec
    /\ \A c \in Conns :
        /\ WF_vars(ReadPump(c))
        /\ WF_vars(Take(c))
        /\ WF_vars(WriteSucceeds(c) \/ WriteFails(c))
        /\ WF_vars(WritePumpEnds(c))
        /\ WF_vars((c \in closed \/ socket[c] = "down") /\ send[c] = << >> /\ Stop(c))
    /\ \A p \in Handlers : WF_vars(Handler(p))
-------------------------------------------------------------------------------
(* Properties. *)

\* Every variable has a value of its kind.
TypeOK ==
    /\ row \in [Drs -> Nat \ {0}]
    /\ drWatchers \in [Drs -> SUBSET Conns]
    /\ watching \in [Conns -> SUBSET Drs]
    /\ send \in [Conns -> Seq(Drs)] /\ \A c \in Conns : Len(send[c]) <= Cap
    /\ closed \subseteq Conns
    /\ socket \in [Conns -> {"new", "up", "down"}]
    /\ reader \in [Conns -> ReaderPCs]
    /\ writer \in [Conns -> WriterPCs]
    /\ hand \in [Conns -> Drs \cup {NoDr}]
    /\ pc \in [Handlers -> HandlerPCs]
    /\ dr \in [Handlers -> Drs \cup {NoDr}]
    /\ before \in [Handlers -> Nat]
    /\ todo \in [Handlers -> SUBSET Conns]
    /\ view \in [Conns -> [Drs -> Nat]]
    /\ ever \in [Conns -> SUBSET Drs]
    /\ left \in [Kinds -> Nat]

\* A publisher never sends on a closed channel, which would end the process:
\* the connections it has still to send to are registered, and Disconnect
\* unregisters a connection before it closes the channel.
NoSendOnClosed ==
    \A p \in Handlers : pc[p] = "send" => todo[p] \cap closed = {}

\* The hub keeps no connection that is gone: whoever it has as a watcher knows of
\* it, and a connection whose ReadPump has unregistered is nobody's watcher.
NoStaleWatcher ==
    \A c \in Conns, d \in Drs :
        c \in drWatchers[d] =>
            d \in watching[c] /\ reader[c] \in {"read", "unregister"}

\* Every variable has a value of its kind, and nobody sends to a connection that
\* is gone.
Inv == TypeOK /\ NoSendOnClosed /\ NoStaleWatcher

\* An event of d is on its way to c, or a publisher or a sync will send one.
Coming(c, d) ==
    \/ d \in ToSet(send[c]) \/ hand[c] = d
    \/ \E p \in Handlers :
        /\ dr[p] = d
        /\ \/ pc[p] = "notify"
           \/ pc[p] = "send" /\ c \in todo[p]
           \/ pc[p] = "sync" /\ before[p] # row[d]

Stale(c, d) == d \in watching[c] /\ view[c][d] # row[d]

\* Dropping an event when the buffer is full costs a browser that only ever
\* watched one DR nothing: as long as it shows an old version, an event is still
\* coming.  (Events of another DR could fill the buffer.)
NoUpdateLost ==
    \A c \in Conns, d \in Drs :
        Stale(c, d) /\ ever[c] = {d} /\ writer[c] \in {"select", "write"} => Coming(c, d)

\* Such a browser sees the last version, or stops watching.
WatcherIsTold ==
    \A c \in Conns, d \in Drs :
        Stale(c, d) /\ ever[c] = {d} ~> ~Stale(c, d) \/ ever[c] # {d}

\* When the socket fails or the writer gives up, both goroutines of the connection
\* end and its channel is closed, whatever publishers do meanwhile.
ConnectionsEnd ==
    \A c \in Conns :
        socket[c] = "down" \/ writer[c] = "exit" ~>
            reader[c] = "gone" /\ writer[c] = "gone" /\ c \in closed

===============================================================================
