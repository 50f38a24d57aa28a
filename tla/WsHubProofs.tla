------------------------------ MODULE WsHubProofs ------------------------------
(***************************************************************************)
(* The hub, for every set of connections, delivery requests and handlers   *)
(* and every size of the buffer: nobody sends on a closed channel, the hub *)
(* keeps no connection that is gone, and a dropped event costs a browser   *)
(* that watches one DR nothing.                                            *)
(***************************************************************************)
EXTENDS WsHub, TLAPS

\* A goroutine at work knows its DR.
AtWork ==
    /\ \A p \in Handlers : pc[p] # "idle" => dr[p] \in Drs
    /\ \A c \in Conns : writer[c] = "write" => hand[c] \in Drs

Registered(c) == reader[c] \in {"read", "unregister"}

\* A publisher only has connections before it that are still registered ...
TodoRegistered ==
    \A p \in Handlers : pc[p] = "send" => \A c \in todo[p] : Registered(c)

\* ... and a channel is closed at the very end of ReadPump.
ClosedIsGone ==
    /\ \A c \in closed : reader[c] = "gone"
    /\ \A c \in Conns : socket[c] = "new" => reader[c] = "off"

IInv == TypeOK /\ AtWork /\ TodoRegistered /\ ClosedIsGone /\ NoStaleWatcher

LEMMA InvFollows == ASSUME IInv PROVE Inv
  BY DEF IInv, Inv, NoSendOnClosed, TodoRegistered, ClosedIsGone, Registered

LEMMA SpendType == ASSUME TypeOK, NEW k \in Kinds, Spend(k) PROVE left' \in [Kinds -> Nat]
  BY DEF Spend, TypeOK

LEMMA ConnectStep == ASSUME IInv, NEW c \in Conns, HandleWebSocket(c) \/ SocketFails(c)
                     PROVE  IInv'
<1> USE DEF IInv, TypeOK, hub, conn, handlers
<1>1. ASSUME HandleWebSocket(c) PROVE IInv'
  <2>1. TypeOK'
    BY <1>1 DEF HandleWebSocket, ReaderPCs, WriterPCs
  <2>2. ClosedIsGone'
    BY <1>1 DEF HandleWebSocket, ClosedIsGone
  <2>6. AtWork'
    BY <1>1 DEF HandleWebSocket, AtWork
  <2>3. \A x \in Conns : Registered(x) => Registered(x)'
    BY <1>1 DEF HandleWebSocket, Registered
  <2>4. TodoRegistered'
    BY <1>1, <2>3 DEF HandleWebSocket, TodoRegistered
  <2>5. NoStaleWatcher'
    BY <1>1, <2>3 DEF HandleWebSocket, NoStaleWatcher, Registered
  <2> QED  BY <2>1, <2>2, <2>4, <2>5, <2>6
<1>2. ASSUME SocketFails(c) PROVE IInv'
  <2>0. left' \in [Kinds -> Nat]
    BY <1>2, SpendType DEF SocketFails, Kinds
  <2>1. TypeOK'
    BY <1>2, <2>0 DEF SocketFails
  <2>2. AtWork' /\ TodoRegistered' /\ ClosedIsGone' /\ NoStaleWatcher'
    BY <1>2 DEF SocketFails, AtWork, TodoRegistered, ClosedIsGone, NoStaleWatcher, Registered
  <2> QED  BY <2>1, <2>2
<1> QED  BY <1>1, <1>2

LEMMA CommandStep ==
    ASSUME IInv, NEW c \in Conns, NEW d \in Drs, Subscribe(c, d) \/ Unsubscribe(c, d)
    PROVE  IInv'
<1> USE DEF IInv, TypeOK, conn, handlers, Receive
<1>1. ASSUME Subscribe(c, d) PROVE IInv'
  <2>1. left' \in [Kinds -> Nat]
    BY <1>1, SpendType DEF Subscribe, Kinds
  <2>2. /\ drWatchers' \in [Drs -> SUBSET Conns] /\ watching' \in [Conns -> SUBSET Drs]
        /\ ever' \in [Conns -> SUBSET Drs]
    BY <1>1 DEF Subscribe
  <2>3. view' \in [Conns -> [Drs -> Nat]]
    BY <1>1 DEF Subscribe
  <2>4. TypeOK'
    BY <1>1, <2>1, <2>2, <2>3 DEF Subscribe
  <2>5. AtWork' /\ TodoRegistered' /\ ClosedIsGone'
    BY <1>1 DEF Subscribe, AtWork, TodoRegistered, ClosedIsGone, Registered
  <2>6. NoStaleWatcher'
    BY <1>1 DEF Subscribe, NoStaleWatcher
  <2> QED  BY <2>4, <2>5, <2>6
<1>2. ASSUME Unsubscribe(c, d) PROVE IInv'
  <2>1. left' \in [Kinds -> Nat]
    BY <1>2, SpendType DEF Unsubscribe, Kinds
  <2>2. drWatchers' \in [Drs -> SUBSET Conns] /\ watching' \in [Conns -> SUBSET Drs]
    BY <1>2 DEF Unsubscribe
  <2>3. TypeOK'
    BY <1>2, <2>1, <2>2 DEF Unsubscribe
  <2>4. AtWork' /\ TodoRegistered' /\ ClosedIsGone'
    BY <1>2 DEF Unsubscribe, AtWork, TodoRegistered, ClosedIsGone, Registered
  <2>5. NoStaleWatcher'
    BY <1>2 DEF Unsubscribe, NoStaleWatcher
  <2> QED  BY <2>3, <2>4, <2>5
<1> QED  BY <1>1, <1>2

\* Unregister waits until nobody publishes: whoever is taken off the hub is on no
\* publisher's list.
LEMMA ReadPumpStep == ASSUME IInv, NEW c \in Conns, ReadPump(c) PROVE IInv'
<1> USE DEF IInv, TypeOK, hub, handlers
<1>1. ASSUME ReadFails(c) PROVE IInv'
  <2>1. TypeOK'
    BY <1>1 DEF ReadFails, ReaderPCs
  <2>2. AtWork' /\ TodoRegistered' /\ ClosedIsGone' /\ NoStaleWatcher'
    BY <1>1 DEF ReadFails, AtWork, TodoRegistered, ClosedIsGone, NoStaleWatcher, Registered
  <2> QED  BY <2>1, <2>2
<1>2. ASSUME Unregister(c) PROVE IInv'
  <2>1. drWatchers' \in [Drs -> SUBSET Conns] /\ watching' \in [Conns -> SUBSET Drs]
    BY <1>2 DEF Unregister
  <2>2. TypeOK'
    BY <1>2, <2>1 DEF Unregister, ReaderPCs
  <2>3. AtWork' /\ ClosedIsGone'
    BY <1>2 DEF Unregister, AtWork, ClosedIsGone
  <2>4. TodoRegistered'
    BY <1>2 DEF Unregister, NoPublisher, TodoRegistered
  <2>5. NoStaleWatcher'
    BY <1>2 DEF Unregister, NoStaleWatcher
  <2> QED  BY <2>2, <2>3, <2>4, <2>5
<1>3. ASSUME CloseSend(c) PROVE IInv'
  <2>1. TypeOK'
    BY <1>3 DEF CloseSend, ReaderPCs
  <2>2. AtWork' /\ TodoRegistered' /\ ClosedIsGone' /\ NoStaleWatcher'
    BY <1>3 DEF CloseSend, AtWork, TodoRegistered, ClosedIsGone, NoStaleWatcher, Registered
  <2> QED  BY <2>1, <2>2
<1> QED  BY <1>1, <1>2, <1>3 DEF ReadPump

LEMMA WritePumpStep == ASSUME IInv, NEW c \in Conns, WritePump(c) PROVE IInv'
<1> USE DEF IInv, TypeOK, hub, handlers
<1>0. ASSUME MayFail(c) PROVE left' \in [Kinds -> Nat]
  BY <1>0, SpendType DEF MayFail, Kinds
<1>1. ASSUME Take(c) PROVE IInv'
  <2>1. send[c] \in Seq(Drs) /\ send[c] # << >> /\ Len(send[c]) <= Cap
    BY <1>1 DEF Take
  <2>2. /\ Head(send[c]) \in Drs /\ Tail(send[c]) \in Seq(Drs)
        /\ Len(Tail(send[c])) <= Cap
    BY <2>1, WsHubAssumption
  <2>3. send' \in [Conns -> Seq(Drs)] /\ \A x \in Conns : Len(send'[x]) <= Cap
    BY <1>1, <2>2 DEF Take
  <2>4. TypeOK'
    BY <1>1, <2>2, <2>3 DEF Take, WriterPCs
  <2>5. AtWork' /\ TodoRegistered' /\ ClosedIsGone' /\ NoStaleWatcher'
    BY <1>1, <2>2 DEF Take, AtWork, TodoRegistered, ClosedIsGone, NoStaleWatcher, Registered
  <2> QED  BY <2>4, <2>5
<1>2. ASSUME WriteSucceeds(c) PROVE IInv'
  <2>1. hand[c] \in Drs
    BY <1>2 DEF WriteSucceeds, AtWork
  <2>2. view' \in [Conns -> [Drs -> Nat]]
    BY <1>2, <2>1 DEF WriteSucceeds
  <2>3. TypeOK'
    BY <1>2, <2>2 DEF WriteSucceeds, WriterPCs
  <2>4. AtWork' /\ TodoRegistered' /\ ClosedIsGone' /\ NoStaleWatcher'
    BY <1>2 DEF WriteSucceeds, AtWork, TodoRegistered, ClosedIsGone, NoStaleWatcher, Registered
  <2> QED  BY <2>3, <2>4
<1>3. ASSUME WriteFails(c) PROVE IInv'
  <2>1. TypeOK'
    BY <1>0, <1>3 DEF WriteFails, WriterPCs
  <2>2. AtWork' /\ TodoRegistered' /\ ClosedIsGone' /\ NoStaleWatcher'
    BY <1>3 DEF WriteFails, AtWork, TodoRegistered, ClosedIsGone, NoStaleWatcher, Registered
  <2> QED  BY <2>1, <2>2
<1>4. ASSUME Stop(c) PROVE IInv'
  <2>1. left' \in [Kinds -> Nat]
    BY <1>0, <1>4 DEF Stop
  <2>2. TypeOK'
    BY <1>4, <2>1 DEF Stop, WriterPCs
  <2>3. AtWork' /\ TodoRegistered' /\ ClosedIsGone' /\ NoStaleWatcher'
    BY <1>4 DEF Stop, AtWork, TodoRegistered, ClosedIsGone, NoStaleWatcher, Registered
  <2> QED  BY <2>2, <2>3
<1>5. ASSUME WritePumpEnds(c) PROVE IInv'
  <2>1. TypeOK'
    BY <1>5 DEF WritePumpEnds, WriterPCs
  <2>2. AtWork' /\ TodoRegistered' /\ ClosedIsGone' /\ NoStaleWatcher'
    BY <1>5 DEF WritePumpEnds, AtWork, TodoRegistered, ClosedIsGone, NoStaleWatcher, Registered
  <2> QED  BY <2>1, <2>2
<1> QED  BY <1>1, <1>2, <1>3, <1>4, <1>5 DEF WritePump

\* A publisher takes the watchers off the hub's map, who are all registered.
LEMMA PublisherStep == ASSUME IInv, NEW p \in Handlers, Handler(p) PROVE IInv'
<1> USE DEF IInv, TypeOK, hub, conn, Leave, Goto
<1>1. ASSUME SyncEnd(p) PROVE IInv'
  <2>1. pc' \in [Handlers -> HandlerPCs] /\ dr' \in [Handlers -> Drs \cup {NoDr}]
    BY <1>1 DEF SyncEnd, HandlerPCs
  <2>2. before' \in [Handlers -> Nat]
    BY <1>1 DEF SyncEnd, NoSnapshot
  <2>3. TypeOK'
    BY <1>1, <2>1, <2>2 DEF SyncEnd
  <2>4. AtWork' /\ TodoRegistered' /\ ClosedIsGone' /\ NoStaleWatcher'
    BY <1>1 DEF SyncEnd, AtWork, TodoRegistered, ClosedIsGone, NoStaleWatcher, Registered
  <2> QED  BY <2>3, <2>4
<1>2. ASSUME Publish(p) PROVE IInv'
  <2>0. dr[p] \in Drs /\ drWatchers[dr[p]] \subseteq Conns
    BY <1>2 DEF Publish, AtWork
  <2>1. /\ pc' \in [Handlers -> HandlerPCs] /\ dr' \in [Handlers -> Drs \cup {NoDr}]
        /\ todo' \in [Handlers -> SUBSET Conns]
    BY <1>2, <2>0 DEF Publish, HandlerPCs
  <2>2. before' \in [Handlers -> Nat]
    BY <1>2 DEF Publish, NoSnapshot
  <2>3. TypeOK'
    BY <1>2, <2>1, <2>2 DEF Publish
  <2>4. AtWork' /\ ClosedIsGone' /\ NoStaleWatcher'
    BY <1>2 DEF Publish, AtWork, ClosedIsGone, NoStaleWatcher
  <2>5. TodoRegistered'
    BY <1>2, <2>0 DEF Publish, TodoRegistered, NoStaleWatcher, Registered
  <2> QED  BY <2>3, <2>4, <2>5
<1>3. ASSUME NEW c \in Conns, PublishTo(p, c) PROVE IInv'
  <2>0. dr[p] \in Drs
    BY <1>3 DEF PublishTo, AtWork
  <2>1. Pushed(c, dr[p]) \in Seq(Drs) /\ Len(Pushed(c, dr[p])) <= Cap
    BY <2>0, WsHubAssumption DEF Pushed, HasRoom
  <2>2. send' \in [Conns -> Seq(Drs)] /\ \A x \in Conns : Len(send'[x]) <= Cap
    BY <1>3, <2>1 DEF PublishTo
  <2>3. /\ pc' \in [Handlers -> HandlerPCs] /\ dr' \in [Handlers -> Drs \cup {NoDr}]
        /\ todo' \in [Handlers -> SUBSET Conns]
    BY <1>3 DEF PublishTo, HandlerPCs
  <2>4. before' \in [Handlers -> Nat]
    BY <1>3 DEF PublishTo, NoSnapshot
  <2>5. TypeOK'
    BY <1>3, <2>2, <2>3, <2>4 DEF PublishTo
  <2>6. AtWork' /\ TodoRegistered' /\ ClosedIsGone' /\ NoStaleWatcher'
    BY <1>3 DEF PublishTo, AtWork, TodoRegistered, ClosedIsGone, NoStaleWatcher, Registered
  <2> QED  BY <2>5, <2>6
<1> QED  BY <1>1, <1>2, <1>3 DEF Handler

LEMMA RowsStep ==
    ASSUME IInv, NEW p \in Handlers,
           SyncWrite(p) \/ \E d \in Drs : Change(p, d) \/ SyncBegin(p, d)
    PROVE  IInv'
<1> USE DEF IInv, TypeOK, hub, conn, Goto
<1>1. ASSUME NEW d \in Drs, Change(p, d) PROVE IInv'
  <2>1. left' \in [Kinds -> Nat]
    BY <1>1, SpendType DEF Change, Kinds
  <2>2. row' \in [Drs -> Nat \ {0}]
    BY <1>1 DEF Change
  <2>3. TypeOK'
    BY <1>1, <2>1, <2>2 DEF Change, HandlerPCs
  <2>4. AtWork' /\ TodoRegistered' /\ ClosedIsGone' /\ NoStaleWatcher'
    BY <1>1 DEF Change, AtWork, TodoRegistered, ClosedIsGone, NoStaleWatcher, Registered
  <2> QED  BY <2>3, <2>4
<1>2. ASSUME NEW d \in Drs, SyncBegin(p, d) PROVE IInv'
  <2>1. left' \in [Kinds -> Nat]
    BY <1>2, SpendType DEF SyncBegin, Kinds
  <2>2. /\ pc' \in [Handlers -> HandlerPCs] /\ dr' \in [Handlers -> Drs \cup {NoDr}]
        /\ before' \in [Handlers -> Nat]
    BY <1>2 DEF SyncBegin, HandlerPCs
  <2>4. TypeOK'
    BY <1>2, <2>1, <2>2 DEF SyncBegin
  <2>3. ClosedIsGone' /\ NoStaleWatcher'
    BY <1>2 DEF SyncBegin, ClosedIsGone, NoStaleWatcher
  <2>5. AtWork'
    BY <1>2 DEF SyncBegin, AtWork
  <2>6. TodoRegistered'
    BY <1>2 DEF SyncBegin, TodoRegistered, Registered
  <2> QED  BY <2>3, <2>4, <2>5, <2>6
<1>3. ASSUME SyncWrite(p) PROVE IInv'
  <2>1. left' \in [Kinds -> Nat]
    BY <1>3, SpendType DEF SyncWrite, Kinds
  <2>2. row' \in [Drs -> Nat \ {0}]
    <3>1. row[dr[p]] \in Nat \ {0} /\ row[dr[p]] + 1 \in Nat \ {0}
      BY <1>3 DEF SyncWrite, AtWork
    <3> QED  BY <1>3, <3>1 DEF SyncWrite
  <2>3. TypeOK'
    BY <1>3, <2>1, <2>2 DEF SyncWrite
  <2>4. ClosedIsGone'
    BY <1>3 DEF SyncWrite, ClosedIsGone
  <2>7. NoStaleWatcher'
    BY <1>3 DEF SyncWrite, NoStaleWatcher
  <2>5. AtWork'
    BY <1>3 DEF SyncWrite, AtWork
  <2>6. TodoRegistered'
    BY <1>3 DEF SyncWrite, TodoRegistered, Registered
  <2> QED  BY <2>3, <2>4, <2>5, <2>6, <2>7
<1> QED  BY <1>1, <1>2, <1>3

LEMMA StutterStep == ASSUME IInv, UNCHANGED vars PROVE IInv'
  BY DEF IInv, vars, hub, conn, handlers, TypeOK, AtWork, TodoRegistered, ClosedIsGone,
         NoStaleWatcher, Registered

LEMMA InitInv == ASSUME Init PROVE IInv
<1>1. send \in [Conns -> Seq(Drs)] /\ \A c \in Conns : Len(send[c]) <= Cap
  BY WsHubAssumption DEF Init
<1>2. TypeOK
  BY <1>1, WsHubAssumption DEF Init, TypeOK, ReaderPCs, WriterPCs, HandlerPCs, NoSnapshot
<1> QED  BY <1>2 DEF Init, IInv, AtWork, TodoRegistered, ClosedIsGone, NoStaleWatcher

LEMMA NextInv == ASSUME IInv, [Next]_vars PROVE IInv'
  BY ConnectStep, CommandStep, ReadPumpStep, WritePumpStep, PublisherStep, RowsStep,
     StutterStep DEF Next

\* Whatever the interleaving of connections and publishers: every publisher's
\* list holds registered connections only, so that it never sends on a closed
\* channel, and no connection that is gone is anybody's watcher (Disconnect,
\* PublishDrEvent).
THEOREM HubIsSafe == Spec => []Inv
  BY InitInv, NextInv, InvFollows, PTL DEF Spec

-------------------------------------------------------------------------------
(* No update is lost *)

\* A browser and the hub agree on what the browser watches.
WatchersAgree ==
    \A c \in Conns, d \in Drs :
        d \in watching[c] => d \in ever[c] /\ c \in drWatchers[d]

\* Events only go to connections that watched the DR at some time ...
OnlyWatched ==
    /\ \A c \in Conns : ToSet(send[c]) \subseteq ever[c]
    /\ \A c \in Conns : hand[c] # NoDr => hand[c] \in ever[c] /\ writer[c] = "write"
    /\ \A p \in Handlers : pc[p] = "send" => \A c \in todo[p] : dr[p] \in ever[c]
    /\ \A c \in Conns : socket[c] = "new" => ever[c] = {}

\* ... and the snapshot of a sync is never ahead of the rows.
SyncsLookBack ==
    \A p \in Handlers : pc[p] = "sync" => before[p] <= row[dr[p]]

Told == WatchersAgree /\ OnlyWatched /\ SyncsLookBack
ToldInv == IInv /\ Told /\ NoUpdateLost

\* The elements of a buffer with one event more, or one less.
LEMMA Appended ==
    ASSUME NEW S, NEW s \in Seq(S), NEW e \in S
    PROVE  ToSet(Append(s, e)) = ToSet(s) \cup {e}
<1>1. /\ DOMAIN s = 1 .. Len(s) /\ Len(s) \in Nat
      /\ DOMAIN Append(s, e) = 1 .. Len(s) + 1
      /\ \A i \in 1 .. Len(s) : Append(s, e)[i] = s[i]
      /\ Append(s, e)[Len(s) + 1] = e
  OBVIOUS
<1>2. 1 .. Len(s) + 1 = 1 .. Len(s) \cup {Len(s) + 1}
  BY <1>1
<1> QED  BY <1>1, <1>2, Zenon DEF ToSet

LEMMA TailOfIt ==
    ASSUME NEW S, NEW s \in Seq(S), s # << >>
    PROVE  /\ ToSet(Tail(s)) \subseteq ToSet(s)
           /\ Head(s) \in ToSet(s)
<1>1. /\ DOMAIN s = 1 .. Len(s) /\ Len(s) \in Nat /\ Len(s) >= 1
      /\ Tail(s) \in Seq(S) /\ Len(Tail(s)) = Len(s) - 1
      /\ DOMAIN Tail(s) = 1 .. Len(s) - 1
      /\ Head(s) = s[1]
  OBVIOUS
<1>2. \A i \in 1 .. Len(s) - 1 : Tail(s)[i] = s[i + 1]
  OBVIOUS
<1>3. 1 \in DOMAIN s
  BY <1>1
<1>4. Head(s) \in ToSet(s)
  BY <1>1, <1>3 DEF ToSet
<1>5. ASSUME NEW x \in ToSet(Tail(s)) PROVE x \in ToSet(s)
  <2>1. PICK i \in 1 .. Len(s) - 1 : x = Tail(s)[i]
    BY <1>1 DEF ToSet
  <2>2. i + 1 \in DOMAIN s /\ x = s[i + 1]
    BY <1>1, <1>2, <2>1
  <2> QED  BY <2>2 DEF ToSet
<1> QED  BY <1>4, <1>5

LEMMA FullOfIt ==
    ASSUME NEW S, NEW s \in Seq(S), NEW d, ToSet(s) \subseteq {d}, s # << >>
    PROVE  d \in ToSet(s)
  BY TailOfIt

\* What concerns neither the channels nor the publishers leaves the events that
\* are on their way where they are.
LEMMA StillComing ==
    ASSUME NEW c \in Conns, NEW d \in Drs, Coming(c, d),
           ToSet(send[c]) \subseteq ToSet(send'[c]), hand'[c] = hand[c],
           row' = row, pc' = pc, dr' = dr, before' = before, todo' = todo
    PROVE  Coming(c, d)'
  BY DEF Coming

LEMMA ToldConnect ==
    ASSUME ToldInv, NEW c \in Conns, HandleWebSocket(c) \/ SocketFails(c)
    PROVE  Told' /\ NoUpdateLost'
<1> USE DEF ToldInv, IInv, TypeOK, hub, conn, handlers
<1>1. ASSUME HandleWebSocket(c) PROVE Told' /\ NoUpdateLost'
  <2>1. Told'
    BY <1>1 DEF HandleWebSocket, Told, WatchersAgree, OnlyWatched, SyncsLookBack
  <2>2. ever[c] = {}
    BY <1>1 DEF HandleWebSocket, Told, OnlyWatched
  <2>3. ASSUME NEW x \in Conns, NEW e \in Drs, Stale(x, e)', ever'[x] = {e},
               writer'[x] \in {"select", "write"}
        PROVE  Coming(x, e)'
    <3>1. Stale(x, e) /\ ever[x] = {e} /\ writer[x] \in {"select", "write"}
      BY <1>1, <2>2, <2>3 DEF HandleWebSocket, Stale
    <3>2. Coming(x, e)
      BY <3>1 DEF NoUpdateLost
    <3> QED  BY <1>1, <3>2, StillComing DEF HandleWebSocket
  <2> QED  BY <2>1, <2>3 DEF NoUpdateLost
<1>2. ASSUME SocketFails(c) PROVE Told' /\ NoUpdateLost'
  <2>1. Told'
    BY <1>2 DEF SocketFails, Told, WatchersAgree, OnlyWatched, SyncsLookBack
  <2>2. ASSUME NEW x \in Conns, NEW e \in Drs, Stale(x, e)', ever'[x] = {e},
               writer'[x] \in {"select", "write"}
        PROVE  Coming(x, e)'
    <3>1. Stale(x, e) /\ ever[x] = {e} /\ writer[x] \in {"select", "write"}
      BY <1>2, <2>2 DEF SocketFails, Stale
    <3>2. Coming(x, e)
      BY <3>1 DEF NoUpdateLost
    <3> QED  BY <1>2, <3>2, StillComing DEF SocketFails
  <2> QED  BY <2>1, <2>2 DEF NoUpdateLost
<1> QED  BY <1>1, <1>2

LEMMA ToldCommand ==
    ASSUME ToldInv, NEW c \in Conns, NEW d \in Drs, Subscribe(c, d) \/ Unsubscribe(c, d)
    PROVE  Told' /\ NoUpdateLost'
<1> USE DEF ToldInv, IInv, TypeOK, conn, handlers, Receive
<1>1. ASSUME Subscribe(c, d) PROVE Told' /\ NoUpdateLost'
  <2>1. \A x \in Conns : ever[x] \subseteq ever'[x]
    BY <1>1 DEF Subscribe
  <2>2. WatchersAgree' /\ SyncsLookBack'
    BY <1>1 DEF Subscribe, Told, WatchersAgree, SyncsLookBack
  <2>3. OnlyWatched'
    BY <1>1, <2>1 DEF Subscribe, Told, OnlyWatched
  <2>4. ASSUME NEW x \in Conns, NEW e \in Drs, Stale(x, e)', ever'[x] = {e},
               writer'[x] \in {"select", "write"}
        PROVE  Coming(x, e)'
    <3>1. CASE x = c
      <4>1. d \in ever'[c]
        BY <1>1 DEF Subscribe
      <4>2. e = d
        BY <2>4, <3>1, <4>1
      <4>3. view'[c][d] = row'[d]
        BY <1>1 DEF Subscribe
      <4> QED  BY <2>4, <3>1, <4>2, <4>3 DEF Stale
    <3>2. CASE x # c
      <4>1. Stale(x, e) /\ ever[x] = {e} /\ writer[x] \in {"select", "write"}
        BY <1>1, <2>4, <3>2 DEF Subscribe, Stale
      <4>2. Coming(x, e)
        BY <4>1 DEF NoUpdateLost
      <4> QED  BY <1>1, <4>2, StillComing DEF Subscribe
    <3> QED  BY <3>1, <3>2
  <2> QED  BY <2>2, <2>3, <2>4 DEF Told, NoUpdateLost
<1>2. ASSUME Unsubscribe(c, d) PROVE Told' /\ NoUpdateLost'
  <2>1. WatchersAgree' /\ SyncsLookBack' /\ OnlyWatched'
    BY <1>2 DEF Unsubscribe, Told, WatchersAgree, SyncsLookBack, OnlyWatched
  <2>2. ASSUME NEW x \in Conns, NEW e \in Drs, Stale(x, e)', ever'[x] = {e},
               writer'[x] \in {"select", "write"}
        PROVE  Coming(x, e)'
    <3>1. Stale(x, e) /\ ever[x] = {e} /\ writer[x] \in {"select", "write"}
      BY <1>2, <2>2 DEF Unsubscribe, Stale
    <3>2. Coming(x, e)
      BY <3>1 DEF NoUpdateLost
    <3> QED  BY <1>2, <3>2, StillComing DEF Unsubscribe
  <2> QED  BY <2>1, <2>2 DEF Told, NoUpdateLost
<1> QED  BY <1>1, <1>2

LEMMA ToldReadPump == ASSUME ToldInv, NEW c \in Conns, ReadPump(c) PROVE Told' /\ NoUpdateLost'
<1> USE DEF ToldInv, IInv, TypeOK, hub, handlers
<1>1. Told'
  <2>1. CASE ReadFails(c) \/ CloseSend(c)
    BY <2>1 DEF ReadFails, CloseSend, Told, WatchersAgree, OnlyWatched, SyncsLookBack
  <2>2. CASE Unregister(c)
    <3>1. WatchersAgree'
      BY <2>2 DEF Unregister, Told, WatchersAgree
    <3>2. OnlyWatched' /\ SyncsLookBack'
      BY <2>2 DEF Unregister, Told, OnlyWatched, SyncsLookBack
    <3> QED  BY <3>1, <3>2 DEF Told
  <2> QED  BY <2>1, <2>2 DEF ReadPump
<1>2. ASSUME NEW x \in Conns, NEW e \in Drs, Stale(x, e)', ever'[x] = {e},
             writer'[x] \in {"select", "write"}
      PROVE  Coming(x, e)'
  <2>1. Stale(x, e) /\ ever[x] = {e} /\ writer[x] \in {"select", "write"}
    BY <1>2 DEF ReadPump, ReadFails, Unregister, CloseSend, Stale
  <2>2. Coming(x, e)
    BY <2>1 DEF NoUpdateLost
  <2> QED  BY <2>2, StillComing DEF ReadPump, ReadFails, Unregister, CloseSend
<1> QED  BY <1>1, <1>2 DEF NoUpdateLost

\* The writer takes an event of the DR, as the buffer has no other; a browser that
\* has the event loads the DR.
LEMMA ToldWritePump == ASSUME ToldInv, NEW c \in Conns, WritePump(c) PROVE Told' /\ NoUpdateLost'
<1> USE DEF ToldInv, IInv, TypeOK, hub, handlers
<1>1. ASSUME Take(c) PROVE Told' /\ NoUpdateLost'
  <2>1. /\ send[c] \in Seq(Drs) /\ send[c] # << >>
        /\ ToSet(Tail(send[c])) \subseteq ToSet(send[c])
        /\ Head(send[c]) \in ToSet(send[c])
    BY <1>1, TailOfIt DEF Take
  <2>2. ToSet(send[c]) \subseteq ever[c]
    BY DEF Told, OnlyWatched
  <2>3. WatchersAgree' /\ SyncsLookBack'
    BY <1>1 DEF Take, Told, WatchersAgree, SyncsLookBack
  <2>4. OnlyWatched'
    BY <1>1, <2>1, <2>2 DEF Take, Told, OnlyWatched
  <2>5. ASSUME NEW x \in Conns, NEW e \in Drs, Stale(x, e)', ever'[x] = {e},
               writer'[x] \in {"select", "write"}
        PROVE  Coming(x, e)'
    <3>1. CASE x = c
      <4>1. Head(send[c]) = e
        BY <1>1, <2>1, <2>2, <2>5, <3>1 DEF Take
      <4>2. hand'[c] = e
        BY <1>1, <4>1 DEF Take
      <4> QED  BY <3>1, <4>2 DEF Coming
    <3>2. CASE x # c
      <4>1. Stale(x, e) /\ ever[x] = {e} /\ writer[x] \in {"select", "write"}
        BY <1>1, <2>5, <3>2 DEF Take, Stale
      <4>2. Coming(x, e)
        BY <4>1 DEF NoUpdateLost
      <4> QED  BY <1>1, <3>2, <4>2, StillComing DEF Take
    <3> QED  BY <3>1, <3>2
  <2> QED  BY <2>3, <2>4, <2>5 DEF Told, NoUpdateLost
<1>2. ASSUME WriteSucceeds(c) PROVE Told' /\ NoUpdateLost'
  <2>0. hand[c] \in Drs
    BY <1>2 DEF WriteSucceeds, AtWork
  <2>1. WatchersAgree' /\ SyncsLookBack'
    BY <1>2 DEF WriteSucceeds, Told, WatchersAgree, SyncsLookBack
  <2>2. OnlyWatched'
    BY <1>2 DEF WriteSucceeds, Told, OnlyWatched
  <2>3. ASSUME NEW x \in Conns, NEW e \in Drs, Stale(x, e)', ever'[x] = {e},
               writer'[x] \in {"select", "write"}
        PROVE  Coming(x, e)'
    <3>1. CASE x = c
      <4>1. hand[c] = e
        BY <1>2, <2>0, <2>3, <3>1, WsHubAssumption DEF WriteSucceeds, Told, OnlyWatched
      <4>2. view'[c][e] = row'[e]
        BY <1>2, <4>1 DEF WriteSucceeds
      <4> QED  BY <2>3, <3>1, <4>2 DEF Stale
    <3>2. CASE x # c
      <4>1. Stale(x, e) /\ ever[x] = {e} /\ writer[x] \in {"select", "write"}
        BY <1>2, <2>3, <3>2 DEF WriteSucceeds, Stale
      <4>2. Coming(x, e)
        BY <4>1 DEF NoUpdateLost
      <4> QED  BY <1>2, <3>2, <4>2, StillComing DEF WriteSucceeds
    <3> QED  BY <3>1, <3>2
  <2> QED  BY <2>1, <2>2, <2>3 DEF Told, NoUpdateLost
<1>3. ASSUME WriteFails(c) \/ Stop(c) \/ WritePumpEnds(c) PROVE Told' /\ NoUpdateLost'
  <2>1. WatchersAgree' /\ SyncsLookBack'
    BY <1>3 DEF WriteFails, Stop, WritePumpEnds, Told, WatchersAgree, SyncsLookBack
  <2>2. OnlyWatched'
    <3>1. CASE WriteFails(c)
      BY <3>1 DEF WriteFails, Told, OnlyWatched
    <3>2. CASE Stop(c)
      BY <3>2 DEF Stop, Told, OnlyWatched
    <3>3. CASE WritePumpEnds(c)
      BY <3>3 DEF WritePumpEnds, Told, OnlyWatched
    <3> QED  BY <1>3, <3>1, <3>2, <3>3
  <2>3. ASSUME NEW x \in Conns, NEW e \in Drs, Stale(x, e)', ever'[x] = {e},
               writer'[x] \in {"select", "write"}
        PROVE  Coming(x, e)'
    <3>1. x # c
      BY <1>3, <2>3 DEF WriteFails, Stop, WritePumpEnds
    <3>2. Stale(x, e) /\ ever[x] = {e} /\ writer[x] \in {"select", "write"}
      BY <1>3, <2>3, <3>1 DEF WriteFails, Stop, WritePumpEnds, Stale
    <3>3. Coming(x, e)
      BY <3>2 DEF NoUpdateLost
    <3> QED  BY <1>3, <3>1, <3>3, StillComing DEF WriteFails, Stop, WritePumpEnds
  <2> QED  BY <2>1, <2>2, <2>3 DEF Told, NoUpdateLost
<1> QED  BY <1>1, <1>2, <1>3 DEF WritePump

\* A goroutine other than p that will publish still will.
LEMMA OthersWillPublish ==
    ASSUME NEW p \in Handlers, NEW c \in Conns, NEW d \in Drs, Coming(c, d),
           ToSet(send[c]) \subseteq ToSet(send'[c]), hand' = hand, row' = row,
           \A q \in Handlers \ {p} :
               pc'[q] = pc[q] /\ dr'[q] = dr[q] /\ before'[q] = before[q] /\ todo'[q] = todo[q]
    PROVE  \/ Coming(c, d)'
           \/ /\ dr[p] = d
              /\ \/ pc[p] = "notify"
                 \/ pc[p] = "send" /\ c \in todo[p]
                 \/ pc[p] = "sync" /\ before[p] # row[d]
  BY DEF Coming

\* A publisher that may have to tell the browser puts it on its list, and one that
\* sends to it leaves an event in its buffer, its own or the one that fills it.
LEMMA ToldPublisher == ASSUME ToldInv, NEW p \in Handlers, Handler(p) PROVE Told' /\ NoUpdateLost'
<1> USE DEF ToldInv, IInv, TypeOK, hub, conn, Leave, Goto
<1>1. ASSUME SyncEnd(p) PROVE Told' /\ NoUpdateLost'
  <2>0. /\ pc'[p] = IF before[p] # row[dr[p]] THEN "notify" ELSE "idle"
        /\ \A q \in Handlers \ {p} :
              pc'[q] = pc[q] /\ dr'[q] = dr[q] /\ before'[q] = before[q] /\ todo'[q] = todo[q]
        /\ before[p] # row[dr[p]] => dr'[p] = dr[p]
    BY <1>1 DEF SyncEnd
  <2>1. Told'
    BY <1>1, <2>0 DEF SyncEnd, Told, WatchersAgree, OnlyWatched, SyncsLookBack
  <2>2. ASSUME NEW x \in Conns, NEW e \in Drs, Stale(x, e)', ever'[x] = {e},
               writer'[x] \in {"select", "write"}
        PROVE  Coming(x, e)'
    <3>1. Stale(x, e) /\ ever[x] = {e} /\ writer[x] \in {"select", "write"}
      BY <1>1, <2>2 DEF SyncEnd, Stale
    <3>2. Coming(x, e)
      BY <3>1 DEF NoUpdateLost
    <3>3. Coming(x, e)' \/ (dr[p] = e /\ before[p] # row[e])
      <4>1. send' = send /\ hand' = hand /\ row' = row /\ pc[p] = "sync"
        BY <1>1 DEF SyncEnd
      <4>2. ToSet(send[x]) \subseteq ToSet(send'[x])
        BY <4>1
      <4> HIDE DEF ToldInv, IInv, TypeOK, Leave, Goto
      <4> QED  BY <2>0, <3>2, <4>1, <4>2, OthersWillPublish
    <3>4. ASSUME dr[p] = e /\ before[p] # row[e] PROVE Coming(x, e)'
      <4>1. pc'[p] = "notify" /\ dr'[p] = e
        BY <2>0, <3>4
      <4> QED  BY <4>1 DEF Coming
    <3> QED  BY <3>3, <3>4
  <2> QED  BY <2>1, <2>2 DEF NoUpdateLost
<1>2. ASSUME Publish(p) PROVE Told' /\ NoUpdateLost'
  <2>0. dr[p] \in Drs /\ drWatchers[dr[p]] \subseteq Conns
    BY <1>2 DEF Publish, AtWork
  <2>1. /\ \A q \in Handlers \ {p} :
              pc'[q] = pc[q] /\ dr'[q] = dr[q] /\ before'[q] = before[q] /\ todo'[q] = todo[q]
        /\ todo'[p] = drWatchers[dr[p]]
        /\ drWatchers[dr[p]] # {} => pc'[p] = "send" /\ dr'[p] = dr[p]
        /\ pc'[p] # "sync"
    BY <1>2 DEF Publish
  <2>2. \A x \in drWatchers[dr[p]] : dr[p] \in ever[x]
    BY <2>0 DEF NoStaleWatcher, Told, WatchersAgree
  <2>3. WatchersAgree' /\ SyncsLookBack'
    BY <1>2, <2>1 DEF Publish, Told, WatchersAgree, SyncsLookBack
  <2>4. OnlyWatched'
    BY <1>2, <2>1, <2>2 DEF Publish, Told, OnlyWatched
  <2>5. ASSUME NEW x \in Conns, NEW e \in Drs, Stale(x, e)', ever'[x] = {e},
               writer'[x] \in {"select", "write"}
        PROVE  Coming(x, e)'
    <3>1. Stale(x, e) /\ ever[x] = {e} /\ writer[x] \in {"select", "write"}
      BY <1>2, <2>5 DEF Publish, Stale
    <3>2. Coming(x, e)
      BY <3>1 DEF NoUpdateLost
    <3>3. Coming(x, e)' \/ dr[p] = e
      BY <1>2, <2>1, <3>2, OthersWillPublish DEF Publish
    <3>4. ASSUME dr[p] = e PROVE Coming(x, e)'
      <4>1. x \in drWatchers[dr[p]]
        BY <3>1, <3>4 DEF Stale, Told, WatchersAgree
      <4>2. pc'[p] = "send" /\ dr'[p] = e /\ x \in todo'[p]
        BY <2>1, <3>4, <4>1
      <4> QED  BY <4>2 DEF Coming
    <3> QED  BY <3>3, <3>4
  <2> QED  BY <2>3, <2>4, <2>5 DEF Told, NoUpdateLost
<1>3. ASSUME NEW c \in Conns, PublishTo(p, c) PROVE Told' /\ NoUpdateLost'
  <2>0. dr[p] \in Drs /\ dr[p] \in ever[c] /\ send[c] \in Seq(Drs)
    BY <1>3 DEF PublishTo, AtWork, Told, OnlyWatched
  <2>1. /\ \A q \in Handlers \ {p} :
              pc'[q] = pc[q] /\ dr'[q] = dr[q] /\ before'[q] = before[q] /\ todo'[q] = todo[q]
        /\ todo'[p] = todo[p] \ {c}
        /\ todo[p] # {c} => pc'[p] = "send" /\ dr'[p] = dr[p]
        /\ todo[p] = {c} => pc'[p] = "idle"
    BY <1>3 DEF PublishTo
  <2>2. /\ ToSet(send[c]) \subseteq ToSet(send'[c])
        /\ ToSet(send'[c]) \subseteq ToSet(send[c]) \cup {dr[p]}
        /\ \A x \in Conns \ {c} : send'[x] = send[x]
        /\ HasRoom(c) => dr[p] \in ToSet(send'[c])
        /\ ~HasRoom(c) => send'[c] = send[c]
    BY <1>3, <2>0, Appended DEF PublishTo, Pushed
  <2>3. WatchersAgree' /\ SyncsLookBack'
    BY <1>3, <2>1 DEF PublishTo, Told, WatchersAgree, SyncsLookBack
  <2>4. OnlyWatched'
    <3>1. \A x \in Conns : ToSet(send'[x]) \subseteq ever'[x]
      BY <1>3, <2>0, <2>2 DEF PublishTo, Told, OnlyWatched
    <3>2. ASSUME NEW q \in Handlers, pc'[q] = "send", NEW x \in todo'[q] PROVE dr'[q] \in ever'[x]
      <4>1. pc[q] = "send" /\ dr'[q] = dr[q] /\ x \in todo[q]
        BY <1>3, <2>1, <3>2 DEF PublishTo
      <4> QED  BY <1>3, <4>1 DEF PublishTo, Told, OnlyWatched
    <3> QED  BY <1>3, <3>1, <3>2 DEF PublishTo, Told, OnlyWatched
  <2>5. ASSUME NEW x \in Conns, NEW e \in Drs, Stale(x, e)', ever'[x] = {e},
               writer'[x] \in {"select", "write"}
        PROVE  Coming(x, e)'
    <3>1. Stale(x, e) /\ ever[x] = {e} /\ writer[x] \in {"select", "write"}
      BY <1>3, <2>5 DEF PublishTo, Stale
    <3>2. Coming(x, e)
      BY <3>1 DEF NoUpdateLost
    <3>3. Coming(x, e)' \/ (dr[p] = e /\ x \in todo[p])
      <4>1. hand' = hand /\ row' = row /\ pc[p] = "send"
        BY <1>3 DEF PublishTo
      <4>2. ToSet(send[x]) \subseteq ToSet(send'[x])
        BY <2>2
      <4> HIDE DEF ToldInv, IInv, TypeOK, Leave, Goto
      <4> QED  BY <2>1, <3>2, <4>1, <4>2, OthersWillPublish
    <3>4. ASSUME dr[p] = e, x \in todo[p], x # c PROVE Coming(x, e)'
      <4>1. pc'[p] = "send" /\ dr'[p] = e /\ x \in todo'[p]
        BY <2>1, <3>4
      <4> QED  BY <4>1 DEF Coming
    <3>5. ASSUME dr[p] = e, x = c PROVE Coming(x, e)'
      <4>1. e \in ToSet(send'[c])
        <5>1. CASE HasRoom(c)
          BY <2>2, <3>5, <5>1
        <5>2. CASE ~HasRoom(c)
          <6>1. send[c] # << >>
            BY <2>0, <5>2, WsHubAssumption DEF HasRoom
          <6>2. ToSet(send[c]) \subseteq {e}
            BY <3>1, <3>5 DEF Told, OnlyWatched
          <6>3. e \in ToSet(send[c])
            BY <2>0, <6>1, <6>2, FullOfIt
          <6> QED  BY <2>2, <5>2, <6>3
        <5> QED  BY <5>1, <5>2
      <4> QED  BY <3>5, <4>1 DEF Coming
    <3> QED  BY <3>3, <3>4, <3>5
  <2> QED  BY <2>3, <2>4, <2>5 DEF Told, NoUpdateLost
<1> QED  BY <1>1, <1>2, <1>3 DEF Handler

\* Whoever changes a DR tells of it: a handler at once, a sync when it ends and the
\* rows are ahead of its snapshot.
LEMMA ToldRows ==
    ASSUME ToldInv, NEW p \in Handlers,
           SyncWrite(p) \/ \E d \in Drs : Change(p, d) \/ SyncBegin(p, d)
    PROVE  Told' /\ NoUpdateLost'
<1> USE DEF ToldInv, IInv, TypeOK, hub, conn, Goto
<1>1. ASSUME NEW d \in Drs, Change(p, d) PROVE Told' /\ NoUpdateLost'
  <2>0. /\ \A q \in Handlers \ {p} : pc'[q] = pc[q] /\ dr'[q] = dr[q]
        /\ pc'[p] = "notify" /\ dr'[p] = d /\ before' = before /\ todo' = todo
        /\ row'[d] = row[d] + 1 /\ \A e \in Drs \ {d} : row'[e] = row[e]
        /\ row[d] \in Nat
        /\ pc[p] = "idle"
    BY <1>1 DEF Change
  <2>1. WatchersAgree'
    BY <1>1 DEF Change, Told, WatchersAgree
  <2>2. SyncsLookBack'
    <3>1. ASSUME NEW q \in Handlers, pc'[q] = "sync" PROVE before'[q] <= row'[dr'[q]]
      <4>1. q # p /\ pc[q] = "sync" /\ dr[q] \in Drs
        BY <2>0, <3>1 DEF AtWork
      <4>2. before[q] <= row[dr[q]] /\ row[dr[q]] \in Nat /\ before[q] \in Nat
        BY <4>1 DEF Told, SyncsLookBack
      <4>3. row'[dr[q]] \in {row[dr[q]], row[dr[q]] + 1}
        BY <2>0, <4>1
      <4> QED  BY <2>0, <4>1, <4>2, <4>3
    <3> QED  BY <3>1 DEF SyncsLookBack
  <2>3. OnlyWatched'
    BY <1>1, <2>0 DEF Change, Told, OnlyWatched
  <2>4. ASSUME NEW x \in Conns, NEW e \in Drs, Stale(x, e)', ever'[x] = {e},
               writer'[x] \in {"select", "write"}
        PROVE  Coming(x, e)'
    <3>1. CASE e = d
      BY <2>0, <3>1 DEF Coming
    <3>2. CASE e # d
      <4>1. Stale(x, e) /\ ever[x] = {e} /\ writer[x] \in {"select", "write"}
        BY <1>1, <2>0, <2>4, <3>2 DEF Change, Stale
      <4>2. Coming(x, e)
        BY <4>1 DEF NoUpdateLost
      <4>3. send' = send /\ hand' = hand /\ row'[e] = row[e]
        BY <1>1, <2>0, <3>2 DEF Change
      <4> QED  BY <2>0, <4>2, <4>3 DEF Coming
    <3> QED  BY <3>1, <3>2
  <2> QED  BY <2>1, <2>2, <2>3, <2>4 DEF Told, NoUpdateLost
<1>2. ASSUME NEW d \in Drs, SyncBegin(p, d) PROVE Told' /\ NoUpdateLost'
  <2>0. /\ \A q \in Handlers \ {p} :
              pc'[q] = pc[q] /\ dr'[q] = dr[q] /\ before'[q] = before[q] /\ todo'[q] = todo[q]
        /\ pc'[p] = "sync" /\ dr'[p] = d /\ before'[p] = row[d] /\ row' = row
        /\ pc[p] = "idle" /\ row[d] \in Nat
    BY <1>2 DEF SyncBegin
  <2>1. WatchersAgree' /\ SyncsLookBack'
    BY <1>2, <2>0 DEF SyncBegin, Told, WatchersAgree, SyncsLookBack
  <2>3. OnlyWatched'
    BY <1>2, <2>0 DEF SyncBegin, Told, OnlyWatched
  <2>4. ASSUME NEW x \in Conns, NEW e \in Drs, Stale(x, e)', ever'[x] = {e},
               writer'[x] \in {"select", "write"}
        PROVE  Coming(x, e)'
    <3>1. Stale(x, e) /\ ever[x] = {e} /\ writer[x] \in {"select", "write"}
      BY <1>2, <2>4 DEF SyncBegin, Stale
    <3>2. Coming(x, e)
      BY <3>1 DEF NoUpdateLost
    <3> QED  BY <1>2, <2>0, <3>2, OthersWillPublish DEF SyncBegin
  <2> QED  BY <2>1, <2>3, <2>4 DEF Told, NoUpdateLost
<1>3. ASSUME SyncWrite(p) PROVE Told' /\ NoUpdateLost'
  <2>0. /\ dr[p] \in Drs /\ row[dr[p]] \in Nat /\ before[p] \in Nat
        /\ row'[dr[p]] = row[dr[p]] + 1
        /\ \A e \in Drs \ {dr[p]} : row'[e] = row[e]
        /\ pc[p] = "sync" /\ before[p] <= row[dr[p]]
        /\ pc' = pc /\ dr' = dr /\ before' = before /\ todo' = todo
    BY <1>3 DEF SyncWrite, AtWork, Told, SyncsLookBack
  <2>1. WatchersAgree' /\ OnlyWatched'
    BY <1>3 DEF SyncWrite, Told, WatchersAgree, OnlyWatched
  <2>2. SyncsLookBack'
    <3>1. ASSUME NEW q \in Handlers, pc'[q] = "sync" PROVE before'[q] <= row'[dr'[q]]
      <4>1. pc[q] = "sync" /\ dr[q] \in Drs
        BY <2>0, <3>1 DEF AtWork
      <4>2. before[q] <= row[dr[q]] /\ row[dr[q]] \in Nat /\ before[q] \in Nat
        BY <4>1 DEF Told, SyncsLookBack
      <4>3. row'[dr[q]] \in {row[dr[q]], row[dr[q]] + 1}
        BY <2>0, <4>1
      <4> QED  BY <2>0, <4>2, <4>3
    <3> QED  BY <3>1 DEF SyncsLookBack
  <2>4. ASSUME NEW x \in Conns, NEW e \in Drs, Stale(x, e)', ever'[x] = {e},
               writer'[x] \in {"select", "write"}
        PROVE  Coming(x, e)'
    <3>1. CASE e = dr[p]
      <4>1. before'[p] # row'[e] /\ dr'[p] = e /\ pc'[p] = "sync"
        BY <2>0, <3>1
      <4> QED  BY <4>1 DEF Coming
    <3>2. CASE e # dr[p]
      <4>1. Stale(x, e) /\ ever[x] = {e} /\ writer[x] \in {"select", "write"}
        BY <1>3, <2>0, <2>4, <3>2 DEF SyncWrite, Stale
      <4>2. Coming(x, e)
        BY <4>1 DEF NoUpdateLost
      <4>3. send' = send /\ hand' = hand /\ row'[e] = row[e]
        BY <1>3, <2>0, <3>2 DEF SyncWrite
      <4> QED  BY <2>0, <4>2, <4>3 DEF Coming
    <3> QED  BY <3>1, <3>2
  <2> QED  BY <2>1, <2>2, <2>4 DEF Told, NoUpdateLost
<1> QED  BY <1>1, <1>2, <1>3

LEMMA ToldStutter == ASSUME ToldInv, UNCHANGED vars PROVE Told' /\ NoUpdateLost'
<1> USE DEF ToldInv, vars, hub, conn, handlers
<1>1. Told'
  BY DEF Told, WatchersAgree, OnlyWatched, SyncsLookBack
<1>2. NoUpdateLost'
  BY DEF NoUpdateLost, Stale, Coming
<1> QED  BY <1>1, <1>2

LEMMA ToldInit == ASSUME Init PROVE ToldInv
<1>1. \A c \in Conns : ToSet(send[c]) = {}
  <2>1. \A c \in Conns : send[c] = << >> /\ DOMAIN << >> = {}
    BY DEF Init
  <2> QED  BY <2>1, Zenon DEF ToSet
<1>2. Told
  BY <1>1 DEF Init, Told, WatchersAgree, OnlyWatched, SyncsLookBack
<1>3. NoUpdateLost
  BY DEF Init, NoUpdateLost, Stale
<1> QED  BY <1>2, <1>3, InitInv DEF ToldInv

LEMMA ToldNext == ASSUME ToldInv, [Next]_vars PROVE ToldInv'
<1>1. IInv'
  BY NextInv DEF ToldInv
<1>2. Told' /\ NoUpdateLost'
  BY ToldConnect, ToldCommand, ToldReadPump, ToldWritePump, ToldPublisher, ToldRows,
     ToldStutter DEF Next
<1> QED  BY <1>1, <1>2 DEF ToldInv

\* The drop of an event at a full buffer costs a browser that only ever watched one
\* DR nothing: as long as it shows an old version an event is still coming, for
\* every size of the buffer and however many handlers and syncs change the DR
\* (PublishDrEvent, the snapshots of a sync).
THEOREM NothingLost == Spec => []NoUpdateLost
<1>1. ToldInv => NoUpdateLost
  BY DEF ToldInv
<1> QED  BY <1>1, ToldInit, ToldNext, PTL DEF Spec
===============================================================================
