-------------------------- MODULE CoordinatorServer -------------------------
(***************************************************************************)
(* CoordinatorServer of packages/coordinator-node (server.ts) with the     *)
(* transports of its sessions, and the handler that examples/              *)
(* node-coordinator-server installs for "session:ready".  Devices open     *)
(* sockets, say hello with a session id of their choice, and send frames.  *)
(* Sessions share the map and nothing else; those that devices give the    *)
(* same id share everything.  What a handler computes with the frames is   *)
(* in RemoteDkg: here it is a loop of Rounds frames that may fail.         *)
(* Everything runs on one JavaScript thread: an action is what happens     *)
(* between two awaits.  Hellos carry the fields their intent requires.     *)
(***************************************************************************)
EXTENDS Naturals, Sequences

CONSTANTS Sockets, Ids,
          NoOne, NoId,
          Rounds,     \* frames a handler takes from its device
          MayUse,     \* the ids a device may choose from
          MaxPosts    \* frames a device sends, at most

ASSUME ServerAssumption ==
  /\ NoOne \notin Sockets /\ NoId \notin Ids
  /\ Rounds \in Nat \ {0} 
  /\ MaxPosts \in [Sockets -> Nat]
  /\ MayUse \in [Sockets -> SUBSET Ids]

\* A session is named after the socket whose hello created it.
VARIABLES
  stage,     \* "up", "stopping" since close(), "stopped"
  conn,      \* readyState of a socket
  said,      \* the session id in its hello
  joined,    \* the session its frames go to
  sessions,  \* the map: which session an id stands for
  ctx,       \* a session's MPC context
  holder,    \* state.socket of a session
  route,     \* sockets.device of a session's transport
  queue,     \* queues.server of a session's transport
  posted,    \* frames a device has sent
  intent,    \* intent of the handler that a hello started
  hpc,       \* where that handler is
  heard,     \* history: frames that handler took
  strays     \* history: <<k, r>> if k's handler sent to the socket r, not k

sessionVars == <<sessions, ctx>>
wiring == <<said, joined, holder, route, intent>>
traffic == <<queue, posted, heard, strays>>
vars == <<stage, conn, said, joined, sessions, ctx, holder, route, queue,
          posted, intent, hpc, heard, strays>>

Init ==
  /\ stage = "up"
  /\ conn = [k \in Sockets |-> "none"]
  /\ said = [k \in Sockets |-> NoId]
  /\ joined = [k \in Sockets |-> NoOne]
  /\ sessions = [i \in Ids |-> NoOne]
  /\ ctx = [k \in Sockets |-> "none"]
  /\ holder = [k \in Sockets |-> NoOne]
  /\ route = [k \in Sockets |-> NoOne]
  /\ queue = [k \in Sockets |-> <<>>]
  /\ posted = [k \in Sockets |-> 0]
  /\ intent = [k \in Sockets |-> "dkg"]
  /\ hpc = [k \in Sockets |-> "idle"]
  /\ heard = [k \in Sockets |-> <<>>]
  /\ strays = {}

-----------------------------------------------------------------------------
(* The session map.                                                        *)

\* Slip: the socket is left open.
CleanupSessionOnly(i) ==
  LET s == sessions[i] IN
  /\ sessions' = [sessions EXCEPT ![i] = NoOne]
  /\ ctx' = IF s = NoOne THEN ctx ELSE [ctx EXCEPT ![s] = "down"]
  /\ UNCHANGED conn

\* Whatever session the id stands for now: close the socket it holds, shut its
\* context down, forget it.
CleanupSession(i) ==
  LET s == sessions[i] IN
  /\ sessions' = [sessions EXCEPT ![i] = NoOne]
  /\ ctx' = IF s = NoOne THEN ctx ELSE [ctx EXCEPT ![s] = "down"]
  /\ conn' = IF s # NoOne /\ conn[holder[s]] = "open"
             THEN [conn EXCEPT ![holder[s]] = "closing"] ELSE conn

\* Slip: connections are announced before they are open.
ConnectEarly(k) ==
  /\ stage = "up" /\ conn[k] = "none"
  /\ conn' = [conn EXCEPT ![k] = "connecting"]
  /\ UNCHANGED <<stage, wiring, sessionVars, traffic, hpc>>

Connect(k) ==
  /\ stage = "up" /\ conn[k] = "none"
  /\ conn' = [conn EXCEPT ![k] = "open"]
  /\ UNCHANGED <<stage, wiring, sessionVars, traffic, hpc>>

Listening(k) == conn[k] \in {"open", "closing"}

\* A first message that is no hello.  Its listener stays, and may still hear a
\* hello before the socket is closed.
RefuseHandshake(k) ==
  /\ conn[k] = "open" /\ said[k] = NoId
  /\ conn' = [conn EXCEPT ![k] = "closing"]
  /\ UNCHANGED <<stage, wiring, sessionVars, traffic, hpc>>

\* Slip: a hello always makes a new session.
SessionAnew(k, i) == k

SessionFor(k, i) == IF sessions[i] = NoOne THEN k ELSE sessions[i]

\* registerParticipant: find or make the session, put the socket into it in the
\* place of any other.
Register(k, i, s) ==
  /\ Listening(k) /\ said[k] = NoId
  /\ said' = [said EXCEPT ![k] = i]
  /\ joined' = [joined EXCEPT ![k] = s]
  /\ holder' = [holder EXCEPT ![s] = k]
  /\ route' = [route EXCEPT ![s] = k]
  /\ UNCHANGED <<stage, traffic>>

\* session:ready starts a handler, which runs to its first await.
Hello(k, i) ==
  LET s == SessionFor(k, i) IN
  /\ Register(k, i, s)
  /\ sessions' = [sessions EXCEPT ![i] = s]
  /\ ctx' = [ctx EXCEPT ![s] = "up"]
  /\ \E kind \in {"dkg", "sign"} : intent' = [intent EXCEPT ![k] = kind]
  /\ hpc' = [hpc EXCEPT ![k] = "stepping"]
  /\ UNCHANGED conn

\* An intent that the handler does not know: it closes the session at once.
HelloUnhandled(k, i) ==
  LET s == SessionFor(k, i) IN
  /\ Register(k, i, s)
  /\ sessions' = [sessions EXCEPT ![i] = NoOne]
  /\ ctx' = [ctx EXCEPT ![s] = "down"]
  /\ intent' = [intent EXCEPT ![k] = "refresh"]
  /\ hpc' = [hpc EXCEPT ![k] = "ended"]
  /\ conn' = [conn EXCEPT ![k] = "closing"]

\* The close of k's socket cleans up session s, if that is one.
ClosesWith(k, s) ==
  LET closed == [conn EXCEPT ![k] = "closed"] IN
  /\ Listening(k)
  /\ conn' = IF s # NoOne /\ closed[holder[s]] = "open"
             THEN [closed EXCEPT ![holder[s]] = "closing"] ELSE closed
  /\ sessions' = [i \in Ids |-> IF s # NoOne /\ sessions[i] = s THEN NoOne
                               ELSE sessions[i]]
  /\ ctx' = IF s = NoOne THEN ctx ELSE [ctx EXCEPT ![s] = "down"]
  /\ route' = [t \in Sockets |-> IF t = joined[k] THEN NoOne ELSE route[t]]
  /\ UNCHANGED <<stage, said, joined, holder, intent, traffic, hpc>>

\* Slip: only the close of the socket that made the session ends it.
CreatorCloses(k) ==
  ClosesWith(k, IF said[k] = NoId \/ joined[k] # k THEN NoOne ELSE sessions[said[k]])

\* A socket is closed, by either end: its transport forgets the socket it has
\* for the device, the server the session that the socket's id stands for.
SocketCloses(k) ==
  ClosesWith(k, IF said[k] = NoId THEN NoOne ELSE sessions[said[k]])

-----------------------------------------------------------------------------
(* The transport.                                                          *)

\* A frame of a device is queued in the session that its socket joined.
DeviceSends(k) ==
  /\ Listening(k) /\ said[k] # NoId /\ posted[k] < MaxPosts[k]
  /\ posted' = [posted EXCEPT ![k] = @ + 1]
  /\ queue' = [queue EXCEPT ![joined[k]] = Append(@, <<k, posted[k] + 1>>)]
  /\ UNCHANGED <<stage, conn, wiring, sessionVars, hpc, heard, strays>>

\* send(): to the socket the transport has now, if it is open.
Tell(k) ==
  LET r == route[joined[k]] IN
  strays' = IF r \notin {NoOne, k} /\ conn[r] = "open"
            THEN strays \cup {<<k, r>>} ELSE strays

-----------------------------------------------------------------------------
(* The handler.                                                            *)

\* Slip: only the handler of a key generation closes its session.
ConcludeQuietly(k) ==
  /\ hpc' = [hpc EXCEPT ![k] = IF intent[k] = "dkg" THEN "window" ELSE "ended"]
  /\ UNCHANGED <<sessionVars, conn>>

\* finally: after a key generation wait for a backup, then close the session.
\* The event has no socket, so the wait is always the one second.
Conclude(k) ==
  \/ /\ intent[k] = "dkg"
     /\ hpc' = [hpc EXCEPT ![k] = "window"]
     /\ UNCHANGED <<sessionVars, conn>>
  \/ /\ intent[k] # "dkg"
     /\ hpc' = [hpc EXCEPT ![k] = "ended"]
     /\ CleanupSession(said[k])

\* Slip: the youngest frame first.
ReceiveLast(k) ==
  LET q == queue[joined[k]] IN
  /\ hpc[k] = "wait" /\ q # <<>>
  /\ heard' = [heard EXCEPT ![k] = Append(@, q[Len(q)])]
  /\ queue' = [queue EXCEPT ![joined[k]] = SubSeq(q, 1, Len(q) - 1)]
  /\ \/ /\ ctx[joined[k]] = "up"
        /\ hpc' = [hpc EXCEPT ![k] = "stepping"]
        /\ UNCHANGED <<sessionVars, conn>>
     \/ ctx[joined[k]] = "down" /\ Conclude(k)
  /\ UNCHANGED <<stage, wiring, posted, strays>>

\* Take a frame and start a step with it, which throws if the context is gone.
Receive(k) ==
  LET q == queue[joined[k]] IN
  /\ hpc[k] = "wait" /\ q # <<>>
  /\ heard' = [heard EXCEPT ![k] = Append(@, Head(q))]
  /\ queue' = [queue EXCEPT ![joined[k]] = Tail(q)]
  /\ \/ /\ ctx[joined[k]] = "up"
        /\ hpc' = [hpc EXCEPT ![k] = "stepping"]
        /\ UNCHANGED <<sessionVars, conn>>
     \/ ctx[joined[k]] = "down" /\ Conclude(k)
  /\ UNCHANGED <<stage, wiring, posted, strays>>

\* The step produced a frame, or none.
StepAnswered(k) ==
  /\ hpc[k] = "stepping"
  /\ hpc' = [hpc EXCEPT ![k] =
       IF Len(heard[k]) < Rounds THEN "wait" ELSE "finish"]
  /\ Tell(k) \/ UNCHANGED strays
  /\ UNCHANGED <<stage, conn, wiring, sessionVars, queue, posted, heard>>

\* A step failed, or what follows the last one (store the share, for one).
Fails(k) ==
  /\ hpc[k] \in {"stepping", "finish"}
  /\ Conclude(k)
  /\ UNCHANGED <<stage, wiring, traffic>>

\* Everything is done: the completion signal.  dkgFinalize needs the context.
SignalDone(k) ==
  /\ hpc[k] = "finish"
  /\ Tell(k)
  /\ Conclude(k)
  /\ UNCHANGED <<stage, wiring, queue, posted, heard>>

CloseWindow(k) ==
  /\ hpc[k] = "window"
  /\ hpc' = [hpc EXCEPT ![k] = "ended"]
  /\ CleanupSession(said[k])
  /\ UNCHANGED <<stage, wiring, traffic>>

-----------------------------------------------------------------------------
(* close().                                                                *)

\* Slip: the sessions are cleaned up first.
StopAtOnce ==
  /\ stage = "up"
  /\ stage' = "stopping"
  /\ sessions' = [i \in Ids |-> NoOne]
  /\ ctx' = [k \in Sockets |-> IF ctx[k] = "up" THEN "down" ELSE ctx[k]]
  /\ conn' = [k \in Sockets |->
       IF conn[k] = "open" /\ said[k] # NoId THEN "closing" ELSE conn[k]]
  /\ UNCHANGED <<wiring, traffic, hpc>>

\* wss.close: no more connections.
Stop ==
  /\ stage = "up"
  /\ stage' = "stopping"
  /\ UNCHANGED <<conn, wiring, sessionVars, traffic, hpc>>

\* Its callback comes when the last connection has ended.  It cleans up what is
\* in the map and resolves the promise; the example's process then exits.
Stopped ==
  /\ stage = "stopping"
  /\ \A k \in Sockets : ~Listening(k)
  /\ stage' = "stopped"
  /\ sessions' = [i \in Ids |-> NoOne]
  /\ ctx' = [k \in Sockets |-> IF ctx[k] = "up" THEN "down" ELSE ctx[k]]
  /\ UNCHANGED <<conn, wiring, traffic, hpc>>

Over == stage = "stopped" /\ UNCHANGED vars

-----------------------------------------------------------------------------

Handler(k) ==
  Receive(k) \/ StepAnswered(k) \/ Fails(k) \/ SignalDone(k) \/ CloseWindow(k)

Running == stage # "stopped"

Next ==
  \/ /\ Running
     /\ \/ Stop \/ Stopped
        \/ \E k \in Sockets :
             \/ Connect(k) \/ RefuseHandshake(k)
             \/ \E i \in MayUse[k] : Hello(k, i) \/ HelloUnhandled(k, i)
             \/ SocketCloses(k) \/ DeviceSends(k)
             \/ Handler(k)
  \/ Over

Spec == Init /\ [][Next]_vars

\* Awaited calls return and timers fire; ws closes a socket it was told to close
\* and reports when the last connection has ended.  A device need not do anything.
Fairness ==
  /\ \A k \in Sockets :
       /\ WF_vars(Running /\ Handler(k))
       /\ WF_vars(Running /\ conn[k] = "closing" /\ SocketCloses(k))
  /\ WF_vars(Stopped)

FairSpec == Spec /\ Fairness

-----------------------------------------------------------------------------
(* Properties.                                                             *)

\* The type invariant of the server, its transports and its handlers.
TypeOK ==
  /\ stage \in {"up", "stopping", "stopped"}
  /\ conn \in [Sockets -> {"none", "open", "closing", "closed"}]
  /\ said \in [Sockets -> Ids \cup {NoId}]
  /\ sessions \in [Ids -> Sockets \cup {NoOne}]
  /\ ctx \in [Sockets -> {"none", "up", "down"}]
  /\ joined \in [Sockets -> Sockets \cup {NoOne}]
  /\ holder \in [Sockets -> Sockets \cup {NoOne}]
  /\ route \in [Sockets -> Sockets \cup {NoOne}]
  /\ queue \in [Sockets -> Seq(Sockets \X Nat)]
  /\ posted \in [Sockets -> Nat]
  /\ intent \in [Sockets -> {"dkg", "sign", "refresh"}]
  /\ hpc \in [Sockets ->
       {"idle", "stepping", "wait", "finish", "window", "ended"}]
  /\ heard \in [Sockets -> Seq(Sockets \X Nat)]
  /\ strays \subseteq Sockets \X Sockets

\* A context is alive exactly while the map leads to its session: cleanupSession
\* neither leaks one nor shuts one down twice, whoever calls it and how often.
ContextOfMap ==
  \A k \in Sockets : ctx[k] = "up" <=> \E i \in Ids : sessions[i] = k

\* A session that the map leads to holds an open or closing socket of its id: it
\* is closed at the latest when that socket is.
HeldByItsOwn ==
  \A i \in Ids : sessions[i] # NoOne =>
    /\ said[holder[sessions[i]]] = i
    /\ Listening(holder[sessions[i]])

Alone(k) == said[k] # NoId /\ \A j \in Sockets \ {k} : said[j] # said[k]

\* A session whose id nobody else used is closed by its own handler or by the
\* close of its own socket, never by anybody else's end.
SparesOthers ==
  \A k \in Sockets :
    Alone(k) /\ ctx[k] = "down" => hpc[k] = "ended" \/ conn[k] = "closed"

\* The handler of such a session takes the frames of its device, once and in the
\* order they were sent, and what it sends reaches its device or nobody.
OwnFrames ==
  \A k \in Sockets : Alone(k) =>
    /\ heard[k] = [n \in 1 .. Len(heard[k]) |-> <<k, n>>]
    /\ \A j \in Sockets : {<<k, j>>, <<j, k>>} \cap strays = {}

\* packages/coordinator-node/README.md: "After the intent finishes, the server
\* closes the session", the socket included, unless another socket with the same
\* session id takes its place before that.
FinishedIsClosed ==
  \A k \in Sockets :
    hpc[k] \in {"finish", "window", "ended"} ~> conn[k] = "closed" \/ ~Alone(k)

\* What can hold up a server that was told to close: a device that never said
\* hello, one whose session id another one used too, and a handler that waits
\* for a frame.
StopHeldUp ==
  <>(stage = "stopping") =>
    \/ <>(stage = "stopped")
    \/ <>[](\E k \in Sockets : conn[k] = "open" /\
              (said[k] = NoId \/ ~Alone(k) \/ hpc[k] = "wait"))

=============================================================================
