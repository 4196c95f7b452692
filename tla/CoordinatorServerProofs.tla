----------------------- MODULE CoordinatorServerProofs ----------------------
(***************************************************************************)
(* The session map of CoordinatorServer leads to live contexts and to      *)
(* sockets that will clean it up, for every set of devices and ids.        *)
(***************************************************************************)
EXTENDS CoordinatorServer, TLAPS

\* What ties a socket to its id, its session and its handler.
Named ==
  /\ \A i \in Ids : sessions[i] # NoOne =>
       said[sessions[i]] = i /\ holder[sessions[i]] \in Sockets
  /\ \A k \in Sockets : said[k] = NoId => ctx[k] = "none" /\ hpc[k] = "idle"
  /\ \A k \in Sockets : said[k] # NoId => joined[k] \in Sockets

MapInv == Named /\ ContextOfMap /\ HeldByItsOwn

IInv == TypeOK /\ MapInv

-----------------------------------------------------------------------------
(* Types.                                                                  *)

\* The initial state has the types.
LEMMA InitTypes == ASSUME Init PROVE TypeOK
  BY DEF Init, TypeOK

\* Cleaning a session up preserves the types of what it changes.
LEMMA CleanupTypes ==
  ASSUME TypeOK, Named, NEW i \in Ids, CleanupSession(i)
  PROVE  /\ sessions' \in [Ids -> Sockets \cup {NoOne}]
         /\ ctx' \in [Sockets -> {"none", "up", "down"}]
         /\ conn' \in [Sockets -> {"none", "open", "closing", "closed"}]
  BY DEF TypeOK, Named, CleanupSession

\* So does the way a handler ends.
LEMMA ConcludeTypes ==
  ASSUME TypeOK, Named, NEW k \in Sockets, hpc[k] # "idle", Conclude(k)
  PROVE  /\ sessions' \in [Ids -> Sockets \cup {NoOne}]
         /\ ctx' \in [Sockets -> {"none", "up", "down"}]
         /\ conn' \in [Sockets -> {"none", "open", "closing", "closed"}]
         /\ hpc' \in [Sockets ->
              {"idle", "stepping", "wait", "finish", "window", "ended"}]
<1>1. said[k] \in Ids
  BY DEF TypeOK, Named
<1>2. CASE intent[k] = "dkg"
  <2>1. hpc' = [hpc EXCEPT ![k] = "window"] /\ UNCHANGED <<sessions, ctx, conn>>
    BY <1>2 DEF Conclude, sessionVars
  <2> QED
    BY <2>1 DEF TypeOK
<1>3. CASE intent[k] # "dkg"
  <2>1. CleanupSession(said[k]) /\ hpc' = [hpc EXCEPT ![k] = "ended"]
    BY <1>3 DEF Conclude
  <2> QED
    BY <2>1, <1>1, CleanupTypes DEF TypeOK
<1> QED
  BY <1>2, <1>3

\* A session found for a hello is a session.
LEMMA SessionForTypes ==
  ASSUME TypeOK, NEW k \in Sockets, NEW i \in Ids
  PROVE  SessionFor(k, i) \in Sockets
  BY DEF TypeOK, SessionFor

\* What a handler sends goes to a socket that its transport knows.
LEMMA TellTypes ==
  ASSUME TypeOK, Named, NEW k \in Sockets, hpc[k] # "idle",
         Tell(k) \/ UNCHANGED strays
  PROVE  strays' \subseteq Sockets \X Sockets
<1>1. joined[k] \in Sockets /\ route[joined[k]] \in Sockets \cup {NoOne}
  BY DEF TypeOK, Named
<1> QED
  BY <1>1 DEF TypeOK, Tell

\* Every step preserves the types.
LEMMA NextTypes == ASSUME TypeOK, Named, [Next]_vars PROVE TypeOK'
<1> USE DEF TypeOK
<1>1. ASSUME NEW k \in Sockets, Connect(k) PROVE TypeOK'
  BY <1>1 DEF Connect, wiring, sessionVars, traffic
<1>2. ASSUME NEW k \in Sockets, RefuseHandshake(k) PROVE TypeOK'
  BY <1>2 DEF RefuseHandshake, wiring, sessionVars, traffic
<1>3. ASSUME NEW k \in Sockets, NEW i \in Ids, Hello(k, i) PROVE TypeOK'
  <2> DEFINE s == SessionFor(k, i)
  <2>1. s \in Sockets
    BY SessionForTypes
  <2> HIDE DEF s
  <2>2. Register(k, i, s) /\ UNCHANGED conn
    BY <1>3 DEF Hello, s
  <2>3. /\ sessions' = [sessions EXCEPT ![i] = s]
        /\ ctx' = [ctx EXCEPT ![s] = "up"]
        /\ \E kind \in {"dkg", "sign"} : intent' = [intent EXCEPT ![k] = kind]
        /\ hpc' = [hpc EXCEPT ![k] = "stepping"]
    BY <1>3 DEF Hello, s
  <2> QED
    BY <2>1, <2>2, <2>3 DEF Register, traffic
<1>4. ASSUME NEW k \in Sockets, NEW i \in Ids, HelloUnhandled(k, i)
      PROVE  TypeOK'
  <2> DEFINE s == SessionFor(k, i)
  <2>1. s \in Sockets
    BY SessionForTypes
  <2> HIDE DEF s
  <2>2. Register(k, i, s)
    BY <1>4 DEF HelloUnhandled, s
  <2>3. /\ sessions' = [sessions EXCEPT ![i] = NoOne]
        /\ ctx' = [ctx EXCEPT ![s] = "down"]
        /\ intent' = [intent EXCEPT ![k] = "refresh"]
        /\ hpc' = [hpc EXCEPT ![k] = "ended"]
        /\ conn' = [conn EXCEPT ![k] = "closing"]
    BY <1>4 DEF HelloUnhandled, s
  <2> QED
    BY <2>1, <2>2, <2>3 DEF Register, traffic
<1>5. ASSUME NEW k \in Sockets, SocketCloses(k) PROVE TypeOK'
  <2> DEFINE s == IF said[k] = NoId THEN NoOne ELSE sessions[said[k]]
  <2>1. s \in Sockets \cup {NoOne}
    OBVIOUS
  <2> HIDE DEF s
  <2>2. ClosesWith(k, s)
    BY <1>5 DEF SocketCloses, s
  <2> QED
    BY <2>1, <2>2 DEF ClosesWith, traffic
<1>6. ASSUME NEW k \in Sockets, DeviceSends(k) PROVE TypeOK'
  <2>1. joined[k] \in Sockets /\ posted[k] + 1 \in Nat
    BY <1>6 DEF Named, DeviceSends
  <2>2. Append(queue[joined[k]], <<k, posted[k] + 1>>) \in Seq(Sockets \X Nat)
    BY <2>1
  <2> QED
    BY <1>6, <2>1, <2>2 DEF DeviceSends, wiring, sessionVars
<1>7. ASSUME NEW k \in Sockets, Receive(k) PROVE TypeOK'
  <2> DEFINE q == queue[joined[k]]
  <2>1. joined[k] \in Sockets /\ hpc[k] = "wait" /\ q # <<>>
    BY <1>7 DEF Named, Receive
  <2>2. Head(q) \in Sockets \X Nat /\ Tail(q) \in Seq(Sockets \X Nat)
    BY <2>1
  <2>3. Append(heard[k], Head(q)) \in Seq(Sockets \X Nat)
    BY <2>2
  <2>4. /\ heard' = [heard EXCEPT ![k] = Append(@, Head(q))]
        /\ queue' = [queue EXCEPT ![joined[k]] = Tail(q)]
        /\ UNCHANGED <<stage, wiring, posted, strays>>
        /\ \/ hpc' = [hpc EXCEPT ![k] = "stepping"] /\ UNCHANGED <<sessionVars, conn>>
           \/ Conclude(k)
    BY <1>7 DEF Receive
  <2>5. heard' \in [Sockets -> Seq(Sockets \X Nat)]
    BY <2>3, <2>4
  <2>6. queue' \in [Sockets -> Seq(Sockets \X Nat)]
    BY <2>1, <2>2, <2>4
  <2>7. CASE hpc' = [hpc EXCEPT ![k] = "stepping"] /\ UNCHANGED <<sessionVars, conn>>
    BY <2>4, <2>5, <2>6, <2>7 DEF wiring, sessionVars
  <2>8. CASE Conclude(k)
    BY <2>1, <2>4, <2>5, <2>6, <2>8, ConcludeTypes DEF wiring
  <2> QED
    BY <2>4, <2>7, <2>8
<1>8. ASSUME NEW k \in Sockets, StepAnswered(k) PROVE TypeOK'
  <2>1. strays' \subseteq Sockets \X Sockets
    BY <1>8, TellTypes DEF StepAnswered
  <2> QED
    BY <1>8, <2>1 DEF StepAnswered, wiring, sessionVars
<1>9. ASSUME NEW k \in Sockets, Fails(k) PROVE TypeOK'
  <2>1. hpc[k] # "idle" /\ Conclude(k) /\ UNCHANGED <<stage, wiring, traffic>>
    BY <1>9 DEF Fails
  <2> QED
    BY <2>1, ConcludeTypes DEF wiring, traffic
<1>10. ASSUME NEW k \in Sockets, SignalDone(k) PROVE TypeOK'
  <2>1. /\ hpc[k] # "idle" /\ Conclude(k)
        /\ UNCHANGED <<stage, wiring, queue, posted, heard>>
    BY <1>10 DEF SignalDone
  <2>2. strays' \subseteq Sockets \X Sockets
    BY <1>10, TellTypes DEF SignalDone
  <2> QED
    BY <2>1, <2>2, ConcludeTypes DEF wiring
<1>11. ASSUME NEW k \in Sockets, CloseWindow(k) PROVE TypeOK'
  <2>1. said[k] \in Ids
    BY <1>11 DEF Named, CloseWindow
  <2> QED
    BY <1>11, <2>1, CleanupTypes DEF CloseWindow, wiring, traffic
<1>12. CASE Stop
  BY <1>12 DEF Stop, wiring, sessionVars, traffic
<1>13. CASE Stopped
  BY <1>13 DEF Stopped, wiring, traffic
<1>14. CASE UNCHANGED vars
  BY <1>14 DEF vars
<1>15. \A k \in Sockets : MayUse[k] \subseteq Ids
  BY ServerAssumption
<1> QED
  BY <1>1, <1>2, <1>3, <1>4, <1>5, <1>6, <1>7, <1>8, <1>9, <1>10, <1>11,
     <1>12, <1>13, <1>14, <1>15 DEF Next, Handler, Over

-----------------------------------------------------------------------------
(* The map.                                                                *)

\* The map is empty at first.
LEMMA InitMap == ASSUME Init PROVE MapInv
  BY ServerAssumption
     DEF Init, MapInv, Named, ContextOfMap, HeldByItsOwn, Listening

\* Sockets and handlers that have said hello may move on, as long as none closes.
LEMMA MapUntouched ==
  ASSUME IInv, UNCHANGED <<said, joined, holder, sessions, ctx>>,
         \A k \in Sockets : Listening(k) => Listening(k)',
         \A k \in Sockets : said[k] = NoId => hpc'[k] = hpc[k]
  PROVE  MapInv'
<1>1. Named'
  BY DEF IInv, MapInv, Named
<1>2. ContextOfMap'
  BY DEF IInv, MapInv, ContextOfMap
<1>3. HeldByItsOwn'
  <2> SUFFICES ASSUME NEW i \in Ids, sessions[i] # NoOne
               PROVE  /\ said[holder[sessions[i]]] = i
                      /\ Listening(holder[sessions[i]])'
    BY DEF HeldByItsOwn, Listening
  <2>1. /\ holder[sessions[i]] \in Sockets
        /\ said[holder[sessions[i]]] = i /\ Listening(holder[sessions[i]])
    BY DEF IInv, MapInv, Named, HeldByItsOwn
  <2> QED
    BY <2>1
<1> QED
  BY <1>1, <1>2, <1>3 DEF MapInv

\* Taking a session s out of the map and shutting its context down leaves the
\* others as they are (no two ids lead to one session), if the socket that each
\* of them holds goes on listening.
LEMMA MapWithout ==
  ASSUME IInv, NEW i \in Ids, NEW s \in Sockets, sessions[i] = s,
         sessions' = [sessions EXCEPT ![i] = NoOne],
         ctx' = [ctx EXCEPT ![s] = "down"],
         UNCHANGED <<said, joined, holder>>,
         \A k \in Sockets : said[k] # i /\ Listening(k) => Listening(k)',
         \A k \in Sockets : said[k] = NoId => hpc'[k] = hpc[k]
  PROVE  MapInv'
<1>1. said[s] = i
  BY ServerAssumption DEF IInv, MapInv, Named
<1>2. sessions \in [Ids -> Sockets \cup {NoOne}] /\ NoOne \notin Sockets
  BY ServerAssumption DEF IInv, TypeOK
<1>3. ctx \in [Sockets -> {"none", "up", "down"}]
  BY DEF IInv, TypeOK
<1>4. /\ sessions'[i] = NoOne
      /\ \A j \in Ids \ {i} : sessions'[j] = sessions[j] /\ sessions[j] # s
  BY <1>1, <1>2 DEF IInv, MapInv, Named
<1>5. \A k \in Sockets \ {s} : ctx'[k] = ctx[k]
  BY <1>3
<1>6. Named'
  <2>1. \A k \in Sockets : said[k] = NoId => k # s
    BY <1>1, ServerAssumption
  <2> QED
    BY <2>1, <1>4, <1>5 DEF IInv, MapInv, Named
<1>7. ContextOfMap'
  <2>1. ctx'[s] = "down" /\ \A j \in Ids : sessions'[j] # s
    BY <1>2, <1>3, <1>4
  <2>2. \A k \in Sockets \ {s}, j \in Ids : sessions'[j] = k <=> sessions[j] = k
    BY <1>2, <1>4
  <2> QED
    BY <2>1, <2>2, <1>5 DEF IInv, MapInv, ContextOfMap
<1>8. HeldByItsOwn'
  <2> SUFFICES ASSUME NEW j \in Ids, sessions'[j] # NoOne
               PROVE  /\ said'[holder'[sessions'[j]]] = j
                      /\ conn'[holder'[sessions'[j]]] \in {"open", "closing"}
    BY DEF HeldByItsOwn, Listening
  <2>1. j # i /\ sessions'[j] = sessions[j]
    BY <1>4
  <2>2. /\ holder[sessions[j]] \in Sockets
        /\ said[holder[sessions[j]]] = j /\ Listening(holder[sessions[j]])
    BY <2>1 DEF IInv, MapInv, Named, HeldByItsOwn
  <2>3. conn'[holder[sessions[j]]] \in {"open", "closing"}
    BY <2>1, <2>2 DEF Listening
  <2> QED
    BY <2>1, <2>2, <2>3
<1> QED
  BY <1>6, <1>7, <1>8 DEF MapInv

\* So cleanupSession may be called at any time, for any id.
LEMMA CleanupMap ==
  ASSUME IInv, NEW i \in Ids, CleanupSession(i),
         UNCHANGED <<said, joined, holder>>,
         \A k \in Sockets : said[k] = NoId => hpc'[k] = hpc[k]
  PROVE  MapInv'
<1>1. \A k \in Sockets : Listening(k) => Listening(k)'
  BY DEF IInv, TypeOK, CleanupSession, Listening
<1>2. CASE sessions[i] = NoOne
  <2>1. UNCHANGED <<sessions, ctx>>
    BY <1>2 DEF IInv, TypeOK, CleanupSession
  <2> QED
    BY <2>1, <1>1, MapUntouched
<1>3. CASE sessions[i] # NoOne
  <2> DEFINE s == sessions[i]
  <2>1. /\ s \in Sockets
        /\ sessions' = [sessions EXCEPT ![i] = NoOne]
        /\ ctx' = [ctx EXCEPT ![s] = "down"]
    BY <1>3 DEF IInv, TypeOK, CleanupSession
  <2> QED
    BY <2>1, <1>1, MapWithout
<1> QED
  BY <1>2, <1>3

\* A handler that ends leaves the map alone or cleans up.
LEMMA ConcludeMap ==
  ASSUME IInv, NEW k \in Sockets, hpc[k] # "idle", Conclude(k),
         UNCHANGED <<said, joined, holder>>
  PROVE  MapInv'
<1>1. said[k] \in Ids
  BY DEF IInv, TypeOK, MapInv, Named
<1>2. CASE intent[k] = "dkg"
  <2>1. /\ hpc' = [hpc EXCEPT ![k] = "window"]
        /\ UNCHANGED <<sessions, ctx, conn>>
    BY <1>2 DEF Conclude, sessionVars
  <2>2. \A j \in Sockets : said[j] = NoId => hpc'[j] = hpc[j]
    BY <2>1, <1>1, ServerAssumption DEF IInv, TypeOK
  <2> QED
    BY <2>1, <2>2, MapUntouched DEF Listening
<1>3. CASE intent[k] # "dkg"
  <2>1. CleanupSession(said[k]) /\ hpc' = [hpc EXCEPT ![k] = "ended"]
    BY <1>3 DEF Conclude
  <2>2. \A j \in Sockets : said[j] = NoId => hpc'[j] = hpc[j]
    BY <2>1, <1>1, ServerAssumption DEF IInv, TypeOK
  <2> QED
    BY <2>1, <2>2, <1>1, CleanupMap
<1> QED
  BY <1>2, <1>3

\* A hello puts a session into the map, or its socket into the session it finds.
LEMMA HelloMap ==
  ASSUME IInv, NEW k \in Sockets, NEW i \in Ids, Hello(k, i) PROVE MapInv'
<1> DEFINE s == SessionFor(k, i)
<1>1. /\ Listening(k) /\ said[k] = NoId
      /\ said' = [said EXCEPT ![k] = i]
      /\ joined' = [joined EXCEPT ![k] = s]
      /\ holder' = [holder EXCEPT ![s] = k]
      /\ sessions' = [sessions EXCEPT ![i] = s]
      /\ ctx' = [ctx EXCEPT ![s] = "up"]
      /\ hpc' = [hpc EXCEPT ![k] = "stepping"]
      /\ UNCHANGED conn
  BY DEF Hello, Register
<1>2. s \in Sockets /\ (s = k \/ sessions[i] = s)
  BY DEF IInv, TypeOK, SessionFor
<1>3. s # k => said[s] = i
  BY <1>2, ServerAssumption DEF IInv, MapInv, Named
<1> HIDE DEF s
<1>4. said'[s] = i /\ said'[k] = i
  BY <1>1, <1>2, <1>3 DEF IInv, TypeOK
<1>5. /\ sessions'[i] = s
      /\ \A j \in Ids \ {i} : sessions'[j] = sessions[j]
                           /\ sessions[j] # s /\ sessions[j] # k
  <2>1. \A j \in Ids : sessions[j] # k
    BY <1>1, ServerAssumption DEF IInv, MapInv, Named
  <2> QED
    BY <1>1, <1>2, <1>3, <2>1, ServerAssumption DEF IInv, TypeOK, MapInv, Named
<1>6. \A x \in Sockets \ {s} : ctx'[x] = ctx[x] /\ holder'[x] = holder[x]
  BY <1>1 DEF IInv, TypeOK
<1>7. holder'[s] = k /\ ctx'[s] = "up"
  BY <1>1, <1>2 DEF IInv, TypeOK
<1>8. Named'
  <2>1. \A j \in Ids : sessions'[j] # NoOne =>
          said'[sessions'[j]] = j /\ holder'[sessions'[j]] \in Sockets
    <3> SUFFICES ASSUME NEW j \in Ids, sessions'[j] # NoOne
                 PROVE  /\ said'[sessions'[j]] = j
                        /\ holder'[sessions'[j]] \in Sockets
      OBVIOUS
    <3>1. CASE j = i
      BY <3>1, <1>4, <1>5, <1>7
    <3>2. CASE j # i
      <4>1. /\ sessions'[j] = sessions[j] /\ sessions[j] \in Sockets
            /\ sessions[j] # s /\ sessions[j] # k
        BY <3>2, <1>5 DEF IInv, TypeOK
      <4> QED
        BY <4>1, <1>1, <1>6 DEF IInv, TypeOK, MapInv, Named
    <3> QED
      BY <3>1, <3>2
  <2>2. \A x \in Sockets : said'[x] = NoId => ctx'[x] = "none" /\ hpc'[x] = "idle"
    <3> SUFFICES ASSUME NEW x \in Sockets, said'[x] = NoId
                 PROVE  ctx'[x] = "none" /\ hpc'[x] = "idle"
      OBVIOUS
    <3>1. x # k /\ x # s /\ said[x] = NoId
      BY <1>1, <1>4, ServerAssumption DEF IInv, TypeOK
    <3> QED
      BY <3>1, <1>1, <1>6 DEF IInv, TypeOK, MapInv, Named
  <2>3. \A x \in Sockets : said'[x] # NoId => joined'[x] \in Sockets
    BY <1>1, <1>2 DEF IInv, TypeOK, MapInv, Named
  <2> QED
    BY <2>1, <2>2, <2>3 DEF Named
<1>9. ContextOfMap'
  <2> SUFFICES ASSUME NEW x \in Sockets
               PROVE  ctx'[x] = "up" <=> \E j \in Ids : sessions'[j] = x
    BY DEF ContextOfMap
  <2>1. CASE x = s
    BY <2>1, <1>5, <1>7
  <2>2. CASE x # s
    <3>1. sessions[i] # x
      BY <2>2, <1>2, <1>1, ServerAssumption DEF IInv, MapInv, Named, s, SessionFor
    <3>2. \A j \in Ids : sessions'[j] = x <=> sessions[j] = x
      BY <2>2, <3>1, <1>5
    <3>3. ctx'[x] = ctx[x]
      BY <2>2, <1>6
    <3> QED
      BY <3>2, <3>3 DEF IInv, MapInv, ContextOfMap
  <2> QED
    BY <2>1, <2>2
<1>10. HeldByItsOwn'
  <2> SUFFICES ASSUME NEW j \in Ids, sessions'[j] # NoOne
               PROVE  /\ said'[holder'[sessions'[j]]] = j
                      /\ conn'[holder'[sessions'[j]]] \in {"open", "closing"}
    BY DEF HeldByItsOwn, Listening
  <2>1. CASE j = i
    BY <2>1, <1>1, <1>4, <1>5, <1>7 DEF Listening
  <2>2. CASE j # i
    <3>1. /\ sessions'[j] = sessions[j] /\ sessions[j] \in Sockets
          /\ sessions[j] # s
      BY <2>2, <1>5 DEF IInv, TypeOK
    <3>2. /\ holder[sessions[j]] \in Sockets
          /\ said[holder[sessions[j]]] = j /\ Listening(holder[sessions[j]])
      BY <3>1 DEF IInv, MapInv, Named, HeldByItsOwn
    <3>3. holder[sessions[j]] # k
      BY <3>2, <1>1, ServerAssumption
    <3> QED
      BY <3>1, <3>2, <3>3, <1>1, <1>6 DEF IInv, TypeOK, Listening
  <2> QED
    BY <2>1, <2>2
<1> QED
  BY <1>8, <1>9, <1>10 DEF MapInv

\* A hello that nobody handles takes the session out of the map again.
LEMMA HelloUnhandledMap ==
  ASSUME IInv, NEW k \in Sockets, NEW i \in Ids, HelloUnhandled(k, i)
  PROVE  MapInv'
<1> DEFINE s == SessionFor(k, i)
<1>1. /\ Listening(k) /\ said[k] = NoId
      /\ said' = [said EXCEPT ![k] = i]
      /\ joined' = [joined EXCEPT ![k] = s]
      /\ holder' = [holder EXCEPT ![s] = k]
      /\ sessions' = [sessions EXCEPT ![i] = NoOne]
      /\ ctx' = [ctx EXCEPT ![s] = "down"]
      /\ hpc' = [hpc EXCEPT ![k] = "ended"]
      /\ conn' = [conn EXCEPT ![k] = "closing"]
  BY DEF HelloUnhandled, Register
<1>2. s \in Sockets /\ (s = k \/ sessions[i] = s)
  BY DEF IInv, TypeOK, SessionFor
<1>3. s # k => said[s] = i
  BY <1>2, ServerAssumption DEF IInv, MapInv, Named
<1>4. sessions[i] # NoOne => sessions[i] = s
  BY DEF SessionFor
<1> HIDE DEF s
<1>5. said'[s] = i /\ said'[k] = i
  BY <1>1, <1>2, <1>3 DEF IInv, TypeOK
<1>6. /\ sessions'[i] = NoOne
      /\ \A j \in Ids \ {i} : sessions'[j] = sessions[j]
                           /\ sessions[j] # s /\ sessions[j] # k
  <2>1. \A j \in Ids : sessions[j] # k
    BY <1>1, ServerAssumption DEF IInv, MapInv, Named
  <2> QED
    BY <1>1, <1>2, <1>3, <2>1, ServerAssumption DEF IInv, TypeOK, MapInv, Named
<1>7. \A x \in Sockets \ {s} : ctx'[x] = ctx[x] /\ holder'[x] = holder[x]
  BY <1>1 DEF IInv, TypeOK
<1>8. Named'
  <2>1. \A j \in Ids : sessions'[j] # NoOne =>
          said'[sessions'[j]] = j /\ holder'[sessions'[j]] \in Sockets
    <3> SUFFICES ASSUME NEW j \in Ids, sessions'[j] # NoOne
                 PROVE  /\ said'[sessions'[j]] = j
                        /\ holder'[sessions'[j]] \in Sockets
      OBVIOUS
    <3>1. /\ sessions'[j] = sessions[j] /\ sessions[j] \in Sockets
          /\ sessions[j] # s /\ sessions[j] # k
      BY <1>6 DEF IInv, TypeOK
    <3> QED
      BY <3>1, <1>1, <1>7 DEF IInv, TypeOK, MapInv, Named
  <2>2. \A x \in Sockets : said'[x] = NoId => ctx'[x] = "none" /\ hpc'[x] = "idle"
    <3> SUFFICES ASSUME NEW x \in Sockets, said'[x] = NoId
                 PROVE  ctx'[x] = "none" /\ hpc'[x] = "idle"
      OBVIOUS
    <3>1. x # k /\ x # s /\ said[x] = NoId
      BY <1>1, <1>5, ServerAssumption DEF IInv, TypeOK
    <3> QED
      BY <3>1, <1>1, <1>7 DEF IInv, TypeOK, MapInv, Named
  <2>3. \A x \in Sockets : said'[x] # NoId => joined'[x] \in Sockets
    BY <1>1, <1>2 DEF IInv, TypeOK, MapInv, Named
  <2> QED
    BY <2>1, <2>2, <2>3 DEF Named
<1>9. ContextOfMap'
  <2> SUFFICES ASSUME NEW x \in Sockets
               PROVE  ctx'[x] = "up" <=> \E j \in Ids : sessions'[j] = x
    BY DEF ContextOfMap
  <2>1. CASE x = s
    <3>1. ctx'[x] = "down"
      BY <2>1, <1>1 DEF IInv, TypeOK
    <3> QED
      BY <2>1, <3>1, <1>6, ServerAssumption
  <2>2. CASE x # s
    <3>1. \A j \in Ids : sessions'[j] = x <=> sessions[j] = x
      BY <2>2, <1>4, <1>6, ServerAssumption
    <3> QED
      BY <2>2, <3>1, <1>7 DEF IInv, MapInv, ContextOfMap
  <2> QED
    BY <2>1, <2>2
<1>10. HeldByItsOwn'
  <2> SUFFICES ASSUME NEW j \in Ids, sessions'[j] # NoOne
               PROVE  /\ said'[holder'[sessions'[j]]] = j
                      /\ conn'[holder'[sessions'[j]]] \in {"open", "closing"}
    BY DEF HeldByItsOwn, Listening
  <2>1. /\ sessions'[j] = sessions[j] /\ sessions[j] \in Sockets
        /\ sessions[j] # s
    BY <1>6 DEF IInv, TypeOK
  <2>2. /\ holder[sessions[j]] \in Sockets
        /\ said[holder[sessions[j]]] = j /\ Listening(holder[sessions[j]])
    BY <2>1 DEF IInv, MapInv, Named, HeldByItsOwn
  <2>3. holder[sessions[j]] # k
    BY <2>2, <1>1, ServerAssumption
  <2> QED
    BY <2>1, <2>2, <2>3, <1>1, <1>7 DEF IInv, TypeOK, Listening
<1> QED
  BY <1>8, <1>9, <1>10 DEF MapInv

\* The close of a socket takes the session of its id out of the map; a session
\* that holds the socket has that id.
LEMMA SocketClosesMap ==
  ASSUME IInv, NEW k \in Sockets, SocketCloses(k) PROVE MapInv'
<1> DEFINE s == IF said[k] = NoId THEN NoOne ELSE sessions[said[k]]
<1>1. ClosesWith(k, s)
  BY DEF SocketCloses
<1>2. UNCHANGED <<said, joined, holder, hpc>>
  BY <1>1 DEF ClosesWith
<1>3. \A x \in Sockets \ {k} : Listening(x) => Listening(x)'
  BY <1>1 DEF ClosesWith, IInv, TypeOK, Listening
<1>4. CASE s = NoOne
  <2>1. UNCHANGED <<sessions, ctx>>
    BY <1>1, <1>4 DEF ClosesWith, IInv, TypeOK
  <2>2. Named' /\ ContextOfMap'
    BY <1>2, <2>1 DEF IInv, MapInv, Named, ContextOfMap
  <2>3. HeldByItsOwn'
    <3> SUFFICES ASSUME NEW j \in Ids, sessions[j] # NoOne
                 PROVE  /\ said[holder[sessions[j]]] = j
                        /\ conn'[holder[sessions[j]]] \in {"open", "closing"}
      BY <1>2, <2>1 DEF HeldByItsOwn, Listening
    <3>1. /\ holder[sessions[j]] \in Sockets
          /\ said[holder[sessions[j]]] = j /\ Listening(holder[sessions[j]])
      BY DEF IInv, MapInv, Named, HeldByItsOwn
    <3>2. holder[sessions[j]] # k
      BY <3>1, <1>4, ServerAssumption
    <3> QED
      BY <3>1, <3>2, <1>3 DEF Listening
  <2> QED
    BY <2>2, <2>3 DEF MapInv
<1>5. CASE s # NoOne
  <2>1. said[k] \in Ids /\ s \in Sockets /\ sessions[said[k]] = s
    BY <1>5 DEF IInv, TypeOK
  <2>2. \A j \in Ids : sessions[j] = s => j = said[k]
    BY <1>5, <2>1 DEF IInv, MapInv, Named
  <2> HIDE DEF s
  <2>3. sessions' = [sessions EXCEPT ![said[k]] = NoOne]
    BY <1>1, <1>5, <2>1, <2>2 DEF ClosesWith, IInv, TypeOK
  <2>4. ctx' = [ctx EXCEPT ![s] = "down"]
    BY <1>1, <1>5 DEF ClosesWith
  <2>5. \A x \in Sockets : said[x] # said[k] /\ Listening(x) => Listening(x)'
    BY <1>3
  <2> QED
    BY <1>2, <2>1, <2>3, <2>4, <2>5, MapWithout
<1> QED
  BY <1>4, <1>5

-----------------------------------------------------------------------------
(* The invariant.                                                          *)

\* Every step keeps the map in order.
LEMMA NextMap == ASSUME IInv, [Next]_vars PROVE MapInv'
<1>1. ASSUME NEW k \in Sockets, Connect(k) PROVE MapInv'
  <2>1. \A x \in Sockets : Listening(x) => Listening(x)'
    BY <1>1 DEF Connect, Listening, IInv, TypeOK
  <2> QED
    BY <1>1, <2>1, MapUntouched DEF Connect, wiring, sessionVars
<1>2. ASSUME NEW k \in Sockets, RefuseHandshake(k) PROVE MapInv'
  <2>1. \A x \in Sockets : Listening(x) => Listening(x)'
    BY <1>2 DEF RefuseHandshake, Listening, IInv, TypeOK
  <2> QED
    BY <1>2, <2>1, MapUntouched DEF RefuseHandshake, wiring, sessionVars
<1>3. ASSUME NEW k \in Sockets, DeviceSends(k) PROVE MapInv'
  BY <1>3, MapUntouched DEF DeviceSends, wiring, sessionVars, Listening
<1>4. ASSUME NEW k \in Sockets, Receive(k) PROVE MapInv'
  <2>1. hpc[k] = "wait" /\ UNCHANGED <<said, joined, holder>>
    BY <1>4 DEF Receive, wiring
  <2>2. CASE /\ hpc' = [hpc EXCEPT ![k] = "stepping"]
             /\ UNCHANGED <<sessionVars, conn>>
    <3>1. \A x \in Sockets : said[x] = NoId => hpc'[x] = hpc[x]
      BY <2>1, <2>2 DEF IInv, TypeOK, MapInv, Named
    <3> QED
      BY <2>1, <2>2, <3>1, MapUntouched DEF sessionVars, Listening
  <2>3. CASE Conclude(k)
    BY <2>1, <2>3, ConcludeMap
  <2> QED
    BY <1>4, <2>2, <2>3 DEF Receive
<1>5. ASSUME NEW k \in Sockets, StepAnswered(k) PROVE MapInv'
  <2>1. \A x \in Sockets : said[x] = NoId => hpc'[x] = hpc[x]
    BY <1>5 DEF StepAnswered, IInv, TypeOK, MapInv, Named
  <2> QED
    BY <1>5, <2>1, MapUntouched DEF StepAnswered, wiring, sessionVars, Listening
<1>6. ASSUME NEW k \in Sockets, Fails(k) \/ SignalDone(k) PROVE MapInv'
  BY <1>6, ConcludeMap DEF Fails, SignalDone, wiring
<1>7. ASSUME NEW k \in Sockets, CloseWindow(k) PROVE MapInv'
  <2>1. said[k] \in Ids
    BY <1>7 DEF CloseWindow, IInv, TypeOK, MapInv, Named
  <2>2. \A x \in Sockets : said[x] = NoId => hpc'[x] = hpc[x]
    BY <1>7 DEF CloseWindow, IInv, TypeOK, MapInv, Named
  <2> QED
    BY <1>7, <2>1, <2>2, CleanupMap DEF CloseWindow, wiring
<1>8. CASE Stop
  BY <1>8, MapUntouched DEF Stop, wiring, sessionVars, Listening
<1>9. CASE Stopped
  BY <1>9, ServerAssumption
     DEF Stopped, wiring, IInv, TypeOK, MapInv, Named, ContextOfMap, HeldByItsOwn
<1>10. CASE UNCHANGED vars
  BY <1>10, MapUntouched DEF vars, Listening
<1>11. \A k \in Sockets : MayUse[k] \subseteq Ids
  BY ServerAssumption
<1> QED
  BY <1>1, <1>2, <1>3, <1>4, <1>5, <1>6, <1>7, <1>8, <1>9, <1>10, <1>11,
     HelloMap, HelloUnhandledMap, SocketClosesMap DEF Next, Handler, Over

\* The types and the map together are an invariant of the server.
THEOREM ServerCorrect == Spec => []IInv
<1>1. Init => IInv
  BY InitTypes, InitMap DEF IInv
<1>2. IInv /\ [Next]_vars => IInv'
  BY NextTypes, NextMap DEF IInv, MapInv
<1> QED
  BY <1>1, <1>2, PTL DEF Spec

\* Type correctness, for any number of devices, ids and frames.
THEOREM ServerTypeCorrect == Spec => []TypeOK
  BY ServerCorrect, PTL DEF IInv

\* No context leaks, none is used by the map after its shutdown, however many
\* devices share an id and in whatever order handlers and sockets end.
THEOREM ContextCorrect == Spec => []ContextOfMap
  BY ServerCorrect, PTL DEF IInv, MapInv

\* Every session in the map holds a socket whose close will clean it up.
THEOREM HeldCorrect == Spec => []HeldByItsOwn
  BY ServerCorrect, PTL DEF IInv, MapInv

-----------------------------------------------------------------------------
(* A session whose id is used once.                                        *)

\* Nobody takes back a hello, a closed socket or an ended handler.
OnlyForward ==
  \A x \in Sockets :
    /\ said[x] # NoId => said'[x] = said[x]
    /\ hpc[x] = "ended" => hpc'[x] = "ended"
    /\ conn[x] = "closed" => conn'[x] = "closed"

\* A context that is shut down is one of an id whose socket is closed or whose
\* handler has ended with this step.
EndedByItsOwn ==
  \A x \in Sockets : ctx'[x] = "down" /\ ctx[x] # "down" =>
    \E j \in Sockets : /\ said'[j] = said'[x] /\ said'[x] # NoId
                       /\ hpc'[j] = "ended" \/ conn'[j] = "closed"

\* cleanupSession, called by the last act of the handler of k.
LEMMA CleanupEnds ==
  ASSUME IInv, NEW k \in Sockets, hpc[k] \notin {"idle", "ended"},
         CleanupSession(said[k]), hpc' = [hpc EXCEPT ![k] = "ended"],
         UNCHANGED said
  PROVE  OnlyForward /\ EndedByItsOwn
<1>1. said[k] \in Ids
  BY DEF IInv, TypeOK, MapInv, Named
<1>2. OnlyForward
  BY <1>1 DEF OnlyForward, CleanupSession, IInv, TypeOK
<1>3. EndedByItsOwn
  <2> SUFFICES ASSUME NEW x \in Sockets, ctx'[x] = "down", ctx[x] # "down"
               PROVE  said[k] = said[x] /\ hpc'[k] = "ended"
    BY <1>1, ServerAssumption DEF EndedByItsOwn
  <2>1. sessions[said[k]] = x
    BY <1>1 DEF CleanupSession, IInv, TypeOK
  <2> QED
    BY <2>1, <1>1, ServerAssumption DEF IInv, TypeOK, MapInv, Named
<1> QED
  BY <1>2, <1>3

\* A handler that ends, with or without the cleanup.
LEMMA ConcludeEnds ==
  ASSUME IInv, NEW k \in Sockets, hpc[k] \notin {"idle", "ended"}, Conclude(k),
         UNCHANGED said
  PROVE  OnlyForward /\ EndedByItsOwn
<1>1. CASE intent[k] = "dkg"
  <2>1. hpc' = [hpc EXCEPT ![k] = "window"] /\ UNCHANGED <<ctx, conn>>
    BY <1>1 DEF Conclude, sessionVars
  <2> QED
    BY <2>1 DEF OnlyForward, EndedByItsOwn, IInv, TypeOK
<1>2. CASE intent[k] # "dkg"
  BY <1>2, CleanupEnds DEF Conclude
<1> QED
  BY <1>1, <1>2

\* Every step goes forward only, and shuts only those contexts down.
LEMMA NextEnds == ASSUME IInv, [Next]_vars PROVE OnlyForward /\ EndedByItsOwn
<1>1. ASSUME NEW k \in Sockets, Connect(k) PROVE OnlyForward /\ EndedByItsOwn
  BY <1>1 DEF Connect, wiring, sessionVars, OnlyForward, EndedByItsOwn, IInv, TypeOK
<1>2. ASSUME NEW k \in Sockets, RefuseHandshake(k)
      PROVE  OnlyForward /\ EndedByItsOwn
  BY <1>2 DEF RefuseHandshake, wiring, sessionVars, OnlyForward, EndedByItsOwn,
              IInv, TypeOK
<1>3. ASSUME NEW k \in Sockets, NEW i \in Ids, Hello(k, i)
      PROVE  OnlyForward /\ EndedByItsOwn
  <2> DEFINE s == SessionFor(k, i)
  <2>1. s \in Sockets
    BY SessionForTypes DEF IInv
  <2> HIDE DEF s
  <2>2. /\ said[k] = NoId /\ said' = [said EXCEPT ![k] = i]
        /\ ctx' = [ctx EXCEPT ![s] = "up"]
        /\ hpc' = [hpc EXCEPT ![k] = "stepping"] /\ UNCHANGED conn
    BY <1>3 DEF Hello, Register, s
  <2>3. hpc[k] = "idle"
    BY <2>2 DEF IInv, MapInv, Named
  <2> QED
    BY <2>1, <2>2, <2>3 DEF OnlyForward, EndedByItsOwn, IInv, TypeOK
<1>4. ASSUME NEW k \in Sockets, NEW i \in Ids, HelloUnhandled(k, i)
      PROVE  OnlyForward /\ EndedByItsOwn
  <2> DEFINE s == SessionFor(k, i)
  <2>1. s \in Sockets /\ (s = k \/ sessions[i] = s)
    BY DEF IInv, TypeOK, SessionFor
  <2>2. s # k => said[s] = i
    BY <2>1, ServerAssumption DEF IInv, MapInv, Named
  <2>3. /\ Listening(k) /\ said[k] = NoId /\ said' = [said EXCEPT ![k] = i]
        /\ ctx' = [ctx EXCEPT ![s] = "down"]
        /\ hpc' = [hpc EXCEPT ![k] = "ended"]
        /\ conn' = [conn EXCEPT ![k] = "closing"]
    BY <1>4 DEF HelloUnhandled, Register
  <2> HIDE DEF s
  <2>4. OnlyForward
    BY <2>3 DEF OnlyForward, Listening, IInv, TypeOK
  <2>5. said'[k] = i /\ said'[s] = i /\ hpc'[k] = "ended" /\ i # NoId
    BY <2>1, <2>2, <2>3, ServerAssumption DEF IInv, TypeOK
  <2>6. \A x \in Sockets : ctx'[x] = "down" /\ ctx[x] # "down" => x = s
    BY <2>3 DEF IInv, TypeOK
  <2> QED
    BY <2>4, <2>5, <2>6 DEF EndedByItsOwn
<1>5. ASSUME NEW k \in Sockets, SocketCloses(k) PROVE OnlyForward /\ EndedByItsOwn
  <2> DEFINE s == IF said[k] = NoId THEN NoOne ELSE sessions[said[k]]
  <2>1. ClosesWith(k, s)
    BY <1>5 DEF SocketCloses
  <2>2. s # NoOne => said[k] \in Ids /\ said[s] = said[k]
    BY DEF IInv, TypeOK, MapInv, Named
  <2> HIDE DEF s
  <2>3. conn'[k] = "closed" /\ UNCHANGED <<said, hpc>>
    BY <2>1 DEF ClosesWith, IInv, TypeOK
  <2>4. \A x \in Sockets : conn[x] = "closed" => conn'[x] = "closed"
    BY <2>1 DEF ClosesWith, IInv, TypeOK
  <2>5. \A x \in Sockets : ctx'[x] = "down" /\ ctx[x] # "down" => x = s /\ s # NoOne
    BY <2>1 DEF ClosesWith, IInv, TypeOK
  <2> QED
    BY <2>2, <2>3, <2>4, <2>5, ServerAssumption DEF OnlyForward, EndedByItsOwn
<1>6. ASSUME NEW k \in Sockets, DeviceSends(k) PROVE OnlyForward /\ EndedByItsOwn
  BY <1>6 DEF DeviceSends, wiring, sessionVars, OnlyForward, EndedByItsOwn
<1>7. ASSUME NEW k \in Sockets, Receive(k) PROVE OnlyForward /\ EndedByItsOwn
  <2>1. hpc[k] = "wait" /\ UNCHANGED said
    BY <1>7 DEF Receive, wiring
  <2>2. CASE Conclude(k)
    BY <2>1, <2>2, ConcludeEnds
  <2>3. CASE hpc' = [hpc EXCEPT ![k] = "stepping"] /\ UNCHANGED <<sessionVars, conn>>
    BY <2>1, <2>3 DEF sessionVars, OnlyForward, EndedByItsOwn, IInv, TypeOK
  <2> QED
    BY <1>7, <2>2, <2>3 DEF Receive
<1>8. ASSUME NEW k \in Sockets, StepAnswered(k) PROVE OnlyForward /\ EndedByItsOwn
  BY <1>8 DEF StepAnswered, wiring, sessionVars, OnlyForward, EndedByItsOwn,
              IInv, TypeOK
<1>9. ASSUME NEW k \in Sockets, Fails(k) \/ SignalDone(k)
      PROVE  OnlyForward /\ EndedByItsOwn
  BY <1>9, ConcludeEnds DEF Fails, SignalDone, wiring
<1>10. ASSUME NEW k \in Sockets, CloseWindow(k) PROVE OnlyForward /\ EndedByItsOwn
  BY <1>10, CleanupEnds DEF CloseWindow, wiring
<1>11. CASE Stop
  BY <1>11 DEF Stop, wiring, sessionVars, OnlyForward, EndedByItsOwn
<1>12. CASE Stopped
  <2>1. ASSUME NEW x \in Sockets, ctx[x] = "up" PROVE FALSE
    <3>1. PICK i \in Ids : sessions[i] = x
      BY <2>1 DEF IInv, MapInv, ContextOfMap
    <3>2. sessions[i] # NoOne
      BY <3>1, ServerAssumption
    <3>3. holder[sessions[i]] \in Sockets /\ Listening(holder[sessions[i]])
      BY <3>2 DEF IInv, MapInv, Named, HeldByItsOwn
    <3> QED
      BY <1>12, <3>3 DEF Stopped
  <2> QED
    BY <1>12, <2>1 DEF Stopped, wiring, OnlyForward, EndedByItsOwn, IInv, TypeOK
<1>13. CASE UNCHANGED vars
  BY <1>13 DEF vars, OnlyForward, EndedByItsOwn
<1>14. \A k \in Sockets : MayUse[k] \subseteq Ids
  BY ServerAssumption
<1> QED
  BY <1>1, <1>2, <1>3, <1>4, <1>5, <1>6, <1>7, <1>8, <1>9, <1>10, <1>11,
     <1>12, <1>13, <1>14 DEF Next, Handler, Over

\* Who is alone now was alone before, if it had said hello before.
LEMMA AloneBefore ==
  ASSUME OnlyForward, NEW k \in Sockets, said[k] # NoId, Alone(k)' PROVE Alone(k)
  BY DEF OnlyForward, Alone

\* Devices with ids of their own never end each other's sessions, whatever all
\* the others do.
THEOREM SparesCorrect == Spec => []SparesOthers
<1>1. Init => SparesOthers
  BY DEF Init, SparesOthers
<1>2. IInv /\ SparesOthers /\ [Next]_vars => SparesOthers'
  <2> SUFFICES ASSUME IInv, SparesOthers, [Next]_vars,
                      NEW k \in Sockets, Alone(k)', ctx'[k] = "down"
               PROVE  hpc'[k] = "ended" \/ conn'[k] = "closed"
    BY DEF SparesOthers
  <2>1. OnlyForward /\ EndedByItsOwn
    BY NextEnds
  <2>2. CASE ctx[k] = "down"
    <3>1. said[k] # NoId
      BY <2>2 DEF IInv, MapInv, Named
    <3>2. Alone(k)
      BY <3>1, <2>1, AloneBefore
    <3> QED
      BY <3>2, <2>1, <2>2 DEF SparesOthers, OnlyForward
  <2>3. CASE ctx[k] # "down"
    BY <2>1, <2>3 DEF EndedByItsOwn, Alone
  <2> QED
    BY <2>2, <2>3
<1> QED
  BY <1>1, <1>2, ServerCorrect, PTL DEF Spec

-----------------------------------------------------------------------------
(* Its frames.                                                             *)

\* Sessions, routes and strays stay within one id.
OneId ==
  /\ \A j \in Sockets : said[j] # NoId => said[joined[j]] = said[j]
  /\ \A k \in Sockets : route[k] # NoOne => said[route[k]] = said[k] /\ said[k] # NoId
  /\ \A j, r \in Sockets : <<j, r>> \in strays =>
       j # r /\ said[j] = said[r] /\ said[j] # NoId

\* Before its hello a socket has no frames.
NoFrames(k) == posted[k] = 0 /\ heard[k] = <<>> /\ queue[k] = <<>>

\* What the device of k has sent, p frames, was heard (h) or is in the queue (q),
\* in order.
Fits(k, h, q, p) ==
  /\ Len(h) + Len(q) = p
  /\ \A n \in 1 .. Len(h) : h[n] = <<k, n>>
  /\ \A n \in 1 .. Len(q) : q[n] = <<k, Len(h) + n>>

InOrder(k) == Fits(k, heard[k], queue[k], posted[k])

Frames ==
  \A k \in Sockets : /\ said[k] = NoId => NoFrames(k)
                     /\ Alone(k) => InOrder(k)

\* The initial state has no frames.
LEMMA InitFrames == ASSUME Init PROVE OneId /\ Frames
  BY DEF Init, OneId, Frames, NoFrames, Alone

\* What a handler sends goes to a socket of its id.
LEMMA TellOneId ==
  ASSUME IInv, OneId, NEW k \in Sockets, said[k] # NoId,
         Tell(k) \/ UNCHANGED strays, UNCHANGED <<said, joined, route>>
  PROVE  OneId'
<1>1. joined[k] \in Sockets
  BY DEF IInv, MapInv, Named
<1>2. ASSUME NEW j \in Sockets, NEW r \in Sockets, <<j, r>> \in strays'
      PROVE  j # r /\ said[j] = said[r] /\ said[j] # NoId
  <2>1. CASE <<j, r>> \in strays
    BY <2>1 DEF OneId
  <2>2. CASE <<j, r>> \notin strays
    <3>1. j = k /\ r = route[joined[k]] /\ r # k
      BY <1>2, <2>2 DEF Tell
    <3> QED
      BY <3>1, <1>1, ServerAssumption DEF OneId
  <2> QED
    BY <2>1, <2>2
<1> QED
  BY <1>2 DEF OneId

\* A hello puts its socket with those of its id.
LEMMA RegisterOneId ==
  ASSUME IInv, OneId, NEW k \in Sockets, NEW i \in Ids,
         Register(k, i, SessionFor(k, i))
  PROVE  OneId'
<1> DEFINE s == SessionFor(k, i)
<1>1. s \in Sockets /\ (s = k \/ sessions[i] = s)
  BY DEF IInv, TypeOK, SessionFor
<1>2. s # k => said[s] = i
  BY <1>1, ServerAssumption DEF IInv, MapInv, Named
<1>3. /\ said[k] = NoId /\ said' = [said EXCEPT ![k] = i]
      /\ joined' = [joined EXCEPT ![k] = s]
      /\ route' = [route EXCEPT ![s] = k] /\ UNCHANGED strays
  BY DEF Register, traffic
<1> HIDE DEF s
<1>4. /\ said'[k] = i /\ said'[s] = i /\ i # NoId
      /\ \A x \in Sockets \ {k} : said'[x] = said[x]
  BY <1>1, <1>2, <1>3, ServerAssumption DEF IInv, TypeOK
<1>5. ASSUME NEW j \in Sockets, said'[j] # NoId PROVE said'[joined'[j]] = said'[j]
  <2>1. CASE j = k
    BY <2>1, <1>3, <1>4 DEF IInv, TypeOK
  <2>2. CASE j # k
    <3>1. joined'[j] = joined[j] /\ said[joined[j]] = said[j] /\ said[j] # NoId
      BY <2>2, <1>3, <1>4, <1>5 DEF OneId, IInv, TypeOK
    <3>2. joined[j] \in Sockets \ {k}
      BY <3>1, <1>3 DEF IInv, MapInv, Named
    <3> QED
      BY <3>1, <3>2, <2>2, <1>4
  <2> QED
    BY <2>1, <2>2
<1>6. ASSUME NEW x \in Sockets, route'[x] # NoOne
      PROVE  said'[route'[x]] = said'[x] /\ said'[x] # NoId
  <2>1. CASE x = s
    BY <2>1, <1>1, <1>3, <1>4 DEF IInv, TypeOK
  <2>2. CASE x # s
    <3>1. /\ route'[x] = route[x] /\ route[x] \in Sockets
          /\ said[route[x]] = said[x] /\ said[x] # NoId
      BY <2>2, <1>3, <1>6 DEF OneId, IInv, TypeOK
    <3> QED
      BY <3>1, <1>3, <1>4
  <2> QED
    BY <2>1, <2>2
<1>7. ASSUME NEW j \in Sockets, NEW r \in Sockets, <<j, r>> \in strays'
      PROVE  j # r /\ said'[j] = said'[r] /\ said'[j] # NoId
  BY <1>7, <1>3, <1>4 DEF OneId
<1> QED
  BY <1>5, <1>6, <1>7 DEF OneId

\* Every step stays within one id.
LEMMA NextOneId == ASSUME IInv, OneId, [Next]_vars PROVE OneId'
<1>1. CASE UNCHANGED <<said, joined, route, strays>>
  BY <1>1 DEF OneId
<1>2. ASSUME NEW k \in Sockets, NEW i \in Ids, Hello(k, i) \/ HelloUnhandled(k, i)
      PROVE  OneId'
  BY <1>2, RegisterOneId DEF Hello, HelloUnhandled
<1>3. ASSUME NEW k \in Sockets, SocketCloses(k) PROVE OneId'
  BY <1>3 DEF SocketCloses, ClosesWith, traffic, OneId
<1>4. ASSUME NEW k \in Sockets, StepAnswered(k) \/ SignalDone(k) PROVE OneId'
  <2>1. said[k] # NoId
    BY <1>4 DEF StepAnswered, SignalDone, IInv, MapInv, Named
  <2> QED
    BY <1>4, <2>1, TellOneId DEF StepAnswered, SignalDone, wiring
<1>5. \A k \in Sockets : MayUse[k] \subseteq Ids
  BY ServerAssumption
<1> QED
  BY <1>1, <1>2, <1>3, <1>4, <1>5
     DEF Next, Handler, Over, Stop, Stopped, Connect, RefuseHandshake,
         DeviceSends, Receive, Fails, CloseWindow, wiring, traffic, vars

\* Another frame is sent.
LEMMA SentFits ==
  ASSUME NEW k \in Sockets, NEW h \in Seq(Sockets \X Nat),
         NEW q \in Seq(Sockets \X Nat), NEW p \in Nat, Fits(k, h, q, p)
  PROVE  Fits(k, h, Append(q, <<k, p + 1>>), p + 1)
<1> DEFINE r == Append(q, <<k, p + 1>>)
<1>1. /\ Len(r) = Len(q) + 1 /\ r[Len(q) + 1] = <<k, p + 1>>
      /\ \A n \in 1 .. Len(q) : r[n] = q[n]
  OBVIOUS
<1>2. Len(h) \in Nat /\ Len(q) \in Nat /\ Len(h) + Len(q) = p
  BY DEF Fits
<1> HIDE DEF r
<1>3. ASSUME NEW n \in 1 .. Len(r) PROVE r[n] = <<k, Len(h) + n>>
  <2>1. CASE n \in 1 .. Len(q)
    BY <2>1, <1>1 DEF Fits
  <2>2. CASE n = Len(q) + 1
    <3>1. p + 1 = Len(h) + n
      BY <2>2, <1>2
    <3> QED
      BY <2>2, <3>1, <1>1
  <2> QED
    BY <2>1, <2>2, <1>1, <1>2
<1>4. Len(h) + Len(r) = p + 1
  BY <1>1, <1>2
<1> QED
  BY <1>3, <1>4 DEF Fits, r

\* The oldest frame is taken.
LEMMA TakenFits ==
  ASSUME NEW k \in Sockets, NEW h \in Seq(Sockets \X Nat),
         NEW q \in Seq(Sockets \X Nat), NEW p \in Nat, Fits(k, h, q, p), q # <<>>
  PROVE  Fits(k, Append(h, Head(q)), Tail(q), p)
<1> DEFINE g == Append(h, Head(q))
           t == Tail(q)
<1>1. Len(h) \in Nat /\ Len(q) \in Nat /\ Len(q) > 0 /\ Len(h) + Len(q) = p
  BY DEF Fits
<1>2. Head(q) = <<k, Len(h) + 1>>
  BY <1>1 DEF Fits
<1>3. /\ Len(t) = Len(q) - 1
      /\ \A n \in 1 .. Len(q) - 1 : t[n] = q[n + 1]
  BY <1>1
<1>4. /\ Len(g) = Len(h) + 1 /\ g[Len(h) + 1] = Head(q)
      /\ \A n \in 1 .. Len(h) : g[n] = h[n]
  <2>1. Head(q) \in Sockets \X Nat
    OBVIOUS
  <2> QED
    BY <2>1
<1> HIDE DEF g, t
<1>5. Len(g) + Len(t) = p
  <2>1. Len(g) = Len(h) + 1 /\ Len(t) = Len(q) - 1
    BY <1>3, <1>4
  <2> QED
    BY <2>1, <1>1
<1>6. ASSUME NEW n \in 1 .. Len(g) PROVE g[n] = <<k, n>>
  <2>1. CASE n \in 1 .. Len(h)
    BY <2>1, <1>4 DEF Fits
  <2>2. CASE n = Len(h) + 1
    BY <2>2, <1>2, <1>4
  <2> QED
    BY <2>1, <2>2, <1>1, <1>4
<1>7. ASSUME NEW n \in 1 .. Len(t) PROVE t[n] = <<k, Len(g) + n>>
  <2>1. n + 1 \in 1 .. Len(q) /\ n \in 1 .. Len(q) - 1
    BY <1>1, <1>3
  <2>2. q[n + 1] = <<k, Len(h) + (n + 1)>>
    BY <2>1 DEF Fits
  <2>3. Len(h) + (n + 1) = Len(g) + n
    BY <2>1, <1>1, <1>4
  <2> QED
    BY <2>1, <2>2, <2>3, <1>3
<1> QED
  BY <1>5, <1>6, <1>7 DEF Fits, g, t

\* A device's frame joins the queue of the session its socket joined.
LEMMA SendsFrames ==
  ASSUME IInv, OneId, Frames, NEW j \in Sockets, DeviceSends(j) PROVE Frames'
<1>1. /\ said[j] # NoId /\ joined[j] \in Sockets /\ said[joined[j]] = said[j]
      /\ posted' = [posted EXCEPT ![j] = @ + 1]
      /\ queue' = [queue EXCEPT ![joined[j]] = Append(@, <<j, posted[j] + 1>>)]
      /\ UNCHANGED <<said, heard>>
  BY DEF DeviceSends, wiring, OneId, IInv, MapInv, Named
<1>2. ASSUME NEW k \in Sockets, said[k] = NoId PROVE NoFrames(k)'
  <2>1. k # j /\ k # joined[j]
    BY <1>1, <1>2
  <2> QED
    BY <2>1, <1>1, <1>2 DEF Frames, NoFrames, IInv, TypeOK
<1>3. ASSUME NEW k \in Sockets, Alone(k) PROVE InOrder(k)'
  <2>1. CASE k # j
    <3>1. k # joined[j]
      BY <2>1, <1>1, <1>3 DEF Alone
    <3>2. posted'[k] = posted[k] /\ queue'[k] = queue[k] /\ heard'[k] = heard[k]
      BY <2>1, <3>1, <1>1 DEF IInv, TypeOK
    <3> QED
      BY <3>2, <1>3 DEF Frames, InOrder
  <2>2. CASE k = j
    <3>1. joined[k] = k
      BY <2>2, <1>1, <1>3 DEF Alone
    <3>2. /\ posted'[k] = posted[k] + 1 /\ heard'[k] = heard[k]
          /\ queue'[k] = Append(queue[k], <<k, posted[k] + 1>>)
      BY <2>2, <3>1, <1>1 DEF IInv, TypeOK
    <3>3. /\ queue[k] \in Seq(Sockets \X Nat) /\ heard[k] \in Seq(Sockets \X Nat)
          /\ posted[k] \in Nat /\ Fits(k, heard[k], queue[k], posted[k])
      BY <1>3 DEF Frames, InOrder, IInv, TypeOK
    <3>4. Fits(k, heard[k], Append(queue[k], <<k, posted[k] + 1>>), posted[k] + 1)
      BY <3>3, SentFits
    <3> QED
      BY <3>2, <3>4 DEF InOrder
  <2> QED
    BY <2>1, <2>2
<1> QED
  BY <1>1, <1>2, <1>3 DEF Frames, Alone

\* A handler takes the head of that queue.
LEMMA ReceiveFrames ==
  ASSUME IInv, OneId, Frames, NEW j \in Sockets, Receive(j) PROVE Frames'
<1>1. said[j] # NoId /\ joined[j] \in Sockets /\ said[joined[j]] = said[j]
  BY DEF Receive, OneId, IInv, MapInv, Named
<1>2. /\ queue[joined[j]] # <<>>
      /\ heard' = [heard EXCEPT ![j] = Append(@, Head(queue[joined[j]]))]
      /\ queue' = [queue EXCEPT ![joined[j]] = Tail(@)]
      /\ UNCHANGED <<said, posted>>
  BY DEF Receive, wiring
<1>3. ASSUME NEW k \in Sockets, said[k] = NoId PROVE NoFrames(k)'
  <2>1. k # j /\ k # joined[j]
    BY <1>1, <1>3
  <2> QED
    BY <2>1, <1>2, <1>3 DEF Frames, NoFrames, IInv, TypeOK
<1>4. ASSUME NEW k \in Sockets, Alone(k) PROVE InOrder(k)'
  <2>1. CASE k # j
    <3>1. k # joined[j]
      BY <2>1, <1>1, <1>4 DEF Alone
    <3>2. posted'[k] = posted[k] /\ queue'[k] = queue[k] /\ heard'[k] = heard[k]
      BY <2>1, <3>1, <1>2 DEF IInv, TypeOK
    <3> QED
      BY <3>2, <1>4 DEF Frames, InOrder
  <2>2. CASE k = j
    <3>1. joined[k] = k
      BY <2>2, <1>1, <1>4 DEF Alone
    <3>2. /\ posted'[k] = posted[k] /\ queue[k] # <<>>
          /\ heard'[k] = Append(heard[k], Head(queue[k]))
          /\ queue'[k] = Tail(queue[k])
      BY <2>2, <3>1, <1>2 DEF IInv, TypeOK
    <3>3. /\ queue[k] \in Seq(Sockets \X Nat) /\ heard[k] \in Seq(Sockets \X Nat)
          /\ posted[k] \in Nat /\ Fits(k, heard[k], queue[k], posted[k])
      BY <1>4 DEF Frames, InOrder, IInv, TypeOK
    <3>4. Fits(k, Append(heard[k], Head(queue[k])), Tail(queue[k]), posted[k])
      BY <3>2, <3>3, TakenFits
    <3> QED
      BY <3>2, <3>4 DEF InOrder
  <2> QED
    BY <2>1, <2>2
<1> QED
  BY <1>2, <1>3, <1>4 DEF Frames, Alone

\* Every step keeps the frames of such a session in order.
LEMMA NextFrames == ASSUME IInv, OneId, Frames, [Next]_vars PROVE Frames'
<1>1. CASE UNCHANGED <<posted, heard, queue>>
  <2>1. OnlyForward
    BY NextEnds
  <2>2. ASSUME NEW k \in Sockets, said'[k] = NoId PROVE NoFrames(k)'
    BY <1>1, <2>1, <2>2 DEF OnlyForward, Frames, NoFrames
  <2>3. ASSUME NEW k \in Sockets, Alone(k)' PROVE InOrder(k)'
    <3>1. CASE said[k] # NoId
      BY <1>1, <2>1, <2>3, <3>1, AloneBefore DEF Frames, InOrder
    <3>2. CASE said[k] = NoId
      <4>1. posted'[k] = 0 /\ heard'[k] = <<>> /\ queue'[k] = <<>>
        BY <1>1, <3>2 DEF Frames, NoFrames
      <4>2. Fits(k, <<>>, <<>>, 0)
        BY DEF Fits
      <4> QED
        BY <4>1, <4>2 DEF InOrder
    <3> QED
      BY <3>1, <3>2
  <2> QED
    BY <2>2, <2>3 DEF Frames
<1>2. ASSUME NEW k \in Sockets, DeviceSends(k) PROVE Frames'
  BY <1>2, SendsFrames
<1>3. ASSUME NEW k \in Sockets, Receive(k) PROVE Frames'
  BY <1>3, ReceiveFrames
<1> QED
  BY <1>1, <1>2, <1>3
     DEF Next, Handler, Over, Stop, Stopped, Connect, RefuseHandshake, Hello,
         HelloUnhandled, Register, SocketCloses, ClosesWith, StepAnswered, Fails,
         SignalDone, CloseWindow, traffic, vars

\* A handler whose device chose an id of its own hears that device, frame by
\* frame in the order sent, and speaks to no other.
THEOREM FramesCorrect == Spec => []OwnFrames
<1>1. Init => OneId /\ Frames
  BY InitFrames
<1>2. IInv /\ OneId /\ Frames /\ [Next]_vars => (OneId /\ Frames)'
  BY NextOneId, NextFrames
<1>3. IInv /\ OneId /\ Frames => OwnFrames
  <2> SUFFICES ASSUME IInv, OneId, Frames, NEW k \in Sockets, Alone(k)
               PROVE  /\ heard[k] = [n \in 1 .. Len(heard[k]) |-> <<k, n>>]
                      /\ \A j \in Sockets : {<<k, j>>, <<j, k>>} \cap strays = {}
    BY DEF OwnFrames
  <2>1. /\ heard[k] \in Seq(Sockets \X Nat)
        /\ \A n \in 1 .. Len(heard[k]) : heard[k][n] = <<k, n>>
    BY DEF IInv, TypeOK, Frames, InOrder, Fits
  <2>2. heard[k] = [n \in 1 .. Len(heard[k]) |-> <<k, n>>]
    <3> DEFINE h == heard[k]
    <3>1. h = [n \in 1 .. Len(h) |-> h[n]]
      BY <2>1
    <3> QED
      BY <2>1, <3>1
  <2>3. \A j \in Sockets : <<k, j>> \notin strays /\ <<j, k>> \notin strays
    BY DEF OneId, Alone
  <2> QED
    BY <2>2, <2>3
<1> QED
  BY <1>1, <1>2, <1>3, ServerCorrect, PTL DEF Spec
=============================================================================
