---------------------------- MODULE DualDkgProofs ---------------------------
(***************************************************************************)
(* Safety of the loop that runs both parties in one process, for any       *)
(* protocol in which the two parties take turns: no message is lost in the *)
(* single outbound slot, the loop ends because both sessions are done and  *)
(* for no other reason, and a run that succeeds gives out both keys.       *)
(*                                                                         *)
(* The argument: at most one message is on its way at any time, because    *)
(* who has spoken waits for the answer; and every Step that answers        *)
(* without having come to the end has moved its protocol on, so that the   *)
(* bound of the loop is never reached.                                     *)
(***************************************************************************)
EXTENDS DualDkg, DkgSessionProofs

\* The last answer, on its way from the session that gave it to the transport.
InTransit(p) ==
  IF dpc = "step" /\ turn = p /\ cpc[p] = "idle" THEN Opt(reply[p].msg) ELSE <<>>

\* What is on its way to q, the oldest first.
Flight(q) ==
  inboundQueue[q] \o (Opt(inbound[q]) \o
    (queues[q] \o (InTransit(Peer(q)) \o Opt(outbound[Peer(q)]))))

\* Where the driver is, and what it may rely on there.
DualTypeOK ==
  /\ queues \in [Sessions -> Seq(Nat \ {NoMsg})]
  /\ turn \in Sessions
  /\ dpc \in DriverPC
  /\ done \in [Sessions -> BOOLEAN]
  /\ rounds \in Nat

InStep(p) == dpc = "step" /\ turn = p

Stage ==
  /\ \A p \in Sessions :
       /\ cpc[p] \in {"push", "check"} => InStep(p)
       /\ cpc[p] = "finwait" => dpc = "finwait" /\ turn = p
       /\ done[p] => workerDone[p] /\ ~InStep(p)
       /\ dpc \notin {"loop", "step", "failed"} => done[p]
       /\ dpc = "ok" => issued[p] = 1
  /\ dpc = "release" => issued[turn] = 1
  /\ dpc \in {"finalize", "finwait", "release"} /\ turn = Server => issued[Device] = 1

\* Both are at the same point, and nothing is on its way.
Level ==
  /\ Conversation(script[Device], script[Server])
  /\ \A p \in Sessions : Flight(p) = <<>> /\ Len(consumed[p]) = sent[Peer(p)]

\* What p sent last is all that is on its way.
Leads(p) ==
  /\ Ahead(script[p], script[Peer(p)])
  /\ Flight(p) = <<>> /\ Flight(Peer(p)) = <<sent[p]>>
  /\ Len(consumed[p]) = sent[Peer(p)]
  /\ Len(consumed[Peer(p)]) + 1 = sent[p]

Lockstep == Level \/ \E p \in Sessions : Leads(p)

\* How often p has been stepped, up to the answers the driver has dealt with.
Steps(p) == IF p = First /\ turn # First THEN rounds + 1 ELSE rounds

\* The driver has still to deal with an answer that is not the last one.
Moved(p) == InStep(p) /\ cpc[p] = "idle" /\ reply[p].state \notin {"done", "error"}

\* Each of them handed a message out or came to a new wait.
Progress(p) ==
  dpc \in {"loop", "step"} /\ ~done[p] =>
    Steps(p) + (IF Moved(p) THEN 1 ELSE 0) <= Len(handed[p]) + seen[p]

DualInv ==
  /\ SessionInv
  /\ \A p \in Sessions : Work(p, LoopBound) /\ Accounted(p)
  /\ DualTypeOK /\ Stage /\ Lockstep
  /\ \A p \in Sessions : Progress(p)

-----------------------------------------------------------------------------
(* The two parties, and the steps of their sessions.                       *)

LEMMA PeerOf ==
  ASSUME NEW p \in Sessions
  PROVE  /\ Peer(p) \in Sessions /\ Peer(p) # p /\ Peer(Peer(p)) = p
         /\ \A q \in Sessions : q = p \/ q = Peer(p)
         /\ Device \in Sessions /\ Server \in Sessions
BY DualAssumption DEF Peer

\* What the driver does to a session is to call it, or nothing.
LEMMA DualNextIsStep ==
  ASSUME DualTypeOK, [DualNext]_dualVars
  PROVE  UNCHANGED allVars \/ \E p \in Sessions : DkgStep(p)
<1>1. ASSUME NEW p \in Sessions, DriverStep(p) PROVE AnyCall(p) /\ UNCHANGED dkgVars
  <2>1. CASE queues[p] = <<>>
    BY <1>1, <2>1 DEF DriverStep, AnyCall, NoMsg
  <2>2. CASE queues[p] # <<>>
    <3>1. Head(queues[p]) \in Nat
      BY <2>2, HeadTailProperties DEF DualTypeOK
    <3>2. QED BY <1>1, <2>2, <3>1 DEF DriverStep, AnyCall
  <2>3. QED BY <2>1, <2>2
<1>2. ASSUME NEW p \in Sessions, DriverFinalize(p) \/ DriverRelease(p) \/ Collect(p)
      PROVE  AnyCall(p) /\ UNCHANGED dkgVars
  BY <1>2 DEF DriverFinalize, DriverRelease, Collect, AnyCall
<1>3. ASSUME NEW p \in Sessions,
             DriverSkip(p) \/ DriverStepped(p) \/ DriverThrows(p) \/ DriverNext(p)
      PROVE  UNCHANGED allVars
  BY <1>3 DEF DriverSkip, DriverStepped, DriverThrows, DriverNext
<1>4. ASSUME LeaveLoop \/ Over \/ UNCHANGED dualVars PROVE UNCHANGED allVars
  BY <1>4 DEF LeaveLoop, Over, dualVars
<1>5. QED BY <1>1, <1>2, <1>3, <1>4 DEF DualNext, Driver, DkgStep

\* What every driven session keeps, and how much it can do.
SessionsKept == SessionInv /\ \A p \in Sessions : Work(p, LoopBound) /\ Accounted(p)

LEMMA SessionsStep ==
  ASSUME SessionsKept, DualTypeOK, [DualNext]_dualVars
  PROVE  SessionsKept'
<1> USE DEF SessionsKept
<1>1. CASE UNCHANGED allVars
  <2>1. SessionInv'
    BY <1>1, SessionStutter
  <2>2. ASSUME NEW p \in Sessions PROVE Work(p, LoopBound)' /\ Accounted(p)'
    <3>1. UNCHANGED <<sent, waitRequestId, wpc, script, handed, outbound, seen,
                      cpc, snapshot>>
      BY <1>1 DEF allVars, vars, members, workerVars, callerVars, history
    <3>2. QED BY <3>1 DEF Work, Accounted
  <2>3. QED BY <2>1, <2>2
<1>2. ASSUME NEW p \in Sessions, DkgStep(p) PROVE SessionsKept'
  <2>1. Inv /\ DkgInv
    BY DEF SessionInv
  <2>2. LoopBound \in Nat
    BY DualAssumption
  <2>3. SessionInv'
    BY <1>2, SessionStep
  <2>4. ASSUME NEW q \in Sessions PROVE Work(q, LoopBound)' /\ Accounted(q)'
    BY <1>2, <2>1, <2>2, WorkStep, AccountedStep
  <2>5. QED BY <2>3, <2>4
<1>3. QED BY <1>1, <1>2, DualNextIsStep

\* The kinds of step: of a session, of the driver calling one, of the driver
\* alone.
InSession(p) == SessionMoves(p) /\ UNCHANGED driverVars

LEMMA InSessionEffect ==
  ASSUME SessionsKept, NEW p \in Sessions, InSession(p)
  PROVE  /\ UNCHANGED <<queues, turn, dpc, done, rounds>>
         /\ \A q \in Sessions : workerDone[q] => workerDone'[q]
         /\ \A q \in Sessions : issued[q] = 1 => issued'[q] = 1
         /\ Says(p) \/ Hears(p) =>
              UNCHANGED <<cpc, inbound, reply, issued, handed, seen>>
         /\ \/ Says(p) \/ Hears(p)
            \/ /\ UNCHANGED <<script, sent, consumed>>
               /\ \/ HandsOut(p) /\ seen' = [seen EXCEPT ![p] = waitRequestId[p]]
                  \/ Returns(p) /\ seen' = [seen EXCEPT ![p] = waitRequestId[p]]
                  \/ Pushes(p) \/ Stays(p)
BY SessionMovesEffect DEF InSession, SessionsKept, driverVars

\* What the driver does.
DriverMoves(p) ==
  \/ DriverStep(p) \/ DriverSkip(p) \/ DriverStepped(p) \/ DriverThrows(p)
  \/ DriverFinalize(p) \/ DriverRelease(p) \/ DriverNext(p) \/ Collect(p)

LEMMA DualStepKinds ==
  ASSUME [DualNext]_dualVars
  PROVE  \/ \E p \in Sessions : InSession(p) \/ DriverMoves(p)
         \/ LeaveLoop
         \/ UNCHANGED dualVars
BY DEF DualNext, Driver, DriverMoves, InSession, SessionMoves, Over, driverVars

-----------------------------------------------------------------------------
(* Where the driver is.                                                    *)

LEMMA DualTypeStep ==
  ASSUME SessionsKept, DualTypeOK, [DualNext]_dualVars
  PROVE  DualTypeOK'
<1> USE DEF DualTypeOK, DriverPC
<1>1. CASE UNCHANGED driverVars
  BY <1>1 DEF driverVars
<1>2. ASSUME NEW p \in Sessions, DriverStep(p) PROVE DualTypeOK'
  <2>1. queues' \in [Sessions -> Seq(Nat \ {NoMsg})]
    <3>1. CASE UNCHANGED queues
      BY <3>1
    <3>2. CASE queues[p] # <<>> /\ queues' = [queues EXCEPT ![p] = Tail(@)]
      <4>1. Tail(queues[p]) \in Seq(Nat \ {NoMsg})
        BY <3>2, HeadTailProperties
      <4>2. QED BY <3>2, <4>1
    <3>3. QED BY <1>2, <3>1, <3>2 DEF DriverStep
  <2>2. QED BY <1>2, <2>1 DEF DriverStep
<1>3. ASSUME NEW p \in Sessions, DriverStepped(p) PROVE DualTypeOK'
  <2>1. reply[p].msg \in Nat
    BY DEF SessionsKept, SessionInv, Inv, TypeOK
  <2>2. queues' \in [Sessions -> Seq(Nat \ {NoMsg})]
    <3>1. CASE reply[p].msg = NoMsg
      BY <1>3, <3>1 DEF DriverStepped
    <3>2. CASE reply[p].msg # NoMsg
      <4>1. Append(queues[Peer(p)], reply[p].msg) \in Seq(Nat \ {NoMsg})
        BY <2>1, <3>2, PeerOf, AppendProperties
      <4>2. QED BY <1>3, <3>2, <4>1 DEF DriverStepped
    <3>3. QED BY <3>1, <3>2
  <2>3. QED BY <1>3, <2>2, PeerOf DEF DriverStepped, Advance
<1>4. ASSUME NEW p \in Sessions, DriverSkip(p) PROVE DualTypeOK'
  BY <1>4, PeerOf DEF DriverSkip, Advance
<1>5. ASSUME NEW p \in Sessions,
             \/ DriverThrows(p) \/ DriverFinalize(p) \/ DriverRelease(p)
             \/ DriverNext(p)
      PROVE  DualTypeOK'
  BY <1>5, PeerOf DEF DriverThrows, DriverFinalize, DriverRelease, DriverNext
<1>6. CASE LeaveLoop
  BY <1>6, DualAssumption DEF LeaveLoop
<1>7. QED
  BY <1>1, <1>2, <1>3, <1>4, <1>5, <1>6, DualStepKinds
     DEF DriverMoves, InSession, Collect, dualVars

\* The loop is not left before both sessions are done.
LEMMA LeftWhenDone ==
  ASSUME DualInv, LeaveLoop, NEW p \in Sessions
  PROVE  done[p]
<1>1. rounds >= LoopBound \/ \A q \in Sessions : done[q]
  BY DualAssumption DEF LeaveLoop, LoopGoesOn, DualInv, DualTypeOK
<1>2. SUFFICES ASSUME ~done[p], rounds >= LoopBound PROVE FALSE
  BY <1>1
<1>3. Steps(p) <= Len(handed[p]) + seen[p]
  <2>1. ~Moved(p) /\ dpc = "loop"
    BY DEF LeaveLoop, Moved, InStep
  <2>2. Steps(p) \in Nat
    BY DEF Steps, DualInv, DualTypeOK
  <2>3. QED BY <1>2, <2>1, <2>2 DEF DualInv, Progress
<1>4. Steps(p) = rounds
  BY DEF LeaveLoop, Steps
<1>5. Len(handed[p]) + seen[p] < LoopBound
  <2>1. /\ sent[p] \in Nat /\ waitRequestId[p] \in Nat /\ seen[p] \in Nat
        /\ handed[p] \in Seq(Nat) /\ outbound[p] \in Nat
    BY DEF DualInv, SessionInv, Inv, TypeOK
  <2>2. Len(Opt(outbound[p])) \in Nat /\ Len(handed[p]) \in Nat
    <3>1. Len(Opt(outbound[p])) = IF outbound[p] = NoMsg THEN 0 ELSE 1
      BY <2>1, OptType
    <3>2. QED BY <2>1, <3>1
  <2>3. Work(p, LoopBound) /\ Accounted(p)
    BY DEF DualInv
  <2>4. Len(handed[p]) + Len(Opt(outbound[p])) <= sent[p] /\ seen[p] <= waitRequestId[p]
    BY <2>3 DEF Accounted
  <2>5. sent[p] + waitRequestId[p] < LoopBound
    BY <2>3 DEF Work
  <2>6. \A h, o, e, n, w \in Nat :
          h + o <= n /\ e <= w /\ n + w < LoopBound => h + e < LoopBound
    BY DualAssumption
  <2>7. QED BY <2>1, <2>2, <2>4, <2>5, <2>6
<1>6. Len(handed[p]) + seen[p] \in Nat /\ rounds \in Nat /\ LoopBound \in Nat
  <2>1. handed[p] \in Seq(Nat) /\ seen[p] \in Nat
    BY DEF DualInv, SessionInv, Inv, TypeOK
  <2>2. rounds \in Nat /\ LoopBound \in Nat
    BY DualAssumption DEF DualInv, DualTypeOK
  <2>3. QED BY <2>1, <2>2
<1>7. QED BY <1>2, <1>3, <1>4, <1>5, <1>6

\* What a step of a session leaves of where it is in a call.
LEMMA StageSession ==
  ASSUME DualInv, NEW p \in Sessions, InSession(p)
  PROVE  Stage'
<1>1. /\ UNCHANGED <<queues, turn, dpc, done, rounds>>
      /\ \A q \in Sessions : workerDone[q] => workerDone'[q]
      /\ \A q \in Sessions : issued[q] = 1 => issued'[q] = 1
  BY InSessionEffect DEF DualInv, SessionsKept
<1>2. ASSUME NEW q \in Sessions
      PROVE  /\ cpc'[q] \in {"push", "check"} => cpc[q] \in {"push", "check"}
             /\ cpc'[q] = "finwait" => cpc[q] = "finwait"
  <2>1. cpc \in [Sessions -> CallerPC]
    BY DEF DualInv, SessionInv, Inv, TypeOK
  <2>2. \/ UNCHANGED cpc
        \/ HandsOut(p) \/ Returns(p) \/ Pushes(p) \/ Stays(p)
    BY InSessionEffect DEF DualInv, SessionsKept
  <2>3. \/ UNCHANGED cpc
        \/ cpc' = [cpc EXCEPT ![p] = "idle"]
        \/ cpc[p] = "push" /\ cpc' = [cpc EXCEPT ![p] = "check"]
        \/ cpc' = [cpc EXCEPT ![p] = "join"]
        \/ cpc' = [cpc EXCEPT ![p] = "freed"]
    BY <2>2 DEF HandsOut, Returns, Pushes, Stays
  <2>4. QED BY <2>1, <2>3
<1>3. QED BY <1>1, <1>2, PeerOf DEF DualInv, DualTypeOK, Stage, InStep

LEMMA StageStep ==
  ASSUME DualInv, [DualNext]_dualVars
  PROVE  Stage'
<1> USE DEF DualInv, DualTypeOK, Stage, InStep
<1>1. CASE UNCHANGED dualVars
  BY <1>1 DEF dualVars, allVars, vars, members, callerVars, dkgVars, driverVars
<1>2. cpc \in [Sessions -> CallerPC]
  BY DEF SessionInv, Inv, TypeOK
<1>3. ASSUME NEW p \in Sessions, InSession(p) PROVE Stage'
  BY <1>3, StageSession
<1>4. ASSUME NEW p \in Sessions, DriverStep(p) PROVE Stage'
  <2>1. /\ \E to \in {"push", "check"} : cpc' = [cpc EXCEPT ![p] = to]
        /\ UNCHANGED <<workerDone, issued>>
    BY <1>4 DEF DriverStep, StepCall, CallerGoes, members, dkgVars
  <2>2. /\ dpc = "loop" /\ dpc' = "step" /\ turn = p /\ ~done[p]
        /\ UNCHANGED <<turn, done>>
    BY <1>4 DEF DriverStep
  <2>3. QED BY <1>2, <2>1, <2>2
<1>5. ASSUME NEW p \in Sessions, DriverSkip(p) PROVE Stage'
  <2>1. UNCHANGED <<cpc, workerDone, issued>>
    BY <1>5 DEF DriverSkip, allVars, vars, members, callerVars, dkgVars
  <2>2. QED BY <1>5, <2>1 DEF DriverSkip
<1>6. ASSUME NEW p \in Sessions, DriverStepped(p) PROVE Stage'
  <2>1. UNCHANGED <<cpc, workerDone, issued>>
    BY <1>6 DEF DriverStepped, allVars, vars, members, callerVars, dkgVars
  <2>2. reply[p].state = "done" => workerDone[p]
    BY DEF SessionInv, DoneIsFinal
  <2>3. QED BY <1>6, <2>1, <2>2 DEF DriverStepped
<1>7. ASSUME NEW p \in Sessions, DriverThrows(p) PROVE Stage'
  <2>1. UNCHANGED <<cpc, workerDone, issued>>
    BY <1>7 DEF DriverThrows, allVars, vars, members, callerVars, dkgVars
  <2>2. QED BY <1>7, <2>1 DEF DriverThrows
<1>8. ASSUME NEW p \in Sessions, DriverFinalize(p) PROVE Stage'
  <2>1. /\ cpc' = [cpc EXCEPT ![p] = "finwait"] /\ UNCHANGED <<workerDone, issued>>
    BY <1>8 DEF DriverFinalize, FinalizeCall, CallerGoes, members, dkgVars
  <2>2. QED BY <1>2, <1>8, <2>1 DEF DriverFinalize
<1>9. ASSUME NEW p \in Sessions, DriverRelease(p) PROVE Stage'
  <2>1. cpc' = [cpc EXCEPT ![p] = "free"] /\ UNCHANGED <<workerDone, issued>>
    BY <1>9 DEF DriverRelease, FreeCall, CallerGoes, members, dkgVars
  <2>2. issued[p] = 1
    BY <1>9 DEF DriverRelease, SessionInv, DkgInv, KeyPhase
  <2>3. QED BY <1>2, <1>9, <2>1, <2>2 DEF DriverRelease
<1>10. ASSUME NEW p \in Sessions, DriverNext(p) PROVE Stage'
  <2>1. UNCHANGED <<cpc, workerDone, issued>>
    BY <1>10 DEF DriverNext, allVars, vars, members, callerVars, dkgVars
  <2>2. QED BY <1>10, <2>1, DualAssumption DEF DriverNext
<1>11. ASSUME NEW p \in Sessions, Collect(p) PROVE Stage'
  <2>1. cpc' = [cpc EXCEPT ![p] = "free"] /\ UNCHANGED <<workerDone, issued>>
    BY <1>11 DEF Collect, FreeCall, CallerGoes, members, dkgVars
  <2>2. dpc = "failed" /\ UNCHANGED <<dpc, turn, done>>
    BY <1>11 DEF Collect, driverVars
  <2>3. QED BY <1>2, <2>1, <2>2
<1>12. CASE LeaveLoop
  <2>1. UNCHANGED <<cpc, workerDone, issued>>
    BY <1>12 DEF LeaveLoop, allVars, vars, members, callerVars, dkgVars
  <2>2. \A p \in Sessions : done[p]
    BY <1>12, LeftWhenDone
  <2>3. dpc = "loop" /\ dpc' = "finalize" /\ turn' = Device /\ UNCHANGED done
    BY <1>12 DEF LeaveLoop
  <2>4. QED BY <2>1, <2>2, <2>3, DualAssumption
<1>13. QED
  BY <1>1, <1>3, <1>4, <1>5, <1>6, <1>7, <1>8, <1>9, <1>10, <1>11, <1>12,
     DualStepKinds DEF DriverMoves

-----------------------------------------------------------------------------
(* What is on its way.                                                     *)

LEMMA FlightType ==
  ASSUME DualInv, NEW q \in Sessions
  PROVE  /\ inboundQueue[q] \in Seq(Nat) /\ Opt(inbound[q]) \in Seq(Nat)
         /\ queues[q] \in Seq(Nat) /\ InTransit(q) \in Seq(Nat)
         /\ Opt(outbound[q]) \in Seq(Nat)
         /\ outbound[q] \in Nat /\ inbound[q] \in Nat /\ reply[q].msg \in Nat
<1>1. /\ inboundQueue[q] \in Seq(Nat) /\ inbound[q] \in Nat /\ outbound[q] \in Nat
      /\ reply[q].msg \in Nat
  BY DEF DualInv, SessionInv, Inv, TypeOK
<1>2. queues[q] \in Seq(Nat)
  <2>1. queues[q] \in Seq(Nat \ {NoMsg})
    BY DEF DualInv, DualTypeOK
  <2>2. QED BY <2>1
<1>3. InTransit(q) \in Seq(Nat)
  BY <1>1, OptType DEF InTransit
<1>4. QED BY <1>1, <1>2, <1>3, OptType

\* What is on its way to q without what has arrived.
Coming(q) ==
  Opt(inbound[q]) \o (queues[q] \o (InTransit(Peer(q)) \o Opt(outbound[Peer(q)])))

LEMMA FlightEmpty ==
  ASSUME DualInv, NEW q \in Sessions
  PROVE  /\ Coming(q) \in Seq(Nat)
         /\ Flight(q) = inboundQueue[q] \o Coming(q)
         /\ Flight(q) = <<>> =>
              /\ inboundQueue[q] = <<>> /\ Opt(inbound[q]) = <<>> /\ queues[q] = <<>>
              /\ InTransit(Peer(q)) = <<>> /\ Opt(outbound[Peer(q)]) = <<>>
<1> DEFINE o == Opt(outbound[Peer(q)])  t == InTransit(Peer(q))
           u == queues[q]  i == Opt(inbound[q])  n == inboundQueue[q]
<1>1. /\ n \in Seq(Nat) /\ i \in Seq(Nat) /\ u \in Seq(Nat) /\ t \in Seq(Nat)
      /\ o \in Seq(Nat)
  BY FlightType, PeerOf
<1>2. Flight(q) = n \o (i \o (u \o (t \o o))) /\ Coming(q) = i \o (u \o (t \o o))
  BY DEF Flight, Coming
<1> HIDE DEF o, t, u, i, n
<1>3. /\ t \o o \in Seq(Nat) /\ u \o (t \o o) \in Seq(Nat)
      /\ i \o (u \o (t \o o)) \in Seq(Nat)
  <2>1. t \o o \in Seq(Nat)
    BY <1>1, ConcatProperties
  <2>2. u \o (t \o o) \in Seq(Nat)
    BY <1>1, <2>1, ConcatProperties
  <2>3. QED BY <1>1, <2>1, <2>2, ConcatProperties
<1>4. ASSUME Flight(q) = <<>> PROVE n = <<>> /\ i = <<>> /\ u = <<>> /\ t = <<>> /\ o = <<>>
  <2>1. n = <<>> /\ i \o (u \o (t \o o)) = <<>>
    BY <1>1, <1>2, <1>3, <1>4, BothEmpty
  <2>2. i = <<>> /\ u \o (t \o o) = <<>>
    BY <1>1, <1>3, <2>1, BothEmpty
  <2>3. u = <<>> /\ t \o o = <<>>
    BY <1>1, <1>3, <2>2, BothEmpty
  <2>4. QED BY <1>1, <2>1, <2>2, <2>3, BothEmpty
<1>5. QED BY <1>2, <1>3, <1>4 DEF n, i, u, t, o

\* Neither party says or hears anything, and no message is lost or added.
Quiet ==
  /\ UNCHANGED <<script, sent, consumed>>
  /\ \A q \in Sessions : Flight(q)' = Flight(q)

\* Nothing moves.
LEMMA FlightSame ==
  ASSUME UNCHANGED <<inboundQueue, inbound, queues, outbound>>,
         \A p \in Sessions : InTransit(p)' = InTransit(p)
  PROVE  \A q \in Sessions : Flight(q)' = Flight(q)
BY PeerOf DEF Flight

\* The calls of the sessions pass messages on.
LEMMA QuietSession ==
  ASSUME DualInv, NEW p \in Sessions, InSession(p), ~Says(p), ~Hears(p)
  PROVE  Quiet
<1>1. /\ UNCHANGED <<queues, turn, dpc, done, rounds, script, sent, consumed>>
      /\ HandsOut(p) \/ Returns(p) \/ Pushes(p) \/ Stays(p)
  BY InSessionEffect DEF DualInv, SessionsKept
<1>2. /\ cpc \in [Sessions -> CallerPC] /\ inbound \in [Sessions -> Nat]
      /\ reply \in [Sessions -> [state : Answers, msg : Nat]]
      /\ outbound \in [Sessions -> Nat] /\ inboundQueue \in [Sessions -> Seq(Nat)]
  BY DEF DualInv, SessionInv, Inv, TypeOK
<1>3. Peer(p) \in Sessions /\ Peer(p) # p
  BY PeerOf
<1>4. CASE HandsOut(p)
  <2>1. PICK state \in {"continue", "done"} :
          reply' = [reply EXCEPT ![p] = Answer(state, outbound[p])]
    BY <1>4 DEF HandsOut
  <2>2. /\ cpc[p] = "check" /\ cpc' = [cpc EXCEPT ![p] = "idle"] /\ outbound[p] # NoMsg
        /\ outbound' = [outbound EXCEPT ![p] = NoMsg]
        /\ UNCHANGED <<inboundQueue, inbound>>
    BY <1>4 DEF HandsOut
  <2>3. InStep(p)
    BY <2>2 DEF DualInv, Stage
  <2>4. InTransit(p) = <<>> /\ InTransit(p)' = Opt(outbound[p])
    BY <1>1, <1>2, <2>1, <2>2, <2>3 DEF InTransit, InStep, Answer
  <2>5. InTransit(Peer(p))' = InTransit(Peer(p))
    BY <1>1, <1>2, <1>3, <2>1, <2>2 DEF InTransit
  <2>6. Flight(p)' = Flight(p)
    BY <1>1, <1>2, <1>3, <2>2, <2>5 DEF Flight
  <2>7. Flight(Peer(p))' = Flight(Peer(p))
    <3>1. Opt(outbound'[p]) = <<>> /\ Opt(outbound[p]) \in Seq(Nat)
      BY <1>2, <2>2, OptType DEF Opt
    <3>2. InTransit(p)' \o Opt(outbound'[p]) = InTransit(p) \o Opt(outbound[p])
      BY <2>4, <3>1
    <3>3. QED BY <1>1, <1>3, <2>2, <3>2, PeerOf DEF Flight
  <2>8. QED BY <1>1, <2>6, <2>7, PeerOf DEF Quiet
<1>5. CASE Returns(p)
  <2>1. PICK state \in Answers : reply' = [reply EXCEPT ![p] = Answer(state, NoMsg)]
    BY <1>5 DEF Returns
  <2>2. /\ cpc[p] \in {"check", "finwait"} /\ cpc' = [cpc EXCEPT ![p] = "idle"]
        /\ UNCHANGED <<inboundQueue, inbound, outbound>>
    BY <1>5 DEF Returns
  <2>3. InTransit(p) = <<>> /\ InTransit(p)' = <<>>
    BY <1>1, <1>2, <2>1, <2>2 DEF InTransit, Answer, Opt
  <2>4. InTransit(Peer(p))' = InTransit(Peer(p))
    BY <1>1, <1>2, <1>3, <2>1, <2>2 DEF InTransit
  <2>5. QED BY <1>1, <2>2, <2>3, <2>4, PeerOf, FlightSame DEF Quiet
<1>6. CASE Pushes(p)
  <2>1. /\ cpc[p] = "push" /\ cpc' = [cpc EXCEPT ![p] = "check"]
        /\ inboundQueue' = [inboundQueue EXCEPT ![p] = Append(inboundQueue[p], inbound[p])]
        /\ inbound' = [inbound EXCEPT ![p] = NoMsg]
        /\ UNCHANGED <<outbound, reply>>
    BY <1>6 DEF Pushes
  <2>2. InTransit(p)' = InTransit(p) /\ InTransit(Peer(p))' = InTransit(Peer(p))
    BY <1>1, <1>2, <1>3, <2>1 DEF InTransit
  <2>3. Flight(Peer(p))' = Flight(Peer(p))
    BY <1>1, <1>2, <1>3, <2>1, <2>2, PeerOf DEF Flight
  <2>4. Flight(p)' = Flight(p)
    <3> DEFINE r == queues[p] \o (InTransit(Peer(p)) \o Opt(outbound[Peer(p)]))
    <3>1. r \in Seq(Nat)
      BY FlightType, PeerOf, ConcatProperties
    <3>2. inbound[p] # NoMsg
      BY <2>1 DEF DualInv, SessionInv, CallInv
    <3>3. Append(inboundQueue[p], inbound[p]) \o (Opt(NoMsg) \o r)
            = inboundQueue[p] \o (Opt(inbound[p]) \o r)
      <4>1. inboundQueue[p] \in Seq(Nat) /\ inbound[p] \in Nat
        BY <1>2
      <4> HIDE DEF r
      <4>2. QED BY <3>1, <3>2, <4>1, PassedOne
    <3>4. inboundQueue'[p] = Append(inboundQueue[p], inbound[p]) /\ inbound'[p] = NoMsg
      BY <1>2, <2>1
    <3>5. QED BY <1>1, <2>1, <2>2, <3>3, <3>4 DEF Flight
  <2>5. QED BY <1>1, <2>3, <2>4, PeerOf DEF Quiet
<1>7. CASE Stays(p)
  <2>1. InTransit(p)' = InTransit(p) /\ InTransit(Peer(p))' = InTransit(Peer(p))
    BY <1>1, <1>2, <1>3, <1>7 DEF Stays, InTransit
  <2>2. QED BY <1>1, <1>7, <2>1, PeerOf, FlightSame DEF Stays, Quiet
<1>8. QED BY <1>1, <1>4, <1>5, <1>6, <1>7

\* So does the driver.
LEMMA QuietStep ==
  ASSUME DualInv, NEW p \in Sessions, DriverStep(p)
  PROVE  Quiet
<1>1. /\ dpc = "loop" /\ dpc' = "step" /\ turn = p /\ UNCHANGED turn
      /\ cpc[p] = "idle" /\ UNCHANGED <<outbound, inboundQueue, script, sent, consumed>>
  BY DEF DriverStep, StepCall, CallerGoes, members, workerVars, history
<1>2. cpc \in [Sessions -> CallerPC] /\ inbound \in [Sessions -> Nat]
  BY DEF DualInv, SessionInv, Inv, TypeOK
<1>3. cpc'[p] # "idle"
  BY <1>2 DEF DriverStep, StepCall, CallerGoes
<1>4. \A q \in Sessions : InTransit(q) = <<>> /\ InTransit(q)' = <<>>
  BY <1>1, <1>3 DEF InTransit
<1>5. inbound[p] = NoMsg
  BY <1>1 DEF DualInv, SessionInv, CallInv
<1>6. CASE StepCall(p, NoMsg) /\ UNCHANGED queues
  <2>1. UNCHANGED inbound
    BY <1>2, <1>5, <1>6 DEF StepCall
  <2>2. QED BY <1>1, <1>4, <1>6, <2>1, FlightSame DEF Quiet
<1>7. CASE /\ queues[p] # <<>> /\ StepCall(p, Head(queues[p]))
           /\ queues' = [queues EXCEPT ![p] = Tail(@)]
  <2>1. inbound' = [inbound EXCEPT ![p] = Head(queues[p])]
    BY <1>7 DEF StepCall
  <2>2. queues \in [Sessions -> Seq(Nat \ {NoMsg})]
    BY DEF DualInv, DualTypeOK
  <2>3. inbound'[p] = Head(queues[p]) /\ queues'[p] = Tail(queues[p])
    BY <1>2, <1>7, <2>1, <2>2
  <2>4. Head(queues[p]) \in Nat \ {NoMsg}
    BY <1>7, <2>2, HeadTailProperties
  <2>5. Flight(p)' = Flight(p)
    <3> DEFINE r == InTransit(Peer(p)) \o Opt(outbound[Peer(p)])
    <3>1. queues[p] \in Seq(Nat) /\ r \in Seq(Nat)
      BY FlightType, PeerOf, ConcatProperties
    <3>2. Opt(Head(queues[p])) \o (Tail(queues[p]) \o r) = Opt(NoMsg) \o (queues[p] \o r)
      <4> HIDE DEF r
      <4>1. QED BY <1>7, <2>4, <3>1, TakenOut
    <3>3. InTransit(Peer(p))' = InTransit(Peer(p))
      BY <1>4, PeerOf
    <3>4. QED BY <1>1, <1>5, <2>3, <3>2, <3>3 DEF Flight
  <2>6. ASSUME NEW q \in Sessions, q # p PROVE Flight(q)' = Flight(q)
    <3>1. inbound'[q] = inbound[q] /\ queues'[q] = queues[q]
      BY <1>2, <1>7, <2>1, <2>2, <2>6
    <3>2. InTransit(Peer(q))' = InTransit(Peer(q))
      BY <1>4, PeerOf
    <3>3. QED BY <1>1, <3>1, <3>2 DEF Flight
  <2>7. QED BY <1>1, <2>5, <2>6 DEF Quiet
<1>8. QED BY <1>6, <1>7 DEF DriverStep

LEMMA QuietStepped ==
  ASSUME DualInv, NEW p \in Sessions, DriverStepped(p)
  PROVE  Quiet
<1>1. UNCHANGED <<outbound, inboundQueue, inbound, cpc, reply, script, sent, consumed>>
  BY DEF DriverStepped, allVars, vars, members, workerVars, callerVars, history
<1>2. /\ dpc = "step" /\ dpc' = "loop" /\ turn = p /\ cpc[p] = "idle"
      /\ Peer(p) \in Sessions /\ Peer(p) # p
  BY PeerOf DEF DriverStepped
<1>3. /\ InTransit(p) = Opt(reply[p].msg) /\ InTransit(Peer(p)) = <<>>
      /\ \A q \in Sessions : InTransit(q)' = <<>>
  BY <1>2 DEF InTransit
<1>4. CASE reply[p].msg = NoMsg
  <2>1. InTransit(p) = <<>> /\ queues' = queues
    BY <1>3, <1>4 DEF DriverStepped, Opt
  <2>2. \A q \in Sessions : InTransit(q)' = InTransit(q)
    BY <1>3, <2>1, PeerOf
  <2>3. QED BY <1>1, <2>1, <2>2, FlightSame DEF Quiet
<1>5. CASE reply[p].msg # NoMsg
  <2> DEFINE q == Peer(p)  m == reply[p].msg
  <2>1. q \in Sessions /\ Peer(q) = p
    BY PeerOf
  <2>2. queues' = [queues EXCEPT ![q] = Append(queues[q], m)]
    BY <1>5 DEF DriverStepped
  <2>3. queues \in [Sessions -> Seq(Nat \ {NoMsg})]
    BY DEF DualInv, DualTypeOK
  <2>4. queues'[q] = Append(queues[q], m) /\ queues'[p] = queues[p]
    BY <1>2, <2>1, <2>2, <2>3
  <2>5. Flight(q)' = Flight(q)
    <3>1. Append(queues[q], m) \o (Opt(NoMsg) \o Opt(outbound[p]))
            = queues[q] \o (Opt(m) \o Opt(outbound[p]))
      <4>1. /\ queues[q] \in Seq(Nat) /\ m \in Nat /\ m # NoMsg
            /\ Opt(outbound[p]) \in Seq(Nat)
        BY <1>5, <2>1, FlightType
      <4> HIDE DEF m, q
      <4>2. QED BY <4>1, PassedOne
    <3>2. InTransit(p)' = Opt(NoMsg)
      BY <1>3 DEF Opt
    <3>3. QED BY <1>1, <1>3, <2>1, <2>4, <3>1, <3>2 DEF Flight
  <2>6. Flight(p)' = Flight(p)
    <3>1. InTransit(q)' = InTransit(q)
      BY <1>3, <2>1
    <3>2. QED BY <1>1, <2>4, <3>1 DEF Flight
  <2>7. QED BY <1>1, <2>1, <2>5, <2>6, PeerOf DEF Quiet
<1>6. QED BY <1>4, <1>5

LEMMA QuietElse ==
  ASSUME DualInv
  PROVE  /\ \A p \in Sessions :
              \/ DriverSkip(p) \/ DriverThrows(p) \/ DriverFinalize(p)
              \/ DriverRelease(p) \/ DriverNext(p) \/ Collect(p)
              => Quiet
         /\ LeaveLoop \/ UNCHANGED dualVars => Quiet
<1>1. ASSUME NEW p \in Sessions,
             \/ DriverFinalize(p) \/ DriverRelease(p) \/ Collect(p)
      PROVE  Quiet
  <2>1. /\ UNCHANGED <<inboundQueue, inbound, queues, outbound, script, sent, consumed>>
        /\ dpc # "step" /\ dpc' # "step"
    BY <1>1 DEF DriverFinalize, DriverRelease, Collect, FinalizeCall, FreeCall,
       driverVars, members, workerVars, history
  <2>2. QED BY <2>1, FlightSame DEF InTransit, Quiet
<1>2. ASSUME UNCHANGED allVars
      PROVE  UNCHANGED <<inboundQueue, inbound, outbound, cpc, reply, script, sent,
                         consumed>>
  BY <1>2 DEF allVars, vars, members, workerVars, callerVars, history
<1>3. ASSUME NEW p \in Sessions, DriverThrows(p) PROVE Quiet
  <2>1. /\ UNCHANGED allVars /\ UNCHANGED <<queues, turn>>
        /\ dpc = "step" /\ dpc' # "step" /\ turn = p /\ reply[p].state = "error"
    BY <1>3 DEF DriverThrows
  <2>2. reply[p].msg = NoMsg
    BY <2>1 DEF DualInv, SessionInv, CallInv
  <2>3. \A q \in Sessions : InTransit(q) = <<>> /\ InTransit(q)' = <<>>
    BY <2>1, <2>2 DEF InTransit, Opt
  <2>4. QED BY <1>2, <2>1, <2>3, FlightSame DEF Quiet
<1>4. ASSUME UNCHANGED <<allVars, queues>>, dpc # "step", dpc' # "step" PROVE Quiet
  BY <1>2, <1>4, FlightSame DEF InTransit, Quiet
<1>5. ASSUME NEW p \in Sessions, DriverSkip(p) \/ DriverNext(p) PROVE Quiet
  BY <1>4, <1>5 DEF DriverSkip, DriverNext
<1>6. CASE LeaveLoop
  BY <1>4, <1>6 DEF LeaveLoop
<1>7. CASE UNCHANGED dualVars
  <2>1. UNCHANGED <<allVars, queues, turn, dpc>>
    BY <1>7 DEF dualVars, driverVars
  <2>2. QED BY <1>2, <2>1, FlightSame DEF InTransit, Quiet
<1>8. QED BY <1>1, <1>3, <1>5, <1>6, <1>7

\* Only a worker that sends or receives changes what is on its way.
LEMMA QuietUnless ==
  ASSUME DualInv, [DualNext]_dualVars
  PROVE  \/ \E p \in Sessions : InSession(p) /\ (Says(p) \/ Hears(p))
         \/ Quiet
BY DualStepKinds, QuietSession, QuietStep, QuietStepped, QuietElse DEF DriverMoves

-----------------------------------------------------------------------------
(* The conversation.                                                       *)

LEMMA LockstepQuiet ==
  ASSUME DualInv, Quiet
  PROVE  Lockstep'
BY PeerOf DEF Quiet, DualInv, Lockstep, Level, Leads

LEMMA LevelBothWays ==
  ASSUME DualInv, Level, NEW p \in Sessions
  PROVE  Conversation(script[p], script[Peer(p)])
<1>1. script[Device] \in Seq(Op) /\ script[Server] \in Seq(Op)
  BY PeerOf DEF DualInv, SessionInv, Inv, TypeOK, Op
<1>2. Conversation(script[Server], script[Device])
  BY <1>1, ConversationSymmetric DEF Level
<1>3. QED BY <1>2, DualAssumption DEF Level, Peer

\* A message is sent when both are at the same point, and nothing is on its way.
LEMMA SaysWhenLevel ==
  ASSUME DualInv, NEW p \in Sessions, InSession(p), Says(p)
  PROVE  Level /\ Leads(p)'
<1>1. /\ script \in [Sessions -> Seq(Op)] /\ sent \in [Sessions -> Nat]
      /\ outbound \in [Sessions -> Nat]
  BY DEF DualInv, SessionInv, Inv, TypeOK, Op
<1>2. Peer(p) \in Sessions /\ Peer(p) # p /\ Peer(Peer(p)) = p
  BY PeerOf
<1>3. ASSUME NEW r \in Sessions, Leads(r) PROVE FALSE
  <2>1. Ahead(script[r], script[Peer(r)])
    BY <1>3 DEF Leads
  <2>2. /\ ~(script[r] # <<>> /\ Head(script[r]) = "send")
        /\ script[Peer(r)] # <<>> /\ Head(script[Peer(r)]) # "send"
    BY <2>1, AheadSilent
  <2>3. QED BY <2>2, PeerOf DEF Says
<1>4. Level
  BY <1>3 DEF DualInv, Lockstep
<1>5. Ahead(script'[p], script'[Peer(p)])
  <2>1. Conversation(script[p], script[Peer(p)])
    BY <1>4, LevelBothWays
  <2>2. script'[p] = Tail(script[p]) /\ script'[Peer(p)] = script[Peer(p)]
    BY <1>1, <1>2 DEF Says
  <2>3. /\ script[p] \in Seq(Op) /\ script[Peer(p)] \in Seq(Op)
        /\ script[p] # <<>> /\ Head(script[p]) = "send"
    BY <1>1, <1>2 DEF Says
  <2>4. QED BY <2>1, <2>2, <2>3, ToSend
<1>6. /\ UNCHANGED <<queues, turn, dpc, cpc, inbound, reply, inboundQueue, consumed>>
      /\ \A r \in Sessions : InTransit(r)' = InTransit(r)
  <2>1. UNCHANGED <<queues, turn, dpc>>
    BY InSessionEffect DEF DualInv, SessionsKept
  <2>2. UNCHANGED <<inboundQueue, consumed>>
    BY DEF Says
  <2>3. UNCHANGED <<cpc, inbound, reply>>
    BY InSessionEffect DEF DualInv, SessionsKept
  <2>4. QED BY <2>1, <2>2, <2>3 DEF InTransit
<1>7. /\ sent'[p] = sent[p] + 1 /\ outbound'[p] = sent[p] + 1
      /\ sent'[Peer(p)] = sent[Peer(p)] /\ outbound'[Peer(p)] = outbound[Peer(p)]
  BY <1>1, <1>2 DEF Says
<1>8. Flight(p)' = <<>>
  BY <1>2, <1>4, <1>6, <1>7 DEF Flight, Level
<1>9. Flight(Peer(p))' = <<sent'[p]>>
  <2>1. Flight(Peer(p)) = <<>>
    BY <1>2, <1>4 DEF Level
  <2>2. /\ inboundQueue[Peer(p)] = <<>> /\ Opt(inbound[Peer(p)]) = <<>>
        /\ queues[Peer(p)] = <<>> /\ InTransit(p) = <<>>
    BY <1>2, <2>1, FlightEmpty
  <2>3. Opt(outbound'[p]) = <<sent'[p]>>
    <3>1. sent[p] + 1 # NoMsg
      BY <1>1 DEF NoMsg
    <3>2. QED BY <1>7, <3>1 DEF Opt
  <2>4. Flight(Peer(p))' = <<>> \o (<<>> \o (<<>> \o (<<>> \o <<sent'[p]>>)))
    BY <1>2, <1>6, <2>2, <2>3 DEF Flight
  <2>5. <<>> \o (<<>> \o (<<>> \o (<<>> \o <<sent'[p]>>))) = <<sent'[p]>>
    OBVIOUS
  <2>6. QED BY <2>4, <2>5
<1>10. Len(consumed'[p]) = sent'[Peer(p)] /\ Len(consumed'[Peer(p)]) + 1 = sent'[p]
  BY <1>2, <1>4, <1>6, <1>7 DEF Level
<1>11. QED BY <1>4, <1>5, <1>8, <1>9, <1>10 DEF Leads

\* What is heard is the one message on its way.
LEMMA HearsTheOther ==
  ASSUME DualInv, NEW p \in Sessions, InSession(p), Hears(p)
  PROVE  /\ Leads(Peer(p)) /\ Level'
         /\ consumed' = [consumed EXCEPT ![p] = Append(consumed[p], sent[Peer(p)])]
<1>1. /\ script \in [Sessions -> Seq(Op)] /\ sent \in [Sessions -> Nat]
      /\ inboundQueue \in [Sessions -> Seq(Nat)]
      /\ consumed \in [Sessions -> Seq(Nat)]
  BY DEF DualInv, SessionInv, Inv, TypeOK, Op
<1> DEFINE q == Peer(p)
<1>2. q \in Sessions /\ q # p /\ Peer(q) = p
  BY PeerOf
<1>3. Flight(p) # <<>>
  BY FlightEmpty DEF Hears
<1>4. Leads(q)
  BY <1>3, PeerOf DEF DualInv, Lockstep, Level, Leads
<1>5. Flight(p) = <<sent[q]>> /\ Flight(q) = <<>>
  BY <1>2, <1>4 DEF Leads
<1>6. /\ Head(inboundQueue[p]) = sent[q]
      /\ Tail(inboundQueue[p]) \o Coming(p) = <<>>
  <2>1. /\ inboundQueue[p] \in Seq(Nat) /\ inboundQueue[p] # <<>>
        /\ Coming(p) \in Seq(Nat) /\ inboundQueue[p] \o Coming(p) = <<sent[q]>>
    BY <1>1, <1>5, FlightEmpty DEF Hears
  <2>2. /\ Head(inboundQueue[p]) = Head(inboundQueue[p] \o Coming(p))
        /\ Tail(inboundQueue[p]) \o Coming(p) = Tail(inboundQueue[p] \o Coming(p))
    BY <2>1, Arrived
  <2>3. Head(<<sent[q]>>) = sent[q] /\ Tail(<<sent[q]>>) = <<>>
    OBVIOUS
  <2>4. QED BY <2>1, <2>2, <2>3
<1>7. consumed' = [consumed EXCEPT ![p] = Append(consumed[p], sent[q])]
  BY <1>6 DEF Hears
<1>8. /\ UNCHANGED <<queues, cpc, inbound, outbound, sent>>
      /\ \A r \in Sessions : InTransit(r)' = InTransit(r)
  <2>1. UNCHANGED <<queues, turn, dpc>>
    BY InSessionEffect DEF DualInv, SessionsKept
  <2>2. UNCHANGED <<outbound, sent>>
    BY DEF Hears
  <2>3. UNCHANGED <<cpc, inbound, reply>>
    BY InSessionEffect DEF DualInv, SessionsKept
  <2>4. QED BY <2>1, <2>2, <2>3 DEF InTransit
<1>9. inboundQueue'[p] = Tail(inboundQueue[p]) /\ inboundQueue'[q] = inboundQueue[q]
  BY <1>1, <1>2 DEF Hears
<1>10. Flight(p)' = <<>> /\ Flight(q)' = <<>>
  BY <1>2, <1>5, <1>6, <1>8, <1>9 DEF Flight, Coming
<1>11. Conversation(script'[Device], script'[Server])
  <2>1. Conversation(script[q], Tail(script[p]))
    BY <1>2, <1>4 DEF Leads, Ahead
  <2>2. script'[p] = Tail(script[p]) /\ script'[q] = script[q]
    BY <1>1, <1>2 DEF Hears
  <2>3. script[p] \in Seq(Op) /\ script[q] \in Seq(Op) /\ script[p] # <<>>
    BY <1>1, <1>2 DEF Hears
  <2>4. Tail(script[p]) \in Seq(Op)
    BY <2>3, HeadTailProperties
  <2>5. Conversation(script'[q], script'[p]) /\ Conversation(script'[p], script'[q])
    BY <2>1, <2>2, <2>3, <2>4, ConversationSymmetric
  <2>6. QED BY <2>5, DualAssumption DEF Peer
<1>12. Len(consumed'[p]) = sent'[q] /\ Len(consumed'[q]) = sent'[p]
  <2>1. Len(consumed[p]) + 1 = sent[q] /\ Len(consumed[q]) = sent[p]
    BY <1>2, <1>4 DEF Leads
  <2>2. /\ consumed'[p] = Append(consumed[p], sent[q]) /\ consumed'[q] = consumed[q]
        /\ consumed[p] \in Seq(Nat) /\ sent[q] \in Nat
    BY <1>1, <1>2, <1>7
  <2>3. Len(consumed'[p]) = Len(consumed[p]) + 1
    BY <2>2, AppendProperties
  <2>4. QED BY <1>8, <2>1, <2>2, <2>3
<1>13. \A r \in Sessions : Flight(r)' = <<>> /\ Len(consumed'[r]) = sent'[Peer(r)]
  BY <1>2, <1>10, <1>12, PeerOf
<1>14. QED BY <1>4, <1>7, <1>11, <1>13 DEF Level

LEMMA LockstepStep ==
  ASSUME DualInv, [DualNext]_dualVars
  PROVE  Lockstep'
<1>1. CASE Quiet
  BY <1>1, LockstepQuiet
<1>2. ASSUME NEW p \in Sessions, InSession(p), Says(p) PROVE Lockstep'
  BY <1>2, SaysWhenLevel DEF Lockstep
<1>3. ASSUME NEW p \in Sessions, InSession(p), Hears(p) PROVE Lockstep'
  BY <1>3, HearsTheOther DEF Lockstep
<1>4. QED BY <1>1, <1>2, <1>3, QuietUnless

-----------------------------------------------------------------------------
(* Every answer but the last one is worth something.                       *)

LEMMA CountType ==
  ASSUME DualInv, NEW q \in Sessions
  PROVE  /\ Len(handed[q]) \in Nat /\ seen[q] \in Nat /\ Steps(q) \in Nat
         /\ waitRequestId[q] \in Nat /\ snapshot[q] \in Nat
<1>1. /\ handed[q] \in Seq(Nat) /\ seen[q] \in Nat /\ waitRequestId[q] \in Nat
      /\ snapshot[q] \in Nat
  BY DEF DualInv, SessionInv, Inv, TypeOK
<1>2. Steps(q) \in Nat
  BY DEF Steps, DualInv, DualTypeOK
<1>3. QED BY <1>1, <1>2

LEMMA ProgressSession ==
  ASSUME DualInv, NEW p \in Sessions, InSession(p), NEW q \in Sessions
  PROVE  Progress(q)'
<1>1. UNCHANGED <<queues, turn, dpc, done, rounds>>
  BY InSessionEffect DEF DualInv, SessionsKept
<1>2. Steps(q)' = Steps(q) /\ InStep(q)' = InStep(q)
  BY <1>1 DEF Steps, InStep
<1>3. CASE UNCHANGED <<cpc[q], reply[q], handed[q], seen[q]>>
  BY <1>1, <1>2, <1>3 DEF DualInv, Progress, Moved
<1>4. CASE q # p
  <2>1. DkgStep(p) /\ Inv /\ DkgInv
    BY DEF InSession, SessionMoves, DkgStep, DualInv, SessionInv
  <2>2. QED BY <1>3, <1>4, <2>1, OthersAlone
<1>5. CASE q = p /\ UNCHANGED <<cpc, reply, handed, seen>>
  BY <1>3, <1>5
<1>6. CASE /\ q = p
           /\ \/ HandsOut(p) /\ seen' = [seen EXCEPT ![p] = waitRequestId[p]]
              \/ Returns(p) /\ seen' = [seen EXCEPT ![p] = waitRequestId[p]]
              \/ Pushes(p) \/ Stays(p)
  <2>1. /\ cpc \in [Sessions -> CallerPC] /\ seen \in [Sessions -> Nat]
        /\ reply \in [Sessions -> [state : Answers, msg : Nat]]
        /\ handed \in [Sessions -> Seq(Nat)] /\ outbound[p] \in Nat
    BY DEF DualInv, SessionInv, Inv, TypeOK
  <2>2. seen[p] <= waitRequestId[p] /\ (cpc[p] = "check" => seen[p] <= snapshot[p])
    BY DEF DualInv, Accounted
  <2>3. SUFFICES ASSUME dpc \in {"loop", "step"}, ~done[p]
                 PROVE  Steps(p) + (IF Moved(p)' THEN 1 ELSE 0)
                          <= Len(handed'[p]) + seen'[p]
    BY <1>1, <1>2, <1>6 DEF Progress
  <2>4. Steps(p) + (IF Moved(p) THEN 1 ELSE 0) <= Len(handed[p]) + seen[p]
    BY <2>3 DEF DualInv, Progress
  <2>5. CASE HandsOut(p) /\ seen' = [seen EXCEPT ![p] = waitRequestId[p]]
    <3>1. cpc[p] = "check" /\ handed'[p] = Append(handed[p], outbound[p])
      BY <2>1, <2>5 DEF HandsOut
    <3>2. ~Moved(p) /\ seen'[p] = waitRequestId[p]
      BY <2>1, <2>5, <3>1 DEF Moved
    <3>3. Len(handed'[p]) = Len(handed[p]) + 1
      BY <2>1, <3>1, AppendProperties
    <3>4. \A n, h, e, w \in Nat : n + 0 <= h + e /\ e <= w => n + 1 <= (h + 1) + w
      OBVIOUS
    <3>5. Steps(p) + 1 <= (Len(handed[p]) + 1) + waitRequestId[p]
      BY <2>2, <2>4, <3>2, <3>4, CountType
    <3>6. \A n, h, e \in Nat : n + 1 <= h + e => n + 0 <= h + e
      OBVIOUS
    <3>7. Len(handed[p]) + 1 \in Nat
      BY CountType
    <3>8. QED BY <3>2, <3>3, <3>5, <3>6, <3>7, CountType
  <2>6. CASE Returns(p) /\ seen' = [seen EXCEPT ![p] = waitRequestId[p]]
    <3>1. PICK state \in Answers :
            /\ reply' = [reply EXCEPT ![p] = Answer(state, NoMsg)]
            /\ state \in {"continue", "none"} => snapshot[p] < waitRequestId[p]
            /\ state = "finished" => cpc[p] = "finwait"
      BY <2>6 DEF Returns
    <3>2. cpc[p] = "check" /\ UNCHANGED handed
      BY <2>3, <2>6 DEF Returns, DualInv, Stage
    <3>3. ~Moved(p) /\ seen'[p] = waitRequestId[p] /\ reply'[p].state = state
      BY <2>1, <2>6, <3>1, <3>2 DEF Moved, Answer
    <3>4. Moved(p)' => snapshot[p] < waitRequestId[p]
      BY <3>1, <3>2, <3>3 DEF Moved, Answers
    <3>5. \A n, h, e, w, k \in Nat :
            n + 0 <= h + e /\ e <= w =>
              n + 0 <= h + w /\ (e <= k /\ k < w => n + 1 <= h + w)
      OBVIOUS
    <3>6. /\ Steps(p) + 0 <= Len(handed[p]) + waitRequestId[p]
          /\ snapshot[p] < waitRequestId[p] =>
               Steps(p) + 1 <= Len(handed[p]) + waitRequestId[p]
      BY <2>2, <2>4, <3>2, <3>3, <3>5, CountType
    <3>7. QED BY <3>2, <3>3, <3>4, <3>6
  <2>7. CASE Pushes(p) \/ Stays(p)
    <3>1. UNCHANGED <<handed, seen, reply>>
      BY <2>7 DEF Pushes, Stays
    <3>2. Moved(p)' = Moved(p)
      BY <1>1, <2>1, <2>7, <3>1 DEF Pushes, Stays, Moved, InStep
    <3>3. QED BY <2>4, <3>1, <3>2
  <2>8. QED BY <1>6, <2>5, <2>6, <2>7
<1>7. QED
  BY <1>4, <1>5, <1>6, InSessionEffect DEF DualInv, SessionsKept

LEMMA AdvanceSteps ==
  ASSUME DualTypeOK, NEW p \in Sessions, turn = p, Advance(p)
  PROVE  Steps(p)' = Steps(p) + 1 /\ Steps(Peer(p))' = Steps(Peer(p))
<1>1. First = p \/ First = Peer(p)
  BY PeerOf, DualAssumption
<1>2. QED BY <1>1, PeerOf DEF Advance, Steps, DualTypeOK

LEMMA ProgressStep ==
  ASSUME DualInv, [DualNext]_dualVars, NEW q \in Sessions
  PROVE  Progress(q)'
<1>1. ASSUME NEW p \in Sessions, InSession(p) PROVE Progress(q)'
  BY <1>1, ProgressSession
<1>2. ASSUME UNCHANGED allVars PROVE UNCHANGED <<cpc, reply, handed, seen>>
  BY <1>2 DEF allVars, vars, callerVars, history
<1>3. ASSUME NEW p \in Sessions, DriverStep(p) PROVE Progress(q)'
  <2>1. /\ UNCHANGED <<turn, done, rounds, seen, handed>>
        /\ dpc = "loop" /\ turn = p /\ cpc[p] = "idle"
        /\ \E to \in {"push", "check"} : cpc' = [cpc EXCEPT ![p] = to]
    BY <1>3 DEF DriverStep, StepCall, CallerGoes, history
  <2>2. cpc \in [Sessions -> CallerPC]
    BY DEF DualInv, SessionInv, Inv, TypeOK
  <2>3. ~Moved(q) /\ ~Moved(q)'
    BY <2>1, <2>2 DEF Moved, InStep
  <2>4. Steps(q)' = Steps(q)
    BY <2>1 DEF Steps
  <2>5. QED BY <2>1, <2>3, <2>4 DEF DualInv, Progress
<1>4. ASSUME NEW p \in Sessions, DriverSkip(p) PROVE Progress(q)'
  <2>1. /\ UNCHANGED <<dpc, done, seen, handed>> /\ dpc = "loop" /\ turn = p /\ done[p]
    BY <1>2, <1>4 DEF DriverSkip
  <2>2. CASE q = p
    BY <2>1, <2>2 DEF Progress
  <2>3. CASE q # p
    <3>1. Steps(q)' = Steps(q)
      BY <1>4, <2>1, <2>3, PeerOf, AdvanceSteps DEF DriverSkip, DualInv
    <3>2. ~Moved(q) /\ ~Moved(q)'
      BY <2>1 DEF Moved, InStep
    <3>3. QED BY <2>1, <3>1, <3>2 DEF DualInv, Progress
  <2>4. QED BY <2>2, <2>3
<1>5. ASSUME NEW p \in Sessions, DriverStepped(p) PROVE Progress(q)'
  <2>1. /\ UNCHANGED <<seen, handed>> /\ dpc = "step" /\ dpc' = "loop" /\ turn = p
        /\ cpc[p] = "idle" /\ reply[p].state # "error"
        /\ done' = [done EXCEPT ![p] = (reply[p].state = "done")]
    BY <1>2, <1>5 DEF DriverStepped
  <2>2. done \in [Sessions -> BOOLEAN] /\ ~Moved(q)'
    BY <2>1 DEF DualInv, DualTypeOK, Moved, InStep
  <2>3. Steps(p)' = Steps(p) + 1 /\ Steps(Peer(p))' = Steps(Peer(p))
    BY <1>5, <2>1, AdvanceSteps DEF DriverStepped, DualInv
  <2>4. CASE q = p
    <3>1. SUFFICES ASSUME ~done'[p]
                   PROVE  Steps(p)' + 0 <= Len(handed'[p]) + seen'[p]
      BY <2>2, <2>4 DEF Progress
    <3>2. reply[p].state # "done" /\ Moved(p)
      BY <2>1, <2>2, <3>1 DEF Moved, InStep
    <3>3. ~done[p]
      BY <2>1 DEF DualInv, Stage, InStep
    <3>4. Steps(p) + 1 <= Len(handed[p]) + seen[p]
      BY <2>1, <3>2, <3>3 DEF DualInv, Progress
    <3>5. QED BY <2>1, <2>3, <3>4, CountType
  <2>5. CASE q # p
    <3>1. Steps(q)' = Steps(q) /\ ~Moved(q) /\ done'[q] = done[q]
      BY <2>1, <2>2, <2>3, <2>5, PeerOf DEF Moved, InStep
    <3>2. QED BY <2>1, <2>2, <3>1 DEF DualInv, Progress
  <2>6. QED BY <2>4, <2>5
<1>6. ASSUME NEW p \in Sessions,
             \/ DriverThrows(p) \/ DriverFinalize(p) \/ DriverRelease(p)
             \/ DriverNext(p) \/ Collect(p)
      PROVE  Progress(q)'
  BY <1>6 DEF DriverThrows, DriverFinalize, DriverRelease, DriverNext, Collect,
     driverVars, Progress
<1>7. CASE LeaveLoop
  BY <1>7 DEF LeaveLoop, Progress
<1>8. CASE UNCHANGED dualVars
  <2>1. UNCHANGED <<dpc, turn, done, rounds, cpc, reply, handed, seen>>
    BY <1>2, <1>8 DEF dualVars, driverVars
  <2>2. QED BY <2>1 DEF DualInv, Progress, Steps, Moved, InStep
<1>9. QED
  BY <1>1, <1>3, <1>4, <1>5, <1>6, <1>7, <1>8, DualStepKinds DEF DriverMoves

-----------------------------------------------------------------------------
(* The invariant, and what follows from it.                                *)

LEMMA DualInitInv == DualInit => DualInv
<1> SUFFICES ASSUME DualInit PROVE DualInv
  OBVIOUS
<1>1. DkgInit /\ script \in Protocols /\ SessionInv
  BY SessionInit DEF DualInit
<1>2. /\ Conversation(script[Device], script[Server])
      /\ \A p \in Sessions : Len(script[p]) < LoopBound
      /\ script \in [Sessions -> Seq(Op)]
  BY <1>1, ProtocolAssumption, LoopAssumption
     DEF SessionInv, Inv, TypeOK, Op
<1>3. \A p \in Sessions :
        /\ sent[p] = 0 /\ waitRequestId[p] = 0 /\ wpc[p] = "body"
        /\ handed[p] = <<>> /\ outbound[p] = NoMsg /\ seen[p] = 0 /\ cpc[p] = "idle"
        /\ inboundQueue[p] = <<>> /\ inbound[p] = NoMsg /\ consumed[p] = <<>>
  BY <1>1 DEF DkgInit, Init
<1>4. ASSUME NEW p \in Sessions PROVE Work(p, LoopBound) /\ Accounted(p)
  <2>1. script[p] \in Seq(Op) /\ Len(script[p]) < LoopBound
    BY <1>2
  <2>2. Len(script[p]) \in Nat /\ LoopBound \in Nat
    BY <2>1, DualAssumption
  <2>3. Work(p, LoopBound)
    BY <1>3, <2>1, <2>2 DEF Work
  <2>4. Accounted(p)
    <3>1. Len(handed[p]) = 0 /\ Len(Opt(outbound[p])) = 0
      BY <1>3 DEF Opt
    <3>2. QED BY <1>3, <3>1 DEF Accounted
  <2>5. QED BY <2>3, <2>4
<1>5. DualTypeOK
  <2>1. <<>> \in Seq(Nat \ {NoMsg})
    OBVIOUS
  <2>2. QED BY <2>1, DualAssumption DEF DualInit, DualTypeOK, DriverPC
<1>6. Stage
  BY <1>3, DualAssumption DEF DualInit, Stage
<1>7. Lockstep
  <2>1. ASSUME NEW p \in Sessions PROVE Flight(p) = <<>> /\ Len(consumed[p]) = sent[Peer(p)]
    <3>1. dpc = "loop" /\ queues[p] = <<>>
      BY DEF DualInit
    <3>2. Flight(p) = <<>> \o (<<>> \o (<<>> \o (<<>> \o <<>>)))
      BY <1>3, <3>1, PeerOf DEF Flight, InTransit, Opt
    <3>3. QED BY <1>3, <3>2, PeerOf
  <2>2. QED BY <1>2, <2>1 DEF Lockstep, Level
<1>8. ASSUME NEW p \in Sessions PROVE Progress(p)
  <2>1. dpc = "loop" /\ turn = First /\ rounds = 0
    BY DEF DualInit
  <2>2. Steps(p) = 0 /\ ~Moved(p) /\ Len(handed[p]) = 0 /\ seen[p] = 0
    BY <1>3, <2>1 DEF Steps, Moved, InStep
  <2>3. QED BY <2>2 DEF Progress
<1>9. QED BY <1>1, <1>4, <1>5, <1>6, <1>7, <1>8 DEF DualInv

LEMMA DualNextInv ==
  ASSUME DualInv, [DualNext]_dualVars
  PROVE  DualInv'
<1>1. SessionsKept'
  BY SessionsStep DEF DualInv, SessionsKept
<1>2. DualTypeOK'
  BY DualTypeStep DEF DualInv, SessionsKept
<1>3. Stage' /\ Lockstep'
  BY StageStep, LockstepStep
<1>4. \A p \in Sessions : Progress(p)'
  BY ProgressStep
<1>5. QED BY <1>1, <1>2, <1>3, <1>4 DEF DualInv, SessionsKept

\* The two sessions and the driver keep in step: at most one message is on its
\* way, and the driver is not ahead of the protocol.
THEOREM DualInvariant == DualSpec => []DualInv
BY DualInitInv, DualNextInv, PTL DEF DualSpec

\* The bound of runDkg's loop is never what ends it: the Finalize calls that
\* follow are made for sessions that are done, and do not wait.
THEOREM NeverWaitsCorrect == DualSpec => []FinalizeNeverWaits
<1>1. DualInv => FinalizeNeverWaits
  BY DEF DualInv, Stage, FinalizeNeverWaits
<1>2. QED BY <1>1, DualInvariant, PTL

\* runDkg hangs, if at all, in a stuck Step (finding 3 of the README): its calls
\* otherwise wait for a worker that is awake.
THEOREM DualHangs == DualSpec => []HangsOnlyIfStuck
<1>1. DualInv => HangsOnlyIfStuck
  BY HangsIfStuck DEF DualInv, Stage
<1>2. QED BY <1>1, DualInvariant, PTL

\* Who was given its key has come to the end of its protocol, and so has heard
\* all there is to hear.
LEMMA KeyedHeardAll ==
  ASSUME DualInv, NEW p \in Sessions, script[p] = <<>>
  PROVE  Len(consumed[p]) = sent[Peer(p)]
BY PeerOf DEF DualInv, Lockstep, Level, Leads, Ahead

\* A run of runDkg that succeeds ends with a key on each side, everything
\* said heard, and nothing left in flight.
THEOREM BothKeysCorrect == DualSpec => []BothKeysOrNone
<1>1. ASSUME DualInv, dpc = "ok", NEW p \in Sessions
      PROVE  /\ issued[p] = 1 /\ Len(consumed[p]) = sent[Peer(p)]
             /\ queues[p] = <<>> /\ outbound[p] = NoMsg /\ inboundQueue[p] = <<>>
  <2>1. \A q \in Sessions : issued[q] = 1 /\ script[q] = <<>>
    <3>1. \A q \in Sessions : issued[q] = 1
      BY <1>1 DEF DualInv, Stage
    <3>2. \A q \in Sessions : KeyPhase(q)
      BY <1>1 DEF DualInv, SessionInv, DkgInv
    <3>3. ASSUME NEW q \in Sessions PROVE script[q] = <<>>
      <4>1. issued[q] > 0 /\ KeyPhase(q)
        BY <3>1, <3>2
      <4>2. QED BY <4>1 DEF KeyPhase
    <3>4. QED BY <3>1, <3>3
  <2>2. Level
    BY <1>1, <2>1, PeerOf DEF DualInv, Lockstep, Leads, Ahead
  <2>3. queues[p] = <<>> /\ inboundQueue[p] = <<>>
    BY <1>1, <2>2, FlightEmpty DEF Level
  <2>4. Opt(outbound[p]) = <<>>
    BY <1>1, <2>2, FlightEmpty, PeerOf DEF Level
  <2>5. outbound[p] = NoMsg
    BY <1>1, <2>4, FlightType, OptType
  <2>6. QED BY <1>1, <2>1, <2>2, <2>3, <2>5 DEF Level
<1>2. DualInv => BothKeysOrNone
  BY <1>1 DEF BothKeysOrNone
<1>3. QED BY <1>2, DualInvariant, PTL

-----------------------------------------------------------------------------
(* The abstract exchange.                                                  *)

\* What the exchange shows of a key.
Keyed == [p \in Sessions |-> issued[p] > 0]

\* A key is given out only to who has heard everything.
LEMMA KeyStep ==
  ASSUME DualInv, [DualNext]_dualVars
  PROVE  \/ UNCHANGED issued
         \/ \E p \in Sessions :
              /\ UNCHANGED <<script, sent, consumed>>
              /\ Len(consumed[p]) = sent[Peer(p)]
              /\ ~Keyed[p] /\ Keyed' = [Keyed EXCEPT ![p] = TRUE]
<1>1. CASE UNCHANGED allVars
  BY <1>1 DEF allVars, dkgVars
<1>2. ASSUME NEW p \in Sessions, DkgStep(p), issued' # issued
      PROVE  /\ UNCHANGED <<script, sent, consumed>>
             /\ Len(consumed[p]) = sent[Peer(p)]
             /\ ~Keyed[p] /\ Keyed' = [Keyed EXCEPT ![p] = TRUE]
  <2>1. /\ issued[p] = 0 /\ issued' = [issued EXCEPT ![p] = 1]
        /\ script[p] = <<>> /\ UNCHANGED <<script, sent, consumed>>
    BY <1>2, KeyEffect DEF DualInv, SessionInv
  <2>2. issued \in [Sessions -> Nat]
    BY DEF DualInv, SessionInv, DkgInv, DkgTypeOK
  <2>3. \A q \in Sessions : issued'[q] = IF q = p THEN 1 ELSE issued[q]
    BY <2>1, <2>2
  <2>4. (1 > 0) = TRUE /\ ~(issued[p] > 0)
    BY <2>1
  <2>5. Keyed' = [Keyed EXCEPT ![p] = TRUE]
    <3>1. \A q \in Sessions : (issued'[q] > 0) = IF q = p THEN TRUE ELSE issued[q] > 0
      BY <2>3, <2>4
    <3>2. QED BY <3>1 DEF Keyed
  <2>6. QED BY <2>1, <2>4, <2>5, KeyedHeardAll DEF Keyed
<1>3. DualTypeOK
  BY DEF DualInv
<1>4. QED BY <1>1, <1>2, <1>3, DualNextIsStep

\* Every step of the driver, the workers and the calls is a step of the
\* exchange, or none.
LEMMA ExchangeStep ==
  ASSUME DualInv, [DualNext]_dualVars
  PROVE  [Carried!ExchangeNext]_<<sent, consumed, Keyed>>
<1> USE DEF Carried!ExchangeNext, Carried!Say, Carried!Hear, Carried!GiveKey
<1>1. CASE Quiet /\ UNCHANGED issued
  BY <1>1 DEF Quiet, Keyed
<1>2. ASSUME NEW p \in Sessions, InSession(p), Says(p)
      PROVE  Carried!Say(p)
  <2>1. Level /\ script[p] # <<>>
    BY <1>2, SaysWhenLevel DEF Says
  <2>2. ASSUME NEW q \in Sessions PROVE ~(issued[q] > 0)
    <3>1. script[q] # <<>>
      <4>1. Conversation(script[p], script[Peer(p)])
        BY <2>1, LevelBothWays
      <4>2. script[p] \in Seq(Op) /\ script[Peer(p)] \in Seq(Op)
        BY PeerOf DEF DualInv, SessionInv, Inv, TypeOK, Op
      <4>3. script[Peer(p)] # <<>>
        BY <2>1, <4>1, <4>2, ToReceive
      <4>4. QED BY <2>1, <4>3, PeerOf
    <3>2. QED BY <3>1 DEF DualInv, SessionInv, DkgInv, KeyPhase
  <2>3. sent' = [sent EXCEPT ![p] = sent[p] + 1] /\ UNCHANGED consumed
    BY <1>2 DEF Says
  <2>4. UNCHANGED issued
    BY <1>2, InSessionEffect DEF DualInv, SessionsKept
  <2>5. QED BY <2>2, <2>3, <2>4 DEF Keyed
<1>3. ASSUME NEW p \in Sessions, InSession(p), Hears(p)
      PROVE  Carried!Hear(p)
  <2>1. /\ Leads(Peer(p))
        /\ consumed' = [consumed EXCEPT ![p] = Append(consumed[p], sent[Peer(p)])]
    BY <1>3, HearsTheOther
  <2>2. Len(consumed[p]) + 1 = sent[Peer(p)]
    BY <2>1, PeerOf DEF Leads
  <2>3. UNCHANGED <<sent, issued>>
    BY <1>3, InSessionEffect DEF Hears, DualInv, SessionsKept
  <2>4. Len(consumed[p]) < sent[Peer(p)]
    <3>1. consumed[p] \in Seq(Nat)
      BY DEF DualInv, SessionInv, Inv, TypeOK
    <3>2. Len(consumed[p]) \in Nat
      BY <3>1
    <3>3. QED BY <2>2, <3>2
  <2>5. consumed' = [consumed EXCEPT ![p] = Append(consumed[p], Len(consumed[p]) + 1)]
    BY <2>1, <2>2
  <2>6. QED BY <2>3, <2>4, <2>5 DEF Keyed
<1>4. ASSUME issued' # issued PROVE \E p \in Sessions : Carried!GiveKey(p)
  BY <1>4, KeyStep DEF Keyed
<1>5. QED BY <1>1, <1>2, <1>3, <1>4, QuietUnless

\* runDkg in one process implements the exchange: no message is lost in the
\* single outbound slot, repeated or reordered, and no key comes out of an
\* exchange that is not complete.
THEOREM DualCarries == DualSpec => CarriesExchange
<1>1. DualInit => Carried!ExchangeInit
  <2> SUFFICES ASSUME DualInit PROVE Carried!ExchangeInit
    OBVIOUS
  <2>1. /\ sent = [p \in Sessions |-> 0] /\ consumed = [p \in Sessions |-> <<>>]
        /\ issued = [p \in Sessions |-> 0]
    BY DEF DualInit, DkgInit, Init
  <2>2. ASSUME NEW p \in Sessions PROVE (issued[p] > 0) = FALSE
    <3>1. issued[p] = 0
      BY <2>1
    <3>2. ~(issued[p] > 0)
      BY <3>1
    <3>3. QED BY <3>2
  <2>3. QED BY <2>1, <2>2 DEF Carried!ExchangeInit
<1>2. DualInv /\ [DualNext]_dualVars
        => [Carried!ExchangeNext]_<<sent, consumed, [p \in Sessions |-> issued[p] > 0]>>
  BY ExchangeStep DEF Keyed
<1>3. QED
  BY <1>1, <1>2, DualInvariant, PTL
     DEF DualSpec, CarriesExchange, Carried!ExchangeSpec, Carried!exchangeVars

=============================================================================
