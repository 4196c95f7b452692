------------------------- MODULE AsyncSessionProofs -------------------------
(***************************************************************************)
(* Safety of AsyncSession for any set of sessions, any protocol scripts    *)
(* and any client: types, no lost wakeup, and what an answer Done means.   *)
(*                                                                         *)
(* Phase ties the worker's position to the members it has written and to   *)
(* what is left of its script.  It is inductive together with TypeOK       *)
(* (OnReceive takes the tail of the script, so types alone are not), and   *)
(* the other invariants rest on it.  The worker of a derived class may     *)
(* leave before its protocol when the session is being freed (SignSession  *)
(* does): Phase allows that, since no call is answered any more.           *)
(***************************************************************************)
EXTENDS AsyncSession, TLAPS

Returned == {"returned", "finished", "ended"}

Phase(s) ==
  /\ wpc[s] = "recv" =>
       waiting[s] /\ script[s] # <<>> /\ Head(script[s]) = "recv"
  /\ wpc[s] = "published" => script[s] = <<>>
  /\ wpc[s] \in Returned =>
       fatal[s] \/ script[s] = <<>> \/ cpc[s] \in {"join", "freed"}
  /\ fatal[s] => wpc[s] \in Returned
  /\ workerDone[s] <=> wpc[s] \in {"finished", "ended"}
  /\ "caller" \in asleep[s] => cpc[s] \in {"check", "finwait"}

Phases == \A s \in Sessions : Phase(s)

Inv == TypeOK /\ Phases

\* A call with any message: the client of Call is one that passes only those of
\* Inbound, the programs that carry messages between two sessions are others.
AnyCall(s) ==
  FinalizeCall(s) \/ FreeCall(s) \/ \E m \in Nat : StepCall(s, m)

LEMMA CallIsAnyCall ==
  ASSUME NEW s \in Sessions, Call(s)
  PROVE  AnyCall(s)
BY SessionAssumption DEF Call, AnyCall, NoMsg

-----------------------------------------------------------------------------
(* Types and phases.                                                       *)

\* Updating a function at a point keeps its type.
LEMMA ExceptType ==
  ASSUME NEW S, NEW T, NEW f \in [S -> T], NEW x, NEW v \in T
  PROVE  [f EXCEPT ![x] = v] \in [S -> T]
OBVIOUS

\* The initial states are well typed and in phase.
LEMMA InitInv == Init => Inv
<1> SUFFICES ASSUME Init PROVE Inv
  OBVIOUS
<1>1. script \in [Sessions -> Seq({"send", "recv"})]
  BY SessionAssumption DEF Init
<1>2. <<>> \in Seq(Nat)
  OBVIOUS
<1>3. TypeOK
  BY <1>1, <1>2 DEF Init, TypeOK, NoMsg, Answer, Answers, WorkerPC, CallerPC
<1>4. Phases
  BY DEF Init, Phases, Phase, Returned
<1>5. QED BY <1>3, <1>4 DEF Inv

\* What OnReceive's wait does to its variables keeps their types, provided the
\* script still has the operation it takes.
LEMMA ReceiveTypeOK ==
  ASSUME TypeOK, NEW s \in Sessions, script[s] # <<>>,
         NEW sleepers \in SUBSET {"worker", "caller"},
         ReceiveOrSleep(s, sleepers)
  PROVE  /\ wpc' \in [Sessions -> WorkerPC]
         /\ waiting' \in [Sessions -> BOOLEAN]
         /\ asleep' \in [Sessions -> SUBSET {"worker", "caller"}]
         /\ inboundQueue' \in [Sessions -> Seq(Nat)]
         /\ script' \in [Sessions -> Seq({"send", "recv"})]
         /\ consumed' \in [Sessions -> Seq(Nat)]
<1> USE DEF TypeOK, WorkerPC
<1>1. CASE GiveUp(s, sleepers)
  BY <1>1 DEF GiveUp
<1>2. CASE SleepForInbound(s, sleepers)
  BY <1>2 DEF SleepForInbound
<1>3. CASE TakeInbound(s, sleepers)
  <2>1. /\ Tail(inboundQueue[s]) \in Seq(Nat)
        /\ Tail(script[s]) \in Seq({"send", "recv"})
        /\ Append(consumed[s], Head(inboundQueue[s])) \in Seq(Nat)
    BY <1>3 DEF TakeInbound
  <2>2. inboundQueue' \in [Sessions -> Seq(Nat)]
    BY <1>3, <2>1, ExceptType DEF TakeInbound
  <2>3. script' \in [Sessions -> Seq({"send", "recv"})]
    BY <1>3, <2>1, ExceptType DEF TakeInbound
  <2>4. consumed' \in [Sessions -> Seq(Nat)]
    BY <1>3, <2>1, ExceptType DEF TakeInbound
  <2>5. /\ wpc' = [wpc EXCEPT ![s] = "body"]
        /\ waiting' = [waiting EXCEPT ![s] = FALSE]
        /\ asleep' = [asleep EXCEPT ![s] = sleepers]
    BY <1>3 DEF TakeInbound
  <2>6. QED BY <2>2, <2>3, <2>4, <2>5
<1>4. QED BY <1>1, <1>2, <1>3 DEF ReceiveOrSleep

\* A step of the worker thread keeps the types.  A worker asleep in OnReceive
\* still has that operation on its script.
LEMMA WorkerTypeOK ==
  ASSUME TypeOK, NEW s \in Sessions, wpc[s] = "recv" => script[s] # <<>>,
         Worker(s)
  PROVE  TypeOK'
<1> USE DEF TypeOK, members, workerVars, callerVars, history,
            WorkerGoes, CallerGoes, NotifyAll, WorkerPC
<1>1. CASE OnSend(s)
  <2>1. Tail(script[s]) \in Seq({"send", "recv"})
    BY <1>1 DEF OnSend
  <2>2. script' = [script EXCEPT ![s] = Tail(script[s])]
    BY <1>1 DEF OnSend
  <2>3. script' \in [Sessions -> Seq({"send", "recv"})]
    BY <2>1, <2>2, ExceptType
  <2>4. /\ wpc' \in [Sessions -> WorkerPC]
        /\ sent' \in [Sessions -> Nat]
        /\ outbound' \in [Sessions -> Nat]
    BY <1>1 DEF OnSend
  <2>5. UNCHANGED <<workerDone, aborted, waiting, inboundQueue, fatal,
                       waitRequestId, callerVars, asleep, handed, consumed>>
    BY <1>1 DEF OnSend
  <2>6. QED
    BY <2>3, <2>4, <2>5
<1>2. CASE OnSendNotify(s)
  BY <1>2 DEF OnSendNotify
<1>3. CASE OnReceive(s)
  <2>1. ReceiveOrSleep(s, {}) /\ script[s] # <<>>
    BY <1>3 DEF OnReceive
  <2>2. {} \in SUBSET {"worker", "caller"}
    OBVIOUS
  <2>3. /\ wpc' \in [Sessions -> WorkerPC]
        /\ waiting' \in [Sessions -> BOOLEAN]
        /\ asleep' \in [Sessions -> SUBSET {"worker", "caller"}]
        /\ inboundQueue' \in [Sessions -> Seq(Nat)]
        /\ script' \in [Sessions -> Seq({"send", "recv"})]
        /\ consumed' \in [Sessions -> Seq(Nat)]
    BY <2>1, <2>2, ReceiveTypeOK
  <2>4. waitRequestId' \in [Sessions -> Nat]
    BY <1>3 DEF OnReceive
  <2>5. UNCHANGED <<workerDone, aborted, outbound, fatal, callerVars, sent,
                       handed>>
    BY <1>3 DEF OnReceive
  <2>6. QED BY <2>3, <2>4, <2>5
<1>4. CASE ResumeReceive(s)
  <2>1. ReceiveOrSleep(s, asleep[s]) /\ script[s] # <<>>
    BY <1>4 DEF ResumeReceive
  <2>2. asleep[s] \in SUBSET {"worker", "caller"}
    OBVIOUS
  <2>3. /\ wpc' \in [Sessions -> WorkerPC]
        /\ waiting' \in [Sessions -> BOOLEAN]
        /\ asleep' \in [Sessions -> SUBSET {"worker", "caller"}]
        /\ inboundQueue' \in [Sessions -> Seq(Nat)]
        /\ script' \in [Sessions -> Seq({"send", "recv"})]
        /\ consumed' \in [Sessions -> Seq(Nat)]
    BY <2>1, <2>2, ReceiveTypeOK
  <2>4. UNCHANGED <<workerDone, aborted, outbound, fatal, waitRequestId,
                    callerVars, sent, handed>>
    BY <1>4 DEF ResumeReceive
  <2>5. QED BY <2>3, <2>4
<1>5. CASE Fail(s)
  BY <1>5 DEF Fail
<1>6. CASE PublishNotify(s)
  BY <1>6 DEF PublishNotify
<1>7. CASE SetWorkerDone(s)
  BY <1>7 DEF SetWorkerDone
<1>8. CASE DoneNotify(s)
  BY <1>8 DEF DoneNotify
<1>9. CASE Publish(s)
  BY <1>9 DEF Publish
<1>10. QED
  BY <1>1, <1>2, <1>3, <1>4, <1>5, <1>6, <1>7, <1>8, <1>9 DEF Worker, WorkerBase

\* A step of the calling thread keeps the types.
LEMMA CallerTypeOK ==
  ASSUME TypeOK, NEW s \in Sessions,
         InCall(s) \/ AnyCall(s) \/ SpuriousWake(s)
  PROVE  TypeOK'
<1> USE DEF TypeOK, members, workerVars, callerVars, history, WorkerGoes,
            CallerGoes, NotifyAll, CallerPC, Answer, Answers, NoMsg
<1>1. CASE StepPush(s)
  <2>1. Append(inboundQueue[s], inbound[s]) \in Seq(Nat)
    OBVIOUS
  <2>2. inboundQueue' \in [Sessions -> Seq(Nat)]
    BY <1>1, <2>1, ExceptType DEF StepPush
  <2>3. QED
    BY <1>1, <2>2 DEF StepPush
<1>2. CASE StepError(s)
  BY <1>2 DEF StepError, StepReturns, Checking
<1>3. CASE StepOutbound(s)
  <2>1. Append(handed[s], outbound[s]) \in Seq(Nat)
    OBVIOUS
  <2>2. handed' \in [Sessions -> Seq(Nat)]
    BY <1>3, <2>1, ExceptType DEF StepOutbound
  <2>3. QED
    BY <1>3, <2>2 DEF StepOutbound, StepReturns
<1>4. CASE StepDone(s)
  BY <1>4 DEF StepDone, StepReturns, Checking
<1>5. CASE StepContinue(s)
  BY <1>5 DEF StepContinue, StepReturns, Checking
<1>6. CASE StepSleep(s)
  BY <1>6 DEF StepSleep, Checking
<1>7. CASE FinalizeReturns(s)
  BY <1>7 DEF FinalizeReturns, StepReturns
<1>8. CASE FinalizeSleep(s)
  BY <1>8 DEF FinalizeSleep
<1>9. CASE AbortWorker(s)
  BY <1>9 DEF AbortWorker
<1>10. CASE Join(s)
  BY <1>10 DEF Join
<1>11. CASE FinalizeCall(s)
  BY <1>11 DEF FinalizeCall
<1>12. CASE FreeCall(s)
  BY <1>12 DEF FreeCall
<1>13. CASE SpuriousWake(s)
  BY <1>13 DEF SpuriousWake
<1>14. ASSUME NEW m \in Nat, StepCall(s, m)
      PROVE  TypeOK'
  <2>1. seen[s] .. waitRequestId[s] \subseteq Nat
    OBVIOUS
  <2>2. QED BY <1>14, <2>1 DEF StepCall
<1>15. QED
  BY <1>1, <1>2, <1>3, <1>4, <1>5, <1>6, <1>7, <1>8, <1>9, <1>10,
     <1>11, <1>12, <1>13, <1>14
    DEF InCall, InCallBase, AnyCall

\* A step of the worker thread keeps the phases.
LEMMA WorkerPhase ==
  ASSUME Inv, NEW s \in Sessions, Worker(s)
  PROVE  Phases'
<1> USE DEF Inv, TypeOK, Phases, Phase, Returned, members, workerVars,
            callerVars, history, WorkerGoes, CallerGoes, NotifyAll
<1>1. CASE OnSend(s)
  BY <1>1 DEF OnSend
<1>2. CASE OnSendNotify(s)
  BY <1>2 DEF OnSendNotify
<1>3. CASE OnReceive(s)
  <2>1. CASE GiveUp(s, {})
    BY <1>3, <2>1 DEF OnReceive, GiveUp
  <2>2. CASE TakeInbound(s, {})
    BY <1>3, <2>2 DEF OnReceive, TakeInbound
  <2>3. CASE SleepForInbound(s, {})
    BY <1>3, <2>3 DEF OnReceive, SleepForInbound
  <2>4. QED BY <1>3, <2>1, <2>2, <2>3 DEF OnReceive, ReceiveOrSleep
<1>4. CASE ResumeReceive(s)
  <2>1. CASE GiveUp(s, asleep[s])
    BY <1>4, <2>1 DEF ResumeReceive, GiveUp
  <2>2. CASE TakeInbound(s, asleep[s])
    BY <1>4, <2>2 DEF ResumeReceive, TakeInbound
  <2>3. CASE SleepForInbound(s, asleep[s])
    BY <1>4, <2>3 DEF ResumeReceive, SleepForInbound
  <2>4. QED BY <1>4, <2>1, <2>2, <2>3 DEF ResumeReceive, ReceiveOrSleep
<1>5. CASE Fail(s)
  <2>1. /\ wpc' = [wpc EXCEPT ![s] = "returned"]
        /\ wpc[s] # "recv" /\ ~workerDone[s]
    BY <1>5 DEF Fail
  <2>2. QED
    BY <1>5, <2>1 DEF Fail
<1>6. CASE PublishNotify(s)
  BY <1>6 DEF PublishNotify
<1>7. CASE SetWorkerDone(s)
  BY <1>7 DEF SetWorkerDone
<1>8. CASE DoneNotify(s)
  BY <1>8 DEF DoneNotify
<1>9. CASE Publish(s)
  BY <1>9 DEF Publish
<1>10. QED
  BY <1>1, <1>2, <1>3, <1>4, <1>5, <1>6, <1>7, <1>8, <1>9 DEF Worker, WorkerBase

\* A step of the calling thread keeps the phases.
LEMMA CallerPhase ==
  ASSUME Inv, NEW s \in Sessions,
         InCall(s) \/ AnyCall(s) \/ SpuriousWake(s)
  PROVE  Phases'
<1> USE DEF Inv, TypeOK, Phases, Phase, Returned, members, workerVars,
            callerVars, history, WorkerGoes, CallerGoes, NotifyAll
<1>1. CASE StepPush(s)
  BY <1>1 DEF StepPush
<1>2. CASE StepError(s)
  BY <1>2 DEF StepError, StepReturns, Checking
<1>3. CASE StepOutbound(s)
  BY <1>3 DEF StepOutbound, StepReturns, Checking
<1>4. CASE StepDone(s)
  BY <1>4 DEF StepDone, StepReturns, Checking
<1>5. CASE StepContinue(s)
  BY <1>5 DEF StepContinue, StepReturns, Checking
<1>6. CASE StepSleep(s)
  BY <1>6 DEF StepSleep, Checking
<1>7. CASE FinalizeReturns(s)
  BY <1>7 DEF FinalizeReturns, StepReturns
<1>8. CASE FinalizeSleep(s)
  BY <1>8 DEF FinalizeSleep
<1>9. CASE AbortWorker(s)
  BY <1>9 DEF AbortWorker
<1>10. CASE Join(s)
  BY <1>10 DEF Join
<1>11. CASE FinalizeCall(s)
  BY <1>11 DEF FinalizeCall
<1>12. CASE FreeCall(s)
  BY <1>12 DEF FreeCall
<1>13. CASE SpuriousWake(s)
  BY <1>13 DEF SpuriousWake
<1>14. ASSUME NEW m \in Nat, StepCall(s, m)
      PROVE  Phases'
  BY <1>14 DEF StepCall
<1>15. QED
  BY <1>1, <1>2, <1>3, <1>4, <1>5, <1>6, <1>7, <1>8, <1>9, <1>10,
     <1>11, <1>12, <1>13, <1>14
    DEF InCall, InCallBase, AnyCall

\* Nothing happens to the invariants in a step that changes nothing.
LEMMA StutterInv ==
  ASSUME Inv, UNCHANGED vars
  PROVE  Inv'
BY DEF Inv, TypeOK, Phases, Phase, NewWait, vars, members, workerVars,
       callerVars,
       history

\* Types and phases are kept by every step.
LEMMA NextInv ==
  ASSUME Inv, [Next]_vars
  PROVE  Inv'
<1>1. CASE UNCHANGED vars
  BY <1>1, StutterInv
<1>2. ASSUME NEW s \in Sessions, Worker(s) PROVE Inv'
  BY <1>2, WorkerTypeOK, WorkerPhase DEF Inv, Phases, Phase
<1>3. ASSUME NEW s \in Sessions,
         InCall(s) \/ AnyCall(s) \/ SpuriousWake(s) PROVE Inv'
  BY <1>3, CallerTypeOK, CallerPhase DEF Inv
<1>4. QED
  BY <1>1, <1>2, <1>3, CallIsAnyCall DEF Next, Freed

\* Types and phases are an invariant.
THEOREM PhaseCorrect == Spec => []Inv
BY InitInv, NextInv, PTL DEF Spec

\* The type invariant holds for every set of sessions, scripts and messages.
THEOREM TypeCorrect == Spec => []TypeOK
<1>1. Inv => TypeOK
  BY DEF Inv
<1>2. QED BY <1>1, PhaseCorrect, PTL

-----------------------------------------------------------------------------
(* No lost wakeup.                                                         *)

\* The worker thread notifies whoever sleeps on what it changed.
LEMMA WorkerWakes ==
  ASSUME Inv, NoLostWakeup, NEW s \in Sessions, Worker(s)
  PROVE  NoLostWakeup'
<1> USE DEF Inv, TypeOK, Phases, Phase, Returned, NoLostWakeup,
            CallerSleepsRightly, WorkerSleepsRightly, NewWait, members,
            workerVars, callerVars, history, WorkerGoes, CallerGoes, NotifyAll
<1>1. CASE OnSend(s)
  BY <1>1 DEF OnSend
<1>2. CASE OnSendNotify(s)
  BY <1>2 DEF OnSendNotify
<1>3. CASE OnReceive(s)
  <2>1. CASE GiveUp(s, {})
    BY <1>3, <2>1 DEF OnReceive, GiveUp
  <2>2. CASE TakeInbound(s, {})
    BY <1>3, <2>2 DEF OnReceive, TakeInbound
  <2>3. CASE SleepForInbound(s, {})
    BY <1>3, <2>3 DEF OnReceive, SleepForInbound
  <2>4. QED BY <1>3, <2>1, <2>2, <2>3 DEF OnReceive, ReceiveOrSleep
<1>4. CASE ResumeReceive(s)
  <2>1. CASE GiveUp(s, asleep[s])
    BY <1>4, <2>1 DEF ResumeReceive, GiveUp
  <2>2. CASE TakeInbound(s, asleep[s])
    BY <1>4, <2>2 DEF ResumeReceive, TakeInbound
  <2>3. CASE SleepForInbound(s, asleep[s])
    BY <1>4, <2>3 DEF ResumeReceive, SleepForInbound
  <2>4. QED BY <1>4, <2>1, <2>2, <2>3 DEF ResumeReceive, ReceiveOrSleep
<1>5. CASE Fail(s)
  BY <1>5 DEF Fail
<1>6. CASE PublishNotify(s)
  BY <1>6 DEF PublishNotify
<1>7. CASE SetWorkerDone(s)
  BY <1>7 DEF SetWorkerDone
<1>8. CASE DoneNotify(s)
  BY <1>8 DEF DoneNotify
<1>9. CASE Publish(s)
  BY <1>9 DEF Publish
<1>10. QED
  BY <1>1, <1>2, <1>3, <1>4, <1>5, <1>6, <1>7, <1>8, <1>9 DEF Worker, WorkerBase

\* The calling thread notifies the worker, and sleeps for a reason.
LEMMA CallerWakes ==
  ASSUME Inv, NoLostWakeup, NEW s \in Sessions,
         InCall(s) \/ AnyCall(s) \/ SpuriousWake(s)
  PROVE  NoLostWakeup'
<1> USE DEF Inv, TypeOK, Phases, Phase, Returned, NoLostWakeup,
            CallerSleepsRightly, WorkerSleepsRightly, NewWait, members,
            workerVars, callerVars, history, WorkerGoes, CallerGoes, NotifyAll
<1>1. CASE StepPush(s)
  BY <1>1 DEF StepPush
<1>2. CASE StepError(s)
  BY <1>2 DEF StepError, StepReturns, Checking
<1>3. CASE StepOutbound(s)
  BY <1>3 DEF StepOutbound, StepReturns, Checking
<1>4. CASE StepDone(s)
  BY <1>4 DEF StepDone, StepReturns, Checking
<1>5. CASE StepContinue(s)
  BY <1>5 DEF StepContinue, StepReturns, Checking
<1>6. CASE StepSleep(s)
  BY <1>6 DEF StepSleep, Checking
<1>7. CASE FinalizeReturns(s)
  BY <1>7 DEF FinalizeReturns, StepReturns
<1>8. CASE FinalizeSleep(s)
  BY <1>8 DEF FinalizeSleep
<1>9. CASE AbortWorker(s)
  BY <1>9 DEF AbortWorker
<1>10. CASE Join(s)
  BY <1>10 DEF Join
<1>11. CASE FinalizeCall(s)
  BY <1>11 DEF FinalizeCall
<1>12. CASE FreeCall(s)
  BY <1>12 DEF FreeCall
<1>13. CASE SpuriousWake(s)
  <2>1. PICK t \in asleep[s] : asleep' = [asleep EXCEPT ![s] = asleep[s] \ {t}]
    BY <1>13 DEF SpuriousWake
  <2>2. UNCHANGED <<members, workerVars, callerVars>>
    BY <1>13 DEF SpuriousWake
  <2>3. \A r \in Sessions : asleep'[r] \subseteq asleep[r]
    BY <2>1
  <2>4. QED
    BY <2>2, <2>3
<1>14. ASSUME NEW m \in Nat, StepCall(s, m)
      PROVE  NoLostWakeup'
  BY <1>14 DEF StepCall
<1>15. QED
  BY <1>1, <1>2, <1>3, <1>4, <1>5, <1>6, <1>7, <1>8, <1>9, <1>10,
     <1>11, <1>12, <1>13, <1>14
    DEF InCall, InCallBase, AnyCall

\* So does every step of a session.
LEMMA WakeNext ==
  ASSUME Inv, NoLostWakeup, [Next]_vars
  PROVE  NoLostWakeup'
<1>1. CASE UNCHANGED vars
  BY <1>1 DEF NoLostWakeup, CallerSleepsRightly, WorkerSleepsRightly, NewWait,
              vars, members, workerVars, callerVars
<1>2. QED
  BY <1>1, WorkerWakes, CallerWakes, CallIsAnyCall DEF Next, Freed

\* Nobody sleeps at the start.
LEMMA WakeInit == Init => NoLostWakeup
BY DEF Init, NoLostWakeup, CallerSleepsRightly, WorkerSleepsRightly

\* No thread sleeps on the condition variable through a change it waits for,
\* except until the notification that is already under way.
THEOREM WakeupCorrect == Spec => []NoLostWakeup
BY WakeInit, WakeNext, PhaseCorrect, PTL DEF Spec

-----------------------------------------------------------------------------
(* What Done means.                                                        *)

\* After Done the worker changes nothing that matters.
LEMMA WorkerDoneFinal ==
  ASSUME Inv, DoneIsFinal, NEW s \in Sessions, Worker(s)
  PROVE  DoneIsFinal'
<1> USE DEF Inv, TypeOK, Phases, Phase, Returned, DoneIsFinal, members,
            workerVars, callerVars, history, WorkerGoes, CallerGoes, NotifyAll
<1>1. CASE OnSend(s)
  BY <1>1 DEF OnSend
<1>2. CASE OnSendNotify(s)
  BY <1>2 DEF OnSendNotify
<1>3. CASE OnReceive(s)
  <2>1. CASE GiveUp(s, {})
    BY <1>3, <2>1 DEF OnReceive, GiveUp
  <2>2. CASE TakeInbound(s, {})
    BY <1>3, <2>2 DEF OnReceive, TakeInbound
  <2>3. CASE SleepForInbound(s, {})
    BY <1>3, <2>3 DEF OnReceive, SleepForInbound
  <2>4. QED BY <1>3, <2>1, <2>2, <2>3 DEF OnReceive, ReceiveOrSleep
<1>4. CASE ResumeReceive(s)
  <2>1. CASE GiveUp(s, asleep[s])
    BY <1>4, <2>1 DEF ResumeReceive, GiveUp
  <2>2. CASE TakeInbound(s, asleep[s])
    BY <1>4, <2>2 DEF ResumeReceive, TakeInbound
  <2>3. CASE SleepForInbound(s, asleep[s])
    BY <1>4, <2>3 DEF ResumeReceive, SleepForInbound
  <2>4. QED BY <1>4, <2>1, <2>2, <2>3 DEF ResumeReceive, ReceiveOrSleep
<1>5. CASE Fail(s)
  BY <1>5 DEF Fail
<1>6. CASE PublishNotify(s)
  BY <1>6 DEF PublishNotify
<1>7. CASE SetWorkerDone(s)
  BY <1>7 DEF SetWorkerDone
<1>8. CASE DoneNotify(s)
  BY <1>8 DEF DoneNotify
<1>9. CASE Publish(s)
  BY <1>9 DEF Publish
<1>10. QED
  BY <1>1, <1>2, <1>3, <1>4, <1>5, <1>6, <1>7, <1>8, <1>9 DEF Worker, WorkerBase

\* A call answers Done only when it is final.
LEMMA CallerDoneFinal ==
  ASSUME Inv, DoneIsFinal, NEW s \in Sessions,
         InCall(s) \/ AnyCall(s) \/ SpuriousWake(s)
  PROVE  DoneIsFinal'
<1> USE DEF Inv, TypeOK, Phases, Phase, Returned, DoneIsFinal, Answer, members,
            workerVars, callerVars, history, WorkerGoes, CallerGoes, NotifyAll
<1>1. CASE StepPush(s)
  BY <1>1 DEF StepPush
<1>2. CASE StepError(s)
  BY <1>2 DEF StepError, StepReturns, Checking
<1>3. CASE StepOutbound(s)
  BY <1>3 DEF StepOutbound, StepReturns, Checking
<1>4. CASE StepDone(s)
  BY <1>4 DEF StepDone, StepReturns, Checking
<1>5. CASE StepContinue(s)
  BY <1>5 DEF StepContinue, StepReturns, Checking
<1>6. CASE StepSleep(s)
  BY <1>6 DEF StepSleep, Checking
<1>7. CASE FinalizeReturns(s)
  BY <1>7 DEF FinalizeReturns, StepReturns
<1>8. CASE FinalizeSleep(s)
  BY <1>8 DEF FinalizeSleep
<1>9. CASE AbortWorker(s)
  BY <1>9 DEF AbortWorker
<1>10. CASE Join(s)
  BY <1>10 DEF Join
<1>11. CASE FinalizeCall(s)
  BY <1>11 DEF FinalizeCall
<1>12. CASE FreeCall(s)
  BY <1>12 DEF FreeCall
<1>13. CASE SpuriousWake(s)
  BY <1>13 DEF SpuriousWake
<1>14. ASSUME NEW m \in Nat, StepCall(s, m)
      PROVE  DoneIsFinal'
  BY <1>14 DEF StepCall
<1>15. QED
  BY <1>1, <1>2, <1>3, <1>4, <1>5, <1>6, <1>7, <1>8, <1>9, <1>10,
     <1>11, <1>12, <1>13, <1>14
    DEF InCall, InCallBase, AnyCall

\* So does every step of a session.
LEMMA DoneNext ==
  ASSUME Inv, DoneIsFinal, [Next]_vars
  PROVE  DoneIsFinal'
<1>1. CASE UNCHANGED vars
  BY <1>1 DEF DoneIsFinal, vars, members, workerVars, callerVars
<1>2. QED
  BY <1>1, WorkerDoneFinal, CallerDoneFinal, CallIsAnyCall DEF Next, Freed

\* Nothing has been answered at the start.
LEMMA DoneInit == Init => DoneIsFinal
BY DEF Init, DoneIsFinal, Answer

\* A step answers Done only for a protocol that ran to its end without error and
\* left no message behind, and this stays so.
THEOREM DoneCorrect == Spec => []DoneIsFinal
BY DoneInit, DoneNext, PhaseCorrect, PTL DEF Spec

-----------------------------------------------------------------------------
(* The order of messages.                                                  *)

\* What is in the slot is the last message sent, and was not handed out.
Slot(s) ==
  outbound[s] # NoMsg =>
    /\ outbound[s] = sent[s]
    /\ \A i \in DOMAIN handed[s] : handed[s][i] < outbound[s]

OrderInv == HandedInOrder /\ \A s \in Sessions : Slot(s)

\* Only OnSend fills the slot and only a step empties it.
LEMMA SlotKept ==
  ASSUME NEW s \in Sessions,
         Worker(s) \/ InCall(s) \/ AnyCall(s) \/ SpuriousWake(s),
         ~OnSend(s), ~StepOutbound(s)
  PROVE  UNCHANGED <<outbound, handed, sent>>
<1> USE DEF members, history
<1>1. ASSUME WorkerBase(s) \/ Publish(s) PROVE UNCHANGED <<outbound, handed, sent>>
  BY <1>1 DEF WorkerBase, OnSendNotify, OnReceive, ResumeReceive, Fail,
              PublishNotify, SetWorkerDone, DoneNotify, Publish
<1>2. ASSUME InCall(s) PROVE UNCHANGED <<outbound, handed, sent>>
  BY <1>2 DEF InCall, InCallBase, StepPush, StepError, StepDone, StepContinue,
              StepSleep, StepReturns, FinalizeReturns, FinalizeSleep,
              AbortWorker, Join
<1>3. ASSUME AnyCall(s) \/ SpuriousWake(s) PROVE UNCHANGED <<outbound, handed, sent>>
  BY <1>3 DEF AnyCall, StepCall, FinalizeCall, FreeCall, SpuriousWake
<1>4. QED BY <1>1, <1>2, <1>3 DEF Worker

\* Every step keeps the order.
LEMMA OrderNext ==
  ASSUME Inv, OrderInv, [Next]_vars
  PROVE  OrderInv'
<1> USE DEF OrderInv, HandedInOrder, Slot
<1>1. CASE UNCHANGED <<outbound, handed, sent>>
  BY <1>1
<1>2. ASSUME NEW s \in Sessions, OnSend(s) PROVE OrderInv'
  <2>1. /\ sent' = [sent EXCEPT ![s] = sent[s] + 1]
        /\ outbound' = [outbound EXCEPT ![s] = sent[s] + 1]
        /\ handed' = handed
    BY <1>2 DEF OnSend
  <2>2. /\ sent \in [Sessions -> Nat] /\ outbound \in [Sessions -> Nat]
        /\ handed \in [Sessions -> Seq(Nat)]
    BY DEF Inv, TypeOK
  <2>3. ASSUME NEW r \in Sessions, NEW i \in DOMAIN handed[r]
        PROVE  handed[r][i] \in Nat
    BY <2>2
  <2>4. QED BY <2>1, <2>2, <2>3
<1>3. ASSUME NEW s \in Sessions, StepOutbound(s) PROVE OrderInv'
  <2>1. /\ handed' = [handed EXCEPT ![s] = Append(handed[s], outbound[s])]
        /\ outbound' = [outbound EXCEPT ![s] = NoMsg]
        /\ sent' = sent /\ outbound[s] # NoMsg
    BY <1>3 DEF StepOutbound, StepReturns
  <2>2. /\ outbound \in [Sessions -> Nat] /\ handed \in [Sessions -> Seq(Nat)]
        /\ sent \in [Sessions -> Nat]
    BY DEF Inv, TypeOK
  <2>3. /\ DOMAIN handed'[s] = 1 .. Len(handed[s]) + 1
        /\ DOMAIN handed[s] = 1 .. Len(handed[s]) /\ Len(handed[s]) \in Nat
        /\ \A i \in 1 .. Len(handed[s]) : handed'[s][i] = handed[s][i]
        /\ handed'[s][Len(handed[s]) + 1] = outbound[s]
    BY <2>1, <2>2
  <2>4. /\ outbound[s] = sent[s]
        /\ \A i \in DOMAIN handed[s] : handed[s][i] < outbound[s]
    BY <2>1
  <2>5. \A i, j \in DOMAIN handed'[s] : i < j => handed'[s][i] < handed'[s][j]
    <3> SUFFICES ASSUME NEW i \in DOMAIN handed'[s], NEW j \in DOMAIN handed'[s],
                        i < j
                 PROVE  handed'[s][i] < handed'[s][j]
      OBVIOUS
    <3>1. i \in DOMAIN handed[s] /\ handed'[s][i] = handed[s][i]
      BY <2>3
    <3>2. CASE j \in DOMAIN handed[s]
      BY <2>3, <3>1, <3>2
    <3>3. CASE j = Len(handed[s]) + 1
      BY <2>3, <2>4, <3>1, <3>3
    <3>4. QED BY <2>3, <3>2, <3>3
  <2>6. \A i \in DOMAIN handed'[s] : handed'[s][i] <= sent[s]
    BY <2>2, <2>3, <2>4
  <2>7. \A r \in Sessions \ {s} : handed'[r] = handed[r] /\ outbound'[r] = outbound[r]
    BY <2>1
  <2>8. outbound'[s] = NoMsg
    BY <2>1, <2>2
  <2>9. QED BY <2>1, <2>5, <2>6, <2>7, <2>8
<1>4. QED
  BY <1>1, <1>2, <1>3, SlotKept, CallIsAnyCall DEF Next, Freed, vars, members, history

\* Nothing has been sent at the start.
LEMMA OrderInit == Init => OrderInv
BY DEF Init, OrderInv, HandedInOrder, Slot, NoMsg

\* The messages handed to the caller are in the order of sending, none twice.
THEOREM OrderCorrect == Spec => []HandedInOrder
<1>1. OrderInv => HandedInOrder
  BY DEF OrderInv
<1>2. QED BY <1>1, OrderInit, OrderNext, PhaseCorrect, PTL DEF Spec

-----------------------------------------------------------------------------
(* What the answers tell the caller.                                       *)

\* What the last answer says is so, and stays so.
HeardInv ==
  \A s \in Sessions :
    /\ reply[s].state = "error" => fatal[s]
    /\ reply[s].state \in {"done", "finished"} => workerDone[s] /\ ~fatal[s]

\* A worker that has ended does not fail, and a failure stays.
LEMMA EndStays ==
  ASSUME Inv, NEW s \in Sessions, Worker(s), NEW r \in Sessions
  PROVE  /\ reply' = reply
         /\ fatal[r] => fatal'[r]
         /\ workerDone[r] /\ ~fatal[r] => workerDone'[r] /\ ~fatal'[r]
<1> USE DEF Inv, TypeOK, Phases, Phase, members, callerVars, WorkerGoes
<1>1. CASE Fail(s)
  <2>1. ~workerDone[s] /\ UNCHANGED <<reply, workerDone>>
    BY <1>1 DEF Fail
  <2>2. fatal' = [fatal EXCEPT ![s] = TRUE]
    BY <1>1 DEF Fail
  <2>3. QED BY <2>1, <2>2
<1>2. CASE SetWorkerDone(s)
  BY <1>2 DEF SetWorkerDone
<1>3. ASSUME WorkerBase(s) \/ Publish(s), ~Fail(s), ~SetWorkerDone(s)
      PROVE  UNCHANGED <<reply, fatal, workerDone>>
  BY <1>3 DEF WorkerBase, OnSend, OnSendNotify, OnReceive, ResumeReceive,
              PublishNotify, DoneNotify, Publish
<1>4. QED BY <1>1, <1>2, <1>3 DEF Worker

\* How the calling thread changes what was heard: not, or by an answer that is
\* so.
LEMMA AnswerIsSo ==
  ASSUME Inv, NEW s \in Sessions, InCall(s) \/ AnyCall(s) \/ SpuriousWake(s)
  PROVE  /\ UNCHANGED <<fatal, workerDone>>
         /\ \/ reply' = reply /\ ~FinalizeReturns(s)
            \/ \E a \in [state : Answers, msg : Nat] :
                 /\ reply' = [reply EXCEPT ![s] = a]
                 /\ a.state = "error" <=> fatal[s]
                 /\ a.state \in {"done", "finished"} <=> workerDone[s] /\ ~fatal[s]
<1> USE DEF Inv, TypeOK, NoMsg
<1>1. ASSUME NEW state \in Answers, NEW msg \in Nat, StepReturns(s, state, msg),
             state = "error" <=> fatal[s],
             state \in {"done", "finished"} <=> workerDone[s] /\ ~fatal[s]
      PROVE  /\ UNCHANGED <<fatal, workerDone>>
             /\ \E a \in [state : Answers, msg : Nat] :
                  /\ reply' = [reply EXCEPT ![s] = a]
                  /\ a.state = "error" <=> fatal[s]
                  /\ a.state \in {"done", "finished"} <=> workerDone[s] /\ ~fatal[s]
  <2>1. reply' = [reply EXCEPT ![s] = Answer(state, msg)] /\ UNCHANGED <<fatal, workerDone>>
    BY <1>1 DEF StepReturns
  <2>2. Answer(state, msg) \in [state : Answers, msg : Nat] /\ Answer(state, msg).state = state
    BY DEF Answer
  <2>3. QED BY <1>1, <2>1, <2>2
<1>2. ASSUME StepError(s) \/ StepOutbound(s) \/ StepDone(s) \/ StepContinue(s)
             \/ FinalizeReturns(s)
      PROVE  \E state \in Answers, msg \in Nat :
               /\ StepReturns(s, state, msg)
               /\ state = "error" <=> fatal[s]
               /\ state \in {"done", "finished"} <=> workerDone[s] /\ ~fatal[s]
  <2>1. outbound[s] \in Nat /\ 0 \in Nat
    OBVIOUS
  <2>2. CASE StepError(s)
    BY <2>1, <2>2 DEF StepError, Answers
  <2>3. CASE StepOutbound(s)
    BY <2>1, <2>3 DEF StepOutbound, Answers
  <2>4. CASE StepDone(s)
    BY <2>1, <2>4 DEF StepDone, Answers
  <2>5. CASE StepContinue(s)
    BY <2>1, <2>5 DEF StepContinue, Answers
  <2>6. CASE FinalizeReturns(s)
    BY <2>1, <2>6 DEF FinalizeReturns, Answers
  <2>7. QED BY <1>2, <2>2, <2>3, <2>4, <2>5, <2>6
<1>3. ASSUME ~FinalizeReturns(s),
             \/ StepPush(s) \/ StepSleep(s) \/ FinalizeSleep(s)
             \/ AbortWorker(s) \/ Join(s) \/ AnyCall(s) \/ SpuriousWake(s)
      PROVE  UNCHANGED <<fatal, workerDone, reply>>
  BY <1>3 DEF members, callerVars, StepPush, StepSleep, FinalizeSleep, AbortWorker, Join,
              AnyCall, StepCall, FinalizeCall, FreeCall, SpuriousWake
<1>4. QED
  BY <1>1, <1>2, <1>3 DEF InCall, InCallBase

\* HeardInv is kept by every step of a session.
LEMMA HeardStepInv ==
  ASSUME Inv, HeardInv, NEW s \in Sessions,
         Worker(s) \/ InCall(s) \/ AnyCall(s) \/ SpuriousWake(s)
  PROVE  HeardInv'
<1> USE DEF HeardInv
<1>1. CASE Worker(s)
  BY <1>1, EndStays
<1>2. CASE InCall(s) \/ AnyCall(s) \/ SpuriousWake(s)
  <2>1. UNCHANGED <<fatal, workerDone>>
    BY <1>2, AnswerIsSo
  <2>2. CASE reply' = reply
    BY <2>1, <2>2
  <2>3. ASSUME NEW a, reply' = [reply EXCEPT ![s] = a],
               a.state = "error" <=> fatal[s],
               a.state \in {"done", "finished"} <=> workerDone[s] /\ ~fatal[s]
        PROVE  HeardInv'
    <3>1. \A r \in Sessions : reply'[r] = IF r = s THEN a ELSE reply[r]
      BY <2>3 DEF Inv, TypeOK
    <3>2. QED BY <2>1, <2>3, <3>1
  <2>4. QED BY <1>2, <2>2, <2>3, AnswerIsSo
<1>3. QED BY <1>1, <1>2

\* The same of every step of the base class.
LEMMA HeardNext ==
  ASSUME Inv, HeardInv, [Next]_vars
  PROVE  HeardInv'
<1>1. CASE UNCHANGED vars
  BY <1>1 DEF HeardInv, vars, members, callerVars
<1>2. QED BY <1>1, HeardStepInv, CallIsAnyCall DEF Next, Freed

LEMMA HeardInit == Init => HeardInv
<1> SUFFICES ASSUME Init, NEW s \in Sessions PROVE reply[s].state = "none"
  BY DEF HeardInv
<1>1. reply = [r \in Sessions |-> Answer("none", NoMsg)]
  BY DEF Init
<1>2. QED BY <1>1 DEF Answer

LEMMA HeardInvariant == Spec => []HeardInv
BY HeardInit, HeardNext, PhaseCorrect, PTL DEF Spec

\* What the abstract session shows.
Shown == [s \in Sessions |-> Heard(s)]

\* One session is heard of anew, and nothing is taken back.
LEMMA HeardStep ==
  ASSUME Inv, HeardInv, NEW s \in Sessions, UNCHANGED <<fatal, workerDone>>,
         NEW a \in [state : Answers, msg : Nat],
         reply' = [reply EXCEPT ![s] = a],
         a.state = "error" <=> fatal[s],
         a.state \in {"done", "finished"} <=> workerDone[s] /\ ~fatal[s]
  PROVE  \E p \in {"running", "done", "failed"} :
           /\ Heard(s) \in {"running", p}
           /\ Shown' = [Shown EXCEPT ![s] = p]
<1> DEFINE p == IF a.state = "error" THEN "failed"
                ELSE IF a.state \in {"done", "finished"} THEN "done" ELSE "running"
<1>1. \A r \in Sessions : Heard(r)' = IF r = s THEN p ELSE Heard(r)
  BY DEF Heard, Inv, TypeOK
<1>2. Shown' = [Shown EXCEPT ![s] = p]
  BY <1>1 DEF Shown
<1>3. p \in {"running", "done", "failed"} /\ Heard(s) \in {"running", p}
  BY DEF Heard, HeardInv
<1>4. QED BY <1>2, <1>3

-----------------------------------------------------------------------------
(* Nobody waits for a thread that waits.                                   *)
(*                                                                         *)
(* That a call returns is a property of fair runs, and TLC's.  What is     *)
(* proved is what it rests on: a thread that waits does so for another     *)
(* that is awake, except in the situations the properties name.            *)

\* The worker has something left to do and is not asleep on cv_.
WorkerAwake(s) == wpc[s] # "ended" /\ "worker" \notin asleep[s]

NoDeadlock ==
  \A s \in Sessions :
    /\ "caller" \in asleep[s] /\ cpc[s] = "check" => WorkerAwake(s) \/ Stuck(s)
    /\ "caller" \in asleep[s] /\ cpc[s] = "finwait" => WorkerAwake(s) \/ Starved(s)
    /\ cpc[s] = "join" => "worker" \notin asleep[s]

\* The values read of the counter are values it has had, and a session that is
\* joined has been aborted.
Counts(s) ==
  /\ seen[s] <= waitRequestId[s] /\ snapshot[s] <= waitRequestId[s]
  /\ cpc[s] \in {"join", "freed"} => aborted[s]

CountInv == \A s \in Sessions : Counts(s)

\* The worker only counts up.
LEMMA WorkerCounts ==
  ASSUME Inv, CountInv, NEW s \in Sessions, Worker(s)
  PROVE  CountInv'
<1> USE DEF Inv, TypeOK, CountInv, Counts, callerVars, members
<1>1. UNCHANGED callerVars
  BY DEF Worker, WorkerBase, OnSend, OnSendNotify, OnReceive, ResumeReceive, Fail,
         Publish, PublishNotify, SetWorkerDone, DoneNotify
<1>2. \/ waitRequestId' = waitRequestId
      \/ waitRequestId' = [waitRequestId EXCEPT ![s] = waitRequestId[s] + 1]
  BY DEF Worker, WorkerBase, OnSend, OnSendNotify, OnReceive, ResumeReceive, Fail,
         Publish, PublishNotify, SetWorkerDone, DoneNotify
<1>3. aborted' = aborted \/ aborted' = [aborted EXCEPT ![s] = TRUE]
  BY DEF Worker, WorkerBase, OnSend, OnSendNotify, OnReceive, ResumeReceive, Fail,
         Publish, PublishNotify, SetWorkerDone, DoneNotify
<1>4. \A r \in Sessions : aborted[r] => aborted'[r]
  BY <1>3
<1>5. \A r \in Sessions :
        /\ waitRequestId[r] \in Nat /\ seen[r] \in Nat /\ snapshot[r] \in Nat
        /\ waitRequestId'[r] \in {waitRequestId[r], waitRequestId[r] + 1}
  BY <1>2
<1>6. ASSUME NEW r \in Sessions PROVE Counts(r)'
  <2>1. seen'[r] = seen[r] /\ snapshot'[r] = snapshot[r] /\ cpc'[r] = cpc[r]
    BY <1>1
  <2>2. /\ waitRequestId[r] \in Nat /\ seen[r] \in Nat /\ snapshot[r] \in Nat
        /\ waitRequestId'[r] \in {waitRequestId[r], waitRequestId[r] + 1}
    BY <1>5
  <2>3. Counts(r)
    OBVIOUS
  <2> HIDE DEF Inv, TypeOK, CountInv
  <2>4. seen[r] <= waitRequestId'[r] /\ snapshot[r] <= waitRequestId'[r]
    BY <2>2, <2>3
  <2>5. QED BY <1>4, <2>1, <2>3, <2>4
<1>7. QED BY <1>6

\* The calling thread reads the counter as it is, or as it was when last read
\* with the mutex held.
LEMMA CallerCounts ==
  ASSUME Inv, CountInv, NEW s \in Sessions,
         InCall(s) \/ AnyCall(s) \/ SpuriousWake(s)
  PROVE  CountInv'
<1> USE DEF Inv, TypeOK, CountInv, Counts, callerVars, members, CallerGoes
<1>1. CASE StepPush(s)
  BY <1>1 DEF StepPush
<1>2. ASSUME NEW state, NEW msg, StepReturns(s, state, msg) PROVE CountInv'
  BY <1>2 DEF StepReturns
<1>3. CASE \/ StepError(s) \/ StepOutbound(s) \/ StepDone(s) \/ StepContinue(s)
           \/ FinalizeReturns(s)
  BY <1>2, <1>3 DEF StepError, StepOutbound, StepDone, StepContinue, FinalizeReturns
<1>4. CASE StepSleep(s) \/ FinalizeSleep(s) \/ SpuriousWake(s)
  BY <1>4 DEF StepSleep, FinalizeSleep, SpuriousWake
<1>5. CASE AbortWorker(s)
  BY <1>5 DEF AbortWorker
<1>6. CASE Join(s)
  BY <1>6 DEF Join
<1>7. CASE FinalizeCall(s) \/ FreeCall(s)
  BY <1>7 DEF FinalizeCall, FreeCall
<1>8. ASSUME NEW m \in Nat, StepCall(s, m) PROVE CountInv'
  <2>1. PICK id \in seen[s] .. waitRequestId[s] :
          snapshot' = [snapshot EXCEPT ![s] = id]
    BY <1>8 DEF StepCall
  <2>2. id <= waitRequestId[s]
    BY <2>1
  <2>3. UNCHANGED <<members, seen>> /\ \E c \in {"check", "push"} :
          cpc' = [cpc EXCEPT ![s] = c]
    BY <1>8 DEF StepCall
  <2>4. QED BY <2>1, <2>2, <2>3
<1>9. QED
  BY <1>1, <1>3, <1>4, <1>5, <1>6, <1>7, <1>8 DEF InCall, InCallBase, AnyCall

\* So CountInv is kept by every step, and holds at the start.
LEMMA CountNext ==
  ASSUME Inv, CountInv, [Next]_vars
  PROVE  CountInv'
<1>1. CASE UNCHANGED vars
  BY <1>1 DEF CountInv, Counts, vars, members, callerVars
<1>2. QED
  BY <1>1, WorkerCounts, CallerCounts, CallIsAnyCall DEF Next, Freed

LEMMA CountInit == Init => CountInv
<1> SUFFICES ASSUME Init, NEW s \in Sessions PROVE Counts(s)
  BY DEF CountInv
<1>1. seen[s] = 0 /\ snapshot[s] = 0 /\ waitRequestId[s] = 0 /\ cpc[s] = "idle"
  BY DEF Init
<1>2. QED BY <1>1 DEF Counts

\* Two threads asleep on cv_ are Stuck, or Starved in Finalize.
LEMMA AwakeOrStuck ==
  ASSUME Inv, NoLostWakeup, CountInv
  PROVE  NoDeadlock
<1> SUFFICES ASSUME NEW s \in Sessions
    PROVE
      /\ "caller" \in asleep[s] /\ cpc[s] = "check" => WorkerAwake(s) \/ Stuck(s)
      /\ "caller" \in asleep[s] /\ cpc[s] = "finwait" => WorkerAwake(s) \/ Starved(s)
      /\ cpc[s] = "join" => "worker" \notin asleep[s]
  BY DEF NoDeadlock
<1> USE DEF NoLostWakeup
<1>1. "caller" \in asleep[s] /\ cpc[s] \in {"check", "finwait"} => wpc[s] # "ended"
  BY DEF Inv, Phases, Phase, CallerSleepsRightly
<1>2. "worker" \in asleep[s] => Starved(s)
  BY DEF WorkerSleepsRightly, Starved
<1>3. ASSUME "caller" \in asleep[s], "worker" \in asleep[s], cpc[s] = "check"
      PROVE  Stuck(s)
  <2>1. Starved(s) /\ wpc[s] = "recv" /\ waiting[s]
    BY <1>2, <1>3 DEF Starved, Inv, Phases, Phase
  <2>2. outbound[s] = NoMsg /\ ~NewWait(s)
    BY <1>3, <2>1 DEF CallerSleepsRightly
  <2>3. waitRequestId[s] \in Nat /\ snapshot[s] \in Nat
    BY DEF Inv, TypeOK
  <2>4. waitRequestId[s] = snapshot[s]
    BY <2>1, <2>2, <2>3 DEF NewWait, CountInv, Counts
  <2>5. QED BY <1>3, <2>1, <2>2, <2>4 DEF Stuck
<1>4. cpc[s] = "join" => "worker" \notin asleep[s]
  BY DEF CountInv, Counts, WorkerSleepsRightly
<1>5. QED BY <1>1, <1>2, <1>3, <1>4 DEF WorkerAwake

\* A caller asleep in Step or Finalize waits for a worker that is awake, but
\* for a stuck Step and a starved Finalize; and the destructor joins no worker
\* asleep on cv_.
THEOREM DeadlockCorrect == Spec => []NoDeadlock
<1>1. Spec => []CountInv
  BY CountInit, CountNext, PhaseCorrect, PTL DEF Spec
<1>2. QED BY <1>1, AwakeOrStuck, WakeupCorrect, PhaseCorrect, PTL

=============================================================================
