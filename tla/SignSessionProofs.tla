------------------------- MODULE SignSessionProofs --------------------------
(***************************************************************************)
(* Safety of signing sessions for any set of sessions, signers, messages   *)
(* and protocols, and any client.                                          *)
(*                                                                         *)
(* A SignSession is an AsyncSession but for one step: a worker that gives  *)
(* up the wait for its message ends without an error and with its protocol *)
(* not run (Quit).  It does so only when its session is being freed, which *)
(* is what the base class's invariants need to carry over; and that is     *)
(* what the stages of the worker say (WorkerStage).                        *)
(***************************************************************************)
EXTENDS SignSession, AsyncSessionProofs

\* The worker has left its protocol.
Past == {"published"} \cup Returned

\* What the stage of the worker says: until it has a message it has touched
\* nothing, and it gives up only on a session that is being freed.
WorkerStage(s) ==
  /\ stage[s] # "signing" => sent[s] = 0 /\ waitRequestId[s] = 0 /\ ~fatal[s]
  /\ stage[s] \in {"wait", "sleep"} => wpc[s] = "body"
  /\ stage[s] = "quit" => wpc[s] \in Returned /\ aborted[s]
  /\ stage[s] # "signing" /\ aborted[s] => cpc[s] \in {"join", "freed"}
  /\ sawAbort[s] => aborted[s]

\* Where the message is, and that its wakeup is not lost.
MessagePlace(s) ==
  /\ stage[s] \in {"wait", "sleep"} =>
       IF messageReady[s]
       THEN accepted[s] # <<>> /\ message[s] = Head(accepted[s])
       ELSE accepted[s] = <<>>
  /\ stage[s] = "sleep" => ~messageReady[s]
  /\ stage[s] = "signing" => accepted[s] # <<>> /\ signing[s] = Head(accepted[s])

\* The signature is stored as the protocol is left in success.
SignaturePlace(s) ==
  /\ signatureReady[s] =>
       /\ s \in Signers /\ stage[s] = "signing"
       /\ wpc[s] \in Past /\ ~fatal[s] /\ script[s] = <<>>
  /\ s \in Signers /\ stage[s] = "signing" /\ wpc[s] \in Past /\ ~fatal[s] =>
       signatureReady[s]
  /\ finalized[s] # "unready"

\* What the derived class adds to the base class's invariant.
SignPlaces ==
  /\ SignTypeOK
  /\ \A s \in Sessions : WorkerStage(s) /\ MessagePlace(s) /\ SignaturePlace(s)

SignInv == Inv /\ SignPlaces

-----------------------------------------------------------------------------
(* The initial states.                                                     *)

\* The worker starts by waiting for a message that is not there.
LEMMA SignInitInv == SignInit => SignInv
<1> SUFFICES ASSUME SignInit PROVE SignInv
  OBVIOUS
<1>1. Inv
  BY InitInv DEF SignInit
<1>2. SignTypeOK
  BY DEF SignInit, SignTypeOK, Stages, SignAnswers
<1>3. \A s \in Sessions : WorkerStage(s)
  BY DEF SignInit, Init, WorkerStage
<1>4. \A s \in Sessions : MessagePlace(s) /\ SignaturePlace(s)
  BY DEF SignInit, MessagePlace, SignaturePlace
<1>5. QED BY <1>1, <1>2, <1>3, <1>4 DEF SignInv, SignPlaces

-----------------------------------------------------------------------------
(* The base class.                                                         *)

\* What giving up the wait for the message is to the base class.
Quit(s) ==
  /\ cpc[s] \in {"join", "freed"}
  /\ WorkerGoes(s, "body", "returned")
  /\ UNCHANGED <<members, script, callerVars, asleep, history>>

\* Every step is one of the base class, or leaves it alone, or gives up the
\* wait; and that only on a session that is being freed.
LEMMA SignNextIsNext ==
  ASSUME SignInv, [SignNext]_allVars
  PROVE  [Next]_vars \/ \E s \in Sessions : Quit(s)
<1>1. CASE UNCHANGED vars
  BY <1>1
<1>2. ASSUME NEW s \in Sessions, AwaitMessage(s)
      PROVE  UNCHANGED vars \/ Quit(s)
  <2>1. UNCHANGED <<members, script, callerVars, asleep, history>> /\ stage[s] = "wait"
    BY <1>2 DEF AwaitMessage
  <2>2. CASE UNCHANGED wpc
    BY <2>1, <2>2 DEF vars, workerVars
  <2>3. CASE sawAbort[s] /\ wpc' = [wpc EXCEPT ![s] = "returned"]
    <3>1. wpc[s] = "body" /\ cpc[s] \in {"join", "freed"}
      BY <2>1, <2>3 DEF SignInv, SignPlaces, WorkerStage
    <3>2. QED BY <2>1, <2>3, <3>1 DEF Quit, WorkerGoes
  <2>4. QED BY <1>2, <2>2, <2>3 DEF AwaitMessage
<1>3. ASSUME NEW s \in Sessions, SignWorker(s), ~AwaitMessage(s)
      PROVE  UNCHANGED vars \/ Worker(s)
  BY <1>3 DEF SignWorker, TakeMessage, PublishSignature, Worker
<1>4. ASSUME NEW s \in Sessions, SignInCall(s) PROVE InCall(s)
  BY <1>4 DEF SignInCall, Finalize, InCall
<1>5. ASSUME NEW s \in Sessions,
             \/ SpuriousMessageWake(s) \/ AbortVisible(s)
             \/ \E m \in Messages : SetMessage(s, m)
      PROVE  UNCHANGED vars
  BY <1>5 DEF SpuriousMessageWake, AbortVisible, SetMessage
<1>6. QED
  BY <1>1, <1>2, <1>3, <1>4, <1>5 DEF SignNext, Next, Freed, allVars

\* Giving up the wait disturbs nothing the base class relies on.
LEMMA QuitKeeps ==
  ASSUME Inv, NEW s \in Sessions, Quit(s)
  PROVE  /\ Inv'
         /\ NoLostWakeup => NoLostWakeup'
         /\ DoneIsFinal => DoneIsFinal'
         /\ OrderInv => OrderInv'
         /\ HeardInv => HeardInv'
         /\ CountInv => CountInv'
<1>1. /\ UNCHANGED <<members, script, callerVars, asleep, history>>
      /\ wpc' = [wpc EXCEPT ![s] = "returned"] /\ wpc[s] = "body"
      /\ cpc[s] \in {"join", "freed"}
  BY DEF Quit, WorkerGoes
<1>2. \A r \in Sessions : wpc'[r] = IF r = s THEN "returned" ELSE wpc[r]
  BY <1>1 DEF Inv, TypeOK
<1>3. TypeOK'
  BY <1>1 DEF Inv, TypeOK, WorkerPC, members, callerVars, history
<1>4. Phases'
  BY <1>1, <1>2 DEF Inv, Phases, Phase, Returned, members, callerVars
<1>5. NoLostWakeup => NoLostWakeup'
  BY <1>1, <1>2 DEF NoLostWakeup, CallerSleepsRightly, WorkerSleepsRightly, NewWait,
     members, callerVars
<1>6. DoneIsFinal => DoneIsFinal'
  BY <1>1 DEF DoneIsFinal, members, callerVars
<1>7. OrderInv => OrderInv'
  BY <1>1 DEF OrderInv, HandedInOrder, Slot, members, history
<1>8. HeardInv => HeardInv'
  BY <1>1 DEF HeardInv, members, callerVars
<1>9. CountInv => CountInv'
  BY <1>1 DEF CountInv, Counts, members, callerVars
<1>10. QED BY <1>3, <1>4, <1>5, <1>6, <1>7, <1>8, <1>9 DEF Inv

-----------------------------------------------------------------------------
(* The message.                                                            *)

\* Appending to a sequence keeps its head.
LEMMA HeadKept ==
  ASSUME NEW S, NEW q \in Seq(S), NEW e \in S
  PROVE  /\ Append(q, e) \in Seq(S) /\ Append(q, e) # <<>>
         /\ Head(Append(q, e)) = IF q = <<>> THEN e ELSE Head(q)
<1>1. CASE q = <<>>
  BY <1>1
<1>2. CASE q # <<>>
  BY <1>2
<1>3. QED BY <1>1, <1>2

\* A message the client sets is the one to sign, if it is the first.
LEMMA SetMessagePlaces ==
  ASSUME SignInv, NEW s \in Sessions, NEW m \in Messages, SetMessage(s, m)
  PROVE  SignPlaces'
<1> USE DEF SignInv, SignPlaces, SignTypeOK, Stages
<1>1. /\ UNCHANGED <<vars, signing, sawAbort, signatureReady, finalized>>
      /\ stage' = [stage EXCEPT ![s] = IF @ = "sleep" THEN "wait" ELSE @]
      /\ messageReady' = [messageReady EXCEPT ![s] = TRUE]
      /\ message' = [message EXCEPT ![s] = m]
      /\ accepted' = [accepted EXCEPT ![s] = Append(accepted[s], m)]
      /\ ~messageReady[s]
  BY DEF SetMessage
<1>2. /\ Append(accepted[s], m) \in Seq(Messages) /\ Append(accepted[s], m) # <<>>
      /\ Head(Append(accepted[s], m)) =
           IF accepted[s] = <<>> THEN m ELSE Head(accepted[s])
  BY HeadKept
<1>3. accepted' \in [Sessions -> Seq(Messages)]
  BY <1>1, <1>2, ExceptType
<1>4. SignTypeOK'
  BY <1>1, <1>3
<1>5. \A r \in Sessions :
        stage'[r] = IF r = s /\ stage[s] = "sleep" THEN "wait" ELSE stage[r]
  BY <1>1
<1>6. ASSUME NEW r \in Sessions PROVE WorkerStage(r)'
  BY <1>1, <1>5 DEF WorkerStage, vars, members, workerVars, callerVars, history
<1>7. \A r \in Sessions :
        accepted'[r] = IF r = s THEN Append(accepted[s], m) ELSE accepted[r]
  BY <1>1
<1>8. ASSUME NEW r \in Sessions PROVE MessagePlace(r)'
  BY <1>1, <1>2, <1>5, <1>7 DEF MessagePlace
<1>9. ASSUME NEW r \in Sessions PROVE SignaturePlace(r)'
  BY <1>1, <1>5 DEF SignaturePlace, vars, members, workerVars
<1>10. QED BY <1>4, <1>6, <1>8, <1>9

\* The worker takes the message, waits for it, gives up, or is woken.
LEMMA WaitPlaces ==
  ASSUME SignInv, NEW s \in Sessions,
         TakeMessage(s) \/ AwaitMessage(s) \/ SpuriousMessageWake(s)
         \/ AbortVisible(s)
  PROVE  SignPlaces'
<1> USE DEF SignInv, SignPlaces, SignTypeOK, Stages, WorkerStage, MessagePlace,
            SignaturePlace, vars, members, workerVars, callerVars, history
<1>1. UNCHANGED <<members, script, callerVars, asleep, history, signatureReady,
                  finalized, accepted>>
  BY DEF TakeMessage, AwaitMessage, SpuriousMessageWake, AbortVisible
<1>2. wpc \in [Sessions -> WorkerPC]
  BY DEF Inv, TypeOK
<1>3. CASE TakeMessage(s)
  <2>1. wpc' = wpc
    BY <1>3 DEF TakeMessage
  <2>2. SignTypeOK'
    BY <1>1, <1>3 DEF TakeMessage
  <2>3. ASSUME NEW r \in Sessions PROVE WorkerStage(r)'
    BY <1>1, <1>3, <2>1 DEF TakeMessage
  <2>4. ASSUME NEW r \in Sessions PROVE MessagePlace(r)' /\ SignaturePlace(r)'
    BY <1>1, <1>3, <2>1 DEF TakeMessage, Past, Returned
  <2>5. QED BY <2>2, <2>3, <2>4
<1>4. ASSUME NEW p \in {"wait", "sleep"}, p = "sleep" => ~messageReady[s],
             stage[s] \in {"wait", "sleep"}, stage' = [stage EXCEPT ![s] = p],
             UNCHANGED <<wpc, sawAbort, messageReady, message, signing>>
      PROVE  SignPlaces'
  <2>1. \A r \in Sessions : stage'[r] = IF r = s THEN p ELSE stage[r]
    BY <1>4
  <2>2. SignTypeOK'
    BY <1>1, <1>4
  <2>3. ASSUME NEW r \in Sessions PROVE WorkerStage(r)'
    BY <1>1, <1>4, <2>1
  <2>4. ASSUME NEW r \in Sessions PROVE MessagePlace(r)' /\ SignaturePlace(r)'
    BY <1>1, <1>4, <2>1
  <2>5. QED BY <2>2, <2>3, <2>4
<1>5. CASE SpuriousMessageWake(s)
  BY <1>4, <1>5 DEF SpuriousMessageWake
<1>6. CASE AwaitMessage(s) /\ ~sawAbort[s]
  BY <1>4, <1>6 DEF AwaitMessage
<1>7. CASE AwaitMessage(s) /\ sawAbort[s]
  <2>1. /\ wpc' = [wpc EXCEPT ![s] = "returned"] /\ stage[s] = "wait"
        /\ stage' = [stage EXCEPT ![s] = "quit"]
        /\ UNCHANGED <<sawAbort, messageReady, message, signing>>
    BY <1>7 DEF AwaitMessage
  <2>2. SignTypeOK'
    BY <1>1, <2>1
  <2>3. ASSUME NEW r \in Sessions PROVE WorkerStage(r)'
    BY <1>1, <1>2, <1>7, <2>1 DEF Returned
  <2>4. ASSUME NEW r \in Sessions PROVE MessagePlace(r)' /\ SignaturePlace(r)'
    BY <1>1, <1>2, <2>1
  <2>5. QED BY <2>2, <2>3, <2>4
<1>8. CASE AbortVisible(s)
  <2>1. aborted[s] /\ sawAbort' = [sawAbort EXCEPT ![s] = TRUE]
        /\ UNCHANGED <<wpc, stage, messageReady, message, signing>>
    BY <1>8 DEF AbortVisible
  <2>2. QED BY <1>1, <2>1
<1>9. QED
  BY <1>3, <1>5, <1>6, <1>7, <1>8

-----------------------------------------------------------------------------
(* The protocol.                                                           *)

\* A base-class step of the worker that is in the protocol, or past it.
LEMMA ProtocolStages ==
  ASSUME SignInv, NEW s \in Sessions, stage[s] \in {"signing", "quit"},
         WorkerBase(s), UNCHANGED signVars
  PROVE  \A r \in Sessions : WorkerStage(r)' /\ SignaturePlace(r)'
<1> USE DEF SignInv, SignPlaces, Inv, TypeOK, WorkerStage, SignaturePlace, Past,
            Returned, signVars, members, workerVars, callerVars, history,
            WorkerGoes
<1>1. ASSUME NEW p \in WorkerPC, wpc' = [wpc EXCEPT ![s] = p],
             p \notin Past, wpc[s] \notin Past,
             \A r \in Sessions \ {s} :
               /\ script'[r] = script[r] /\ sent'[r] = sent[r]
               /\ waitRequestId'[r] = waitRequestId[r],
             UNCHANGED <<fatal, workerDone, aborted, cpc>>
      PROVE  \A r \in Sessions : WorkerStage(r)' /\ SignaturePlace(r)'
  <2>1. \A r \in Sessions : wpc'[r] = IF r = s THEN p ELSE wpc[r]
    BY <1>1
  <2>2. stage[s] = "signing" /\ ~fatal[s]
    BY <1>1 DEF Phases, Phase
  <2>3. ASSUME NEW r \in Sessions PROVE WorkerStage(r)'
    <3>1. CASE r = s
      BY <1>1, <2>1, <2>2, <3>1
    <3>2. CASE r # s
      BY <1>1, <2>1, <3>2
    <3>3. QED BY <3>1, <3>2
  <2>4. \A r \in Sessions : SignaturePlace(r)'
    BY <1>1, <2>1, <2>2
  <2>5. QED BY <2>3, <2>4
<1>2. CASE OnSend(s)
  BY <1>1, <1>2 DEF OnSend, WorkerPC
<1>3. CASE OnSendNotify(s)
  BY <1>1, <1>3 DEF OnSendNotify, WorkerPC
<1>4. ASSUME NEW sleepers, ReceiveOrSleep(s, sleepers)
      PROVE  \E p \in {"failing", "body", "recv"} :
               /\ wpc' = [wpc EXCEPT ![s] = p]
               /\ \A r \in Sessions \ {s} : script'[r] = script[r]
  <2>1. CASE GiveUp(s, sleepers)
    BY <1>4, <2>1 DEF GiveUp
  <2>2. CASE TakeInbound(s, sleepers)
    BY <1>4, <2>2 DEF TakeInbound
  <2>3. CASE SleepForInbound(s, sleepers)
    BY <1>4, <2>3 DEF SleepForInbound
  <2>4. QED BY <1>4, <2>1, <2>2, <2>3 DEF ReceiveOrSleep
<1>5. CASE OnReceive(s) \/ ResumeReceive(s)
  <2>1. /\ wpc[s] \notin Past
        /\ ReceiveOrSleep(s, {}) \/ ReceiveOrSleep(s, asleep[s])
        /\ UNCHANGED <<fatal, workerDone, aborted, cpc, sent>>
        /\ \A r \in Sessions \ {s} : waitRequestId'[r] = waitRequestId[r]
    BY <1>5 DEF OnReceive, ResumeReceive
  <2>2. PICK p \in {"failing", "body", "recv"} :
          /\ wpc' = [wpc EXCEPT ![s] = p]
          /\ \A r \in Sessions \ {s} : script'[r] = script[r]
    BY <1>4, <2>1
  <2>3. QED BY <1>1, <2>1, <2>2 DEF WorkerPC
<1>6. CASE Fail(s)
  <2>1. /\ wpc' = [wpc EXCEPT ![s] = "returned"] /\ wpc[s] \in {"body", "failing"}
        /\ fatal' = [fatal EXCEPT ![s] = TRUE]
        /\ aborted' = [aborted EXCEPT ![s] = TRUE]
        /\ UNCHANGED <<workerDone, waitRequestId, script, cpc, sent>>
    BY <1>6 DEF Fail
  <2>2. stage[s] = "signing" /\ ~signatureReady[s]
    BY <2>1
  <2>3. QED BY <2>1, <2>2
<1>7. CASE PublishNotify(s)
  BY <1>7 DEF PublishNotify
<1>8. CASE SetWorkerDone(s)
  BY <1>8 DEF SetWorkerDone
<1>9. CASE DoneNotify(s)
  BY <1>9 DEF DoneNotify
<1>10. QED
  BY <1>2, <1>3, <1>5, <1>6, <1>7, <1>8, <1>9 DEF WorkerBase

\* The message is not the protocol's concern.
LEMMA ProtocolPlaces ==
  ASSUME SignInv, NEW s \in Sessions, stage[s] \in {"signing", "quit"},
         WorkerBase(s), UNCHANGED signVars
  PROVE  SignPlaces'
<1>1. SignTypeOK' /\ \A r \in Sessions : MessagePlace(r)'
  BY DEF SignInv, SignPlaces, SignTypeOK, MessagePlace, signVars
<1>2. QED BY <1>1, ProtocolStages DEF SignPlaces

\* The signature is stored.
LEMMA PublishPlaces ==
  ASSUME SignInv, NEW s \in Sessions, PublishSignature(s)
  PROVE  SignPlaces'
<1> USE DEF SignInv, SignPlaces
<1>1. /\ wpc[s] = "body" /\ wpc' = [wpc EXCEPT ![s] = "published"]
      /\ script[s] = <<>> /\ stage[s] = "signing"
      /\ UNCHANGED <<members, script, callerVars, history>>
      /\ signatureReady' = [signatureReady EXCEPT ![s] = (s \in Signers)]
      /\ UNCHANGED <<messageReady, message, signing, stage, sawAbort, finalized,
                     accepted>>
  BY DEF PublishSignature, Publish, WorkerGoes
<1>2. SignTypeOK'
  BY <1>1 DEF SignTypeOK
<1>3. \A r \in Sessions : MessagePlace(r)'
  BY <1>1 DEF MessagePlace
<1>4. \A r \in Sessions : wpc'[r] = IF r = s THEN "published" ELSE wpc[r]
  BY <1>1 DEF Inv, TypeOK
<1>5. \A r \in Sessions :
        signatureReady'[r] = IF r = s THEN s \in Signers ELSE signatureReady[r]
  BY <1>1 DEF SignTypeOK
<1>6. ~fatal[s]
  BY <1>1 DEF Inv, Phases, Phase, Returned
<1>7. \A r \in Sessions : WorkerStage(r)'
  BY <1>1, <1>4 DEF WorkerStage, members, callerVars, history
<1>8. ASSUME NEW r \in Sessions PROVE SignaturePlace(r)'
  <2>1. CASE r = s
    BY <1>1, <1>4, <1>5, <1>6, <2>1 DEF SignaturePlace, Past, members
  <2>2. CASE r # s
    BY <1>1, <1>4, <1>5, <2>2 DEF SignaturePlace, members
  <2>3. QED BY <2>1, <2>2
<1>9. QED BY <1>2, <1>3, <1>7, <1>8

-----------------------------------------------------------------------------
(* The calling thread.                                                     *)

\* What a step of the calling thread leaves alone; a session being freed stays
\* so, and only freeing sets the abort.
LEMMA CallerLeavesProtocol ==
  ASSUME TypeOK, NEW s \in Sessions, InCall(s) \/ Call(s) \/ SpuriousWake(s)
  PROVE  /\ UNCHANGED <<wpc, fatal, script, workerDone, sent, waitRequestId>>
         /\ \A r \in Sessions :
              /\ aborted[r] => aborted'[r]
              /\ cpc[r] \in {"join", "freed"} => cpc'[r] \in {"join", "freed"}
              /\ aborted'[r] => aborted[r] \/ cpc'[r] = "join"
<1> USE DEF TypeOK, members, workerVars, callerVars, history, CallerGoes
<1>1. CASE AbortWorker(s)
  BY <1>1 DEF AbortWorker
<1>2. CASE Join(s)
  BY <1>2 DEF Join
<1>3. CASE StepPush(s) \/ StepSleep(s) \/ FinalizeSleep(s) \/ SpuriousWake(s)
  BY <1>3 DEF StepPush, StepSleep, FinalizeSleep, SpuriousWake
<1>4. CASE \/ StepError(s) \/ StepOutbound(s) \/ StepDone(s) \/ StepContinue(s)
           \/ FinalizeReturns(s)
  BY <1>4 DEF StepError, StepOutbound, StepDone, StepContinue, FinalizeReturns,
              StepReturns, Checking
<1>5. CASE Call(s)
  BY <1>5 DEF Call, StepCall, FinalizeCall, FreeCall
<1>6. QED
  BY <1>1, <1>2, <1>3, <1>4, <1>5 DEF InCall, InCallBase

\* Finalize finds the signature of a protocol that ended well.
LEMMA CallerPlaces ==
  ASSUME SignInv, NEW s \in Sessions,
         \/ SignInCall(s)
         \/ (Call(s) \/ SpuriousWake(s)) /\ UNCHANGED signVars
  PROVE  SignPlaces'
<1> USE DEF SignInv, SignPlaces
<1>1. InCall(s) \/ Call(s) \/ SpuriousWake(s)
  BY DEF SignInCall, Finalize, InCall
<1>2. UNCHANGED <<messageReady, message, signing, stage, sawAbort,
                  signatureReady, accepted>>
  BY DEF SignInCall, Finalize, signVars
<1>3. /\ UNCHANGED <<wpc, fatal, script, workerDone, sent, waitRequestId>>
      /\ \A r \in Sessions :
           /\ aborted[r] => aborted'[r]
           /\ cpc[r] \in {"join", "freed"} => cpc'[r] \in {"join", "freed"}
           /\ aborted'[r] => aborted[r] \/ cpc'[r] = "join"
  BY <1>1, CallerLeavesProtocol DEF Inv
<1>4. \A r \in Sessions : WorkerStage(r)'
  BY <1>2, <1>3 DEF WorkerStage
<1>5. \A r \in Sessions : MessagePlace(r)'
  BY <1>2 DEF MessagePlace
<1>6. /\ finalized' \in [Sessions -> SignAnswers]
      /\ \A r \in Sessions : finalized'[r] # "unready"
  <2>1. CASE UNCHANGED finalized
    BY <2>1 DEF SignTypeOK, SignaturePlace
  <2>2. CASE Finalize(s)
    <3>1. cpc[s] = "finwait" /\ (workerDone[s] \/ fatal[s])
      BY <2>2 DEF Finalize, FinalizeReturns
    <3>2. fatal[s] \/ wpc[s] \in Past
      BY <3>1 DEF Inv, Phases, Phase, Past, Returned
    <3>3. stage[s] = "signing" \/ fatal[s]
      BY <3>1, <3>2 DEF SignTypeOK, Stages, WorkerStage, Past, Returned
    <3>4. fatal[s] \/ s \notin Signers \/ signatureReady[s]
      BY <3>2, <3>3 DEF SignaturePlace
    <3>5. finalized' = [finalized EXCEPT ![s] =
             IF fatal[s] THEN "failed"
             ELSE IF s \notin Signers THEN "unavailable" ELSE "signature"]
      BY <2>2, <3>4 DEF Finalize
    <3>6. QED BY <3>5 DEF SignTypeOK, SignAnswers, SignaturePlace
  <2>3. QED BY <2>1, <2>2 DEF SignInCall, signVars
<1>7. SignTypeOK'
  BY <1>2, <1>6 DEF SignTypeOK
<1>8. \A r \in Sessions : SignaturePlace(r)'
  BY <1>2, <1>3, <1>6 DEF SignaturePlace
<1>9. QED BY <1>4, <1>5, <1>7, <1>8

-----------------------------------------------------------------------------
(* The theorems.                                                           *)

\* Every step keeps SignInv.
LEMMA SignNextInv ==
  ASSUME SignInv, [SignNext]_allVars
  PROVE  SignInv'
<1>1. Inv'
  BY SignNextIsNext, NextInv, QuitKeeps DEF SignInv
<1>2. SignPlaces'
  <2>1. CASE UNCHANGED allVars
    BY <2>1 DEF SignInv, SignPlaces, SignTypeOK, WorkerStage, MessagePlace,
       SignaturePlace, allVars, vars, members, workerVars, callerVars, history,
       signVars
  <2>2. ASSUME NEW s \in Sessions, SignWorker(s) PROVE SignPlaces'
    BY <2>2, WaitPlaces, PublishPlaces, ProtocolPlaces DEF SignWorker
  <2>3. QED
    BY <2>1, <2>2, CallerPlaces, WaitPlaces, SetMessagePlaces
       DEF SignNext, Freed, allVars
<1>3. QED BY <1>1, <1>2 DEF SignInv

\* SignInv is an invariant of every signing session.
THEOREM SignInvariant == SignSpec => []SignInv
BY SignInitInv, SignNextInv, PTL DEF SignSpec

\* The variables of both classes keep their types.
THEOREM SignTypeCorrect == SignSpec => [](TypeOK /\ SignTypeOK)
<1>1. SignInv => TypeOK /\ SignTypeOK
  BY DEF SignInv, Inv, SignPlaces
<1>2. QED BY <1>1, SignInvariant, PTL

\* What is signed is the first message the client set.
THEOREM FirstMessageCorrect == SignSpec => []SignsFirstMessage
<1>1. SignInv => SignsFirstMessage
  BY DEF SignInv, SignPlaces, MessagePlace, SignsFirstMessage
<1>2. QED BY <1>1, SignInvariant, PTL

\* A signature comes only from a protocol that ran to its end, for p1, and p1
\* never misses it after a successful run.
THEOREM SignatureCorrect == SignSpec => []SignatureOnlyFromSuccess
<1>1. SignInv => SignatureOnlyFromSuccess
  BY DEF SignInv, SignPlaces, MessagePlace, SignaturePlace, SignatureOnlyFromSuccess
<1>2. QED BY <1>1, SignInvariant, PTL

\* The worker is silent until the client has set a message.
THEOREM SilentCorrect == SignSpec => []SilentUntilMessage
<1>1. SignInv => SilentUntilMessage
  <2> SUFFICES ASSUME SignInv, NEW s \in Sessions,
                      accepted[s] = <<>>, cpc[s] \notin {"join", "freed"}
               PROVE  sent[s] = 0 /\ waitRequestId[s] = 0 /\ ~workerDone[s]
    BY DEF SilentUntilMessage
  <2>1. stage[s] \in {"wait", "sleep", "quit"}
    BY DEF SignInv, SignPlaces, SignTypeOK, Stages, MessagePlace
  <2>2. sent[s] = 0 /\ waitRequestId[s] = 0 /\ wpc[s] = "body"
    BY <2>1 DEF SignInv, SignPlaces, WorkerStage
  <2>3. QED BY <2>2 DEF SignInv, Inv, Phases, Phase
<1>2. QED BY <1>1, SignInvariant, PTL

-----------------------------------------------------------------------------
(* What a signing session has from its base class.                         *)

\* The base class's invariants hold at the start of a signing session, and its
\* every step keeps them.
LEMMA SignBaseInit ==
  SignInit => NoLostWakeup /\ DoneIsFinal /\ OrderInv /\ HeardInv /\ CountInv
BY WakeInit, DoneInit, OrderInit, HeardInit, CountInit DEF SignInit

LEMMA SignBaseNext ==
  ASSUME SignInv, [SignNext]_allVars
  PROVE  /\ NoLostWakeup => NoLostWakeup'
         /\ DoneIsFinal => DoneIsFinal'
         /\ OrderInv => OrderInv'
         /\ HeardInv => HeardInv'
         /\ CountInv => CountInv'
<1>1. Inv
  BY DEF SignInv
<1>2. CASE [Next]_vars
  BY <1>1, <1>2, WakeNext, DoneNext, OrderNext, HeardNext, CountNext
<1>3. ASSUME NEW s \in Sessions, Quit(s)
      PROVE  /\ NoLostWakeup => NoLostWakeup'
             /\ DoneIsFinal => DoneIsFinal'
             /\ OrderInv => OrderInv'
             /\ HeardInv => HeardInv'
             /\ CountInv => CountInv'
  BY <1>1, <1>3, QuitKeeps
<1>4. QED BY <1>2, <1>3, SignNextIsNext

\* No thread of a signing session sleeps through a change it waits for: neither
\* on the base class's condition variable, nor the worker on message_cv_, where
\* it sleeps only while the client has set no message at all.
THEOREM SignWakeupCorrect ==
  SignSpec =>
    []( /\ NoLostWakeup
        /\ \A s \in Sessions : stage[s] = "sleep" => accepted[s] = <<>> )
<1>1. SignInv => \A s \in Sessions : stage[s] = "sleep" => accepted[s] = <<>>
  BY DEF SignInv, SignPlaces, MessagePlace
<1>2. SignSpec => []NoLostWakeup
  BY SignBaseInit, SignBaseNext, SignInvariant, PTL DEF SignSpec
<1>3. QED BY <1>1, <1>2, SignInvariant, PTL

\* Nor does a call wait for a worker asleep on cv_, but for a stuck Step and a
\* starved Finalize.
THEOREM SignDeadlockCorrect == SignSpec => []NoDeadlock
<1>1. SignSpec => []CountInv
  BY SignBaseInit, SignBaseNext, SignInvariant, PTL DEF SignSpec
<1>2. SignSpec => []NoLostWakeup
  BY SignWakeupCorrect, PTL
<1>3. SignInv => Inv
  BY DEF SignInv
<1>4. QED BY <1>1, <1>2, <1>3, AwakeOrStuck, SignInvariant, PTL

\* A step of a signing session answers Done only for a protocol that ran to its
\* end without error and left no message behind; messages leave in the order of
\* sending, none twice.
THEOREM SignDoneCorrect == SignSpec => [](DoneIsFinal /\ HandedInOrder)
<1>1. OrderInv => HandedInOrder
  BY DEF OrderInv
<1>2. SignSpec => []DoneIsFinal
  BY SignBaseInit, SignBaseNext, SignInvariant, PTL DEF SignSpec
<1>3. SignSpec => []OrderInv
  BY SignBaseInit, SignBaseNext, SignInvariant, PTL DEF SignSpec
<1>4. QED BY <1>1, <1>2, <1>3, PTL

\* Each step of a SignSession is a step of the promise, or none.
LEMMA SignPromiseStep ==
  ASSUME SignInv, HeardInv, [SignNext]_allVars
  PROVE  [Promise!SNext]_<<Shown, [s \in Sessions |-> 0]>>
<1>1. CASE reply' = reply
  BY <1>1 DEF Shown, Heard
<1>2. ASSUME NEW s \in Sessions, InCall(s) \/ AnyCall(s) \/ SpuriousWake(s),
             reply' # reply
      PROVE  Promise!SNext
  <2>1. PICK a \in [state : Answers, msg : Nat] :
          /\ reply' = [reply EXCEPT ![s] = a]
          /\ a.state = "error" <=> fatal[s]
          /\ a.state \in {"done", "finished"} <=> workerDone[s] /\ ~fatal[s]
    BY <1>2, AnswerIsSo DEF SignInv
  <2>2. UNCHANGED <<fatal, workerDone>>
    BY <1>2, AnswerIsSo DEF SignInv
  <2>3. \E p \in Promise!After(Shown[s]) : Shown' = [Shown EXCEPT ![s] = p]
    BY <2>1, <2>2, HeardStep DEF SignInv, Shown, Promise!After, Promise!Phases
  <2>4. QED BY <2>3 DEF Shown, Promise!SNext, Promise!StepAnswers
<1>3. ASSUME NEW s \in Sessions, Worker(s) PROVE reply' = reply
  BY <1>3, EndStays DEF SignInv
<1>4. ASSUME NEW s \in Sessions, Quit(s) PROVE reply' = reply
  BY <1>4 DEF Quit, callerVars
<1>5. QED
  BY <1>1, <1>2, <1>3, <1>4, SignNextIsNext, CallIsAnyCall
     DEF Next, Freed, vars, callerVars

\* A SignSession implements StepSession: whatever its two threads do, when the
\* message is set and in whatever order Step and Finalize are called, an end
\* once reported stays.
THEOREM SignPromiseCorrect == SignSpec => KeepsPromise
<1>1. SignInit => Promise!SInit
  BY DEF SignInit, Init, Promise!SInit, Heard, Answer
<1>2. SignInv /\ HeardInv /\ [SignNext]_allVars
        => [Promise!SNext]_<<[s \in Sessions |-> Heard(s)],
                             [s \in Sessions |-> 0]>>
  BY SignPromiseStep DEF Shown
<1>3. SignSpec => []HeardInv
  BY SignBaseInit, SignBaseNext, SignInvariant, PTL DEF SignSpec
<1>4. QED
  BY <1>1, <1>2, <1>3, SignInvariant, PTL
     DEF SignSpec, KeepsPromise, Promise!SSpec

=============================================================================
