----------------------------- MODULE DkgSession -----------------------------
(***************************************************************************)
(* DkgSessionImpl and RefreshSessionImpl of cpp/src/bridge.cpp: an         *)
(* AsyncSession whose worker runs key generation or refresh and publishes  *)
(* the new key share, which Finalize hands out as a keypair.  The two      *)
(* classes differ only in the protocol they run.                           *)
(***************************************************************************)
EXTENDS AsyncSession

VARIABLES keyReady,   \* key_ready_
          finalized,  \* the last answer of Finalize
          issued      \* history: keypairs handed out

dkgVars == <<keyReady, finalized, issued>>
allVars == <<vars, dkgVars>>

FinalizeAnswers == {"none", "keypair", "failed", "incomplete"}

\* The scripts of the two parties to one protocol, as the single outbound slot
\* supposes them: what one sends the other receives, and who has spoken waits
\* for the answer before it speaks again.
Conversation(a, b) ==
  /\ Len(a) = Len(b)
  /\ \A i \in 1 .. Len(a) : a[i] # b[i]
  /\ \A i \in 1 .. Len(a) - 1 : a[i] # a[i + 1]

DkgInit ==
  /\ Init
  /\ keyReady  = [s \in Sessions |-> FALSE]
  /\ finalized = [s \in Sessions |-> "none"]
  /\ issued    = [s \in Sessions |-> 0]

\* Slip: the key is stored without raising key_ready_.
PublishUnready(s) == Publish(s) /\ UNCHANGED dkgVars

\* Worker stores the key share and raises key_ready_ under the mutex; the
\* notification is PublishNotify.
PublishKey(s) ==
  /\ Publish(s)
  /\ keyReady' = [keyReady EXCEPT ![s] = TRUE]
  /\ UNCHANGED <<finalized, issued>>

\* Slip: key_ready_ stays up when the key is given out.
FinalizeAgain(s) ==
  /\ FinalizeReturns(s)
  /\ finalized' = [finalized EXCEPT ![s] = IF fatal[s] THEN "failed" ELSE "keypair"]
  /\ issued' = [issued EXCEPT ![s] = IF fatal[s] THEN @ ELSE @ + 1]
  /\ UNCHANGED keyReady

\* Finalize waits for the worker, rethrows its failure, and gives the key out
\* once.
Finalize(s) ==
  /\ FinalizeReturns(s)
  /\ finalized' = [finalized EXCEPT ![s] =
        IF fatal[s] THEN "failed"
        ELSE IF keyReady[s] THEN "keypair" ELSE "incomplete"]
  /\ \/ /\ ~fatal[s] /\ keyReady[s]
        /\ keyReady' = [keyReady EXCEPT ![s] = FALSE]
        /\ issued' = [issued EXCEPT ![s] = @ + 1]
     \/ /\ fatal[s] \/ ~keyReady[s]
        /\ UNCHANGED <<keyReady, issued>>

DkgWorker(s) == PublishKey(s) \/ (WorkerBase(s) /\ UNCHANGED dkgVars)
DkgInCall(s) == Finalize(s) \/ (InCallBase(s) /\ UNCHANGED dkgVars)

DkgNext ==
  \/ \E s \in Sessions :
       \/ DkgWorker(s) \/ DkgInCall(s)
       \/ (Call(s) \/ SpuriousWake(s)) /\ UNCHANGED dkgVars
  \/ Freed /\ UNCHANGED dkgVars

DkgSpec == DkgInit /\ [][DkgNext]_allVars

DkgFairness ==
  \A s \in Sessions : WF_allVars(DkgWorker(s)) /\ WF_allVars(DkgInCall(s))

FairDkgSpec == DkgSpec /\ DkgFairness

-----------------------------------------------------------------------------
(* Properties.                                                             *)

\* The type invariant of the derived class.
DkgTypeOK ==
  /\ keyReady \in [Sessions -> BOOLEAN]
  /\ finalized \in [Sessions -> FinalizeAnswers]
  /\ issued \in [Sessions -> Nat]

\* A session gives out at most one keypair, and a keypair still to be given
\* out is not one it gave out before.
IssuedOnce ==
  \A s \in Sessions : issued[s] <= 1 /\ (keyReady[s] => issued[s] = 0)

\* Once a step has answered Done, the key share is there: the next Finalize
\* neither blocks nor finds the session failed or incomplete.
DoneMeansKey ==
  \A s \in Sessions : reply[s].state = "done" =>
    /\ workerDone[s] /\ ~fatal[s]
    /\ keyReady[s] \/ issued[s] = 1

\* A keypair comes only from a protocol that ran to its end and did not fail,
\* and Finalize reports "incomplete" only when the keypair is already out.
KeyOnlyFromSuccess ==
  \A s \in Sessions :
    /\ keyReady[s] \/ issued[s] > 0 => ~fatal[s] /\ script[s] = <<>>
    /\ finalized[s] = "incomplete" => issued[s] = 1

Promise == INSTANCE StepSession WITH
             phase <- [s \in Sessions |-> Heard(s)],
             given <- issued

\* The session keeps what bridge.h promises of it: whatever its threads do and
\* in whatever order Step and Finalize are called, an end once reported stays,
\* and the key is given out once, by a session that has not failed.
KeepsPromise == Promise!SSpec

\* The worker enters the protocol's objects: it sends or receives through the
\* FiberJob, or stores the key.
UsesDerivedMembers(s) ==
  \/ sent'[s] # sent[s]
  \/ waitRequestId'[s] # waitRequestId[s]
  \/ keyReady'[s] /\ ~keyReady[s]

\* The worker never touches the derived object's members once they are
\* destroyed.  README.md: sessions are freed with their *_free functions, and
\* says nothing of finishing the protocol first.
NoUseAfterDestroy ==
  [][\A s \in Sessions :
       UsesDerivedMembers(s) => cpc[s] \notin {"free", "join", "freed"}]_allVars

=============================================================================
