-------------------------- MODULE NodeAddonProofs ---------------------------
(***************************************************************************)
(* Memory safety of the Node addon for any number of handles, of queued    *)
(* steps and of threads in the pool, and whatever JavaScript calls, frees  *)
(* and drops, in any order.                                                *)
(*                                                                         *)
(* What the objects hold is what is there (WrappersHold); a step that is   *)
(* under way finds what it needs unless something was freed hastily        *)
(* (InUse); and nothing outlives the context unless it was shut down early *)
(* (Outlived).                                                             *)
(***************************************************************************)
EXTENDS NodeAddon, TLAPS

-----------------------------------------------------------------------------
(***************************************************************************)
(* The C API for any number of handles, whichever allocations fail and in  *)
(* whatever order a program calls.  All calls but two leave the keys where *)
(* they are (Ordinary); dkg_finalize moves one (KeyMoves) or loses it for  *)
(* want of memory (KeyLost).                                               *)
(***************************************************************************)

\* Where the key of d is; a handle that is no generation has none.
KeyOf(d) ==
  /\ handle[d].kind # "dkg" => handle[d].session = "open"
  /\ handle[d].session = "open" =>
       <<"key", d>> \notin lost /\ \A k \in Handles : handle[k].from # d
  /\ handle[d].session # "open" /\ <<"key", d>> \in lost =>
       \A k \in Handles : handle[k].from # d
  /\ handle[d].session # "open" /\ <<"key", d>> \notin lost =>
       \E k \in Handles : \A j \in Handles : handle[j].from = d <=> j = k

CInv == CTypeOK /\ \A d \in Handles : KeyOf(d)

\* What an object may become in a call that leaves its key alone.
Becomes(a, b) ==
  /\ b.session = a.session /\ b.from = a.from
  /\ b.kind = a.kind \/ a = Unused
  /\ b.live => b.kind # "none"
  /\ b.phase = a.phase \/ a.phase = "running"

\* What every call leaves well typed, besides the handles.
FlagsOK ==
  /\ ctx \in {"none", "up", "down"}
  /\ answer.status \in Statuses /\ answer.on \in Handles \cup {Nothing}
  /\ lost \subseteq {"message", "key"} \X Handles
  /\ stray \in BOOLEAN /\ torn \in BOOLEAN /\ early \in BOOLEAN /\ hung \in BOOLEAN

Ordinary ==
  /\ \/ UNCHANGED handle
     \/ \E h \in Handles, b \in Objects :
          Becomes(handle[h], b) /\ handle' = [handle EXCEPT ![h] = b]
  /\ \A d \in Handles : <<"key", d>> \in lost' <=> <<"key", d>> \in lost
  /\ FlagsOK'

KeyMoves(h, k, keeps) ==
  /\ handle[h].kind = "dkg" /\ handle[h].session = "open"
  /\ handle[h].phase # "failed" /\ handle[k] = Unused
  /\ handle' = [handle EXCEPT ![h].phase = "done", ![h].session = "null",
                              ![h].live = keeps, ![k] = Made("kp", h)]
  /\ UNCHANGED lost
  /\ answer'.status = "ok"
  /\ FlagsOK'

KeyLost(h) ==
  /\ handle[h].kind = "dkg" /\ handle[h].session = "open"
  /\ handle[h].phase # "failed"
  /\ \E s \in {"empty", "null"} :
       handle' = [handle EXCEPT ![h].phase = "done", ![h].session = s]
  /\ lost' = lost \cup {<<"key", h>>}
  /\ answer'.status = "memory"
  /\ FlagsOK'

-----------------------------------------------------------------------------
(* What each call does.                                                    *)

AnswerOK == answer.status \in Statuses /\ answer.on \in Handles \cup {Nothing}

\* A call that answers says to whom, and with a status there is.
LEMMA AnswersOK ==
  /\ \A call : \A h \in Handles \cup {Nothing}, status \in Statuses :
       Answers(call, h, status) => AnswerOK'
  /\ {"ok", "refused", "memory", "failed", "thrown", "never"} \subseteq Statuses
BY DEF Answers, AnswerOK, Statuses

\* The context comes and goes.
LEMMA ContextCalls ==
  ASSUME CTypeOK, maany_mpc_init \/ maany_mpc_shutdown
  PROVE  Ordinary
<1>1. AnswerOK'
  BY AnswersOK DEF maany_mpc_init, maany_mpc_shutdown
<1>2. QED
  BY <1>1 DEF CTypeOK, maany_mpc_init, maany_mpc_shutdown, Ordinary, FlagsOK, AnswerOK

\* A new handle is made.
LEMMA CreateCalls ==
  ASSUME CTypeOK, NEW call, NEW h \in Handles, NEW kind \in {"dkg", "sign", "kp"},
         Create(call, h, Made(kind, Nothing)), torn' \in BOOLEAN
  PROVE  Ordinary
<1> DEFINE b == Made(kind, Nothing)
<1>1. b \in Objects /\ Becomes(Unused, b) /\ handle[h] = Unused
  BY DEF Made, Objects, Unused, Phases, Sessions, Becomes, Create
<1>2. /\ handle' = [handle EXCEPT ![h] = b] \/ UNCHANGED handle
      /\ UNCHANGED <<ctx, lost, stray, early>>
      /\ hung' \in BOOLEAN
  BY DEF Create, Hangs, CTypeOK
<1>3. AnswerOK'
  BY AnswersOK DEF Create, Hangs
<1> HIDE DEF b
<1>4. QED BY <1>1, <1>2, <1>3 DEF Ordinary, CTypeOK, FlagsOK, AnswerOK

\* A call that leaves the handles alone, refused or thrown out of.
LEMMA NoCalls ==
  ASSUME CTypeOK, NEW call, NEW h \in Handles,
         CopyInFails(call, h) \/ Throws(call, h), torn' \in BOOLEAN
  PROVE  Ordinary
<1>1. AnswerOK'
  BY AnswersOK DEF CopyInFails, Throws
<1>2. QED
  BY <1>1 DEF CopyInFails, Throws, CTypeOK, FlagsOK, AnswerOK, Ordinary

\* A handle is made, a key read in, a backup restored.
LEMMA MakingCalls ==
  ASSUME CTypeOK, NEW h \in Handles,
         maany_mpc_dkg_new(h) \/ maany_mpc_kp_import(h) \/ maany_mpc_backup_restore(h)
  PROVE  Ordinary
BY CreateCalls, NoCalls DEF maany_mpc_dkg_new, maany_mpc_kp_import,
   maany_mpc_backup_restore, CTypeOK

\* A step of a session.
LEMMA StepCalls ==
  ASSUME CTypeOK, NEW call, NEW h \in Handles, NEW wanted, NEW out,
         StepReturns(call, h, wanted, out)
  PROVE  Ordinary
<1>1. FlagsOK' /\ \A d \in Handles : <<"key", d>> \in lost' <=> <<"key", d>> \in lost
  BY DEF StepReturns, CopyInFails, CopyOut, Answers, Statuses, CTypeOK, FlagsOK
<1>2. \/ UNCHANGED handle
      \/ \E p \in Phases :
           /\ p = handle[h].phase \/ handle[h].phase = "running"
           /\ handle' = [handle EXCEPT ![h].phase = p]
  <2>1. handle[h].phase \in Phases
    BY DEF CTypeOK, Objects
  <2>2. QED BY <2>1 DEF StepReturns, CopyInFails, Phases
<1>3. ASSUME NEW p \in Phases, p = handle[h].phase \/ handle[h].phase = "running",
             handle' = [handle EXCEPT ![h].phase = p]
      PROVE  Ordinary
  <2> DEFINE b == [handle[h] EXCEPT !.phase = p]
  <2>1. b \in Objects /\ Becomes(handle[h], b)
    BY <1>3 DEF CTypeOK, Objects, Becomes
  <2>2. handle' = [handle EXCEPT ![h] = b]
    BY <1>3
  <2> HIDE DEF b
  <2>3. QED BY <1>1, <2>1, <2>2 DEF Ordinary
<1>4. QED BY <1>1, <1>2, <1>3 DEF Ordinary

\* The message to sign, and the signature.
LEMMA SignCalls ==
  ASSUME CTypeOK, NEW h \in Handles,
         maany_mpc_sign_set_message(h) \/ maany_mpc_sign_finalize(h)
  PROVE  Ordinary
<1>1. FlagsOK' /\ \A d \in Handles : <<"key", d>> \in lost' <=> <<"key", d>> \in lost
  <2>1. AnswerOK'
    BY AnswersOK DEF maany_mpc_sign_set_message, maany_mpc_sign_finalize
  <2>2. QED
    BY <2>1 DEF maany_mpc_sign_set_message, maany_mpc_sign_finalize, Uses, CTypeOK,
       FlagsOK, AnswerOK
<1>2. ASSUME NEW b \in Objects, Becomes(handle[h], b), handle' = [handle EXCEPT ![h] = b]
      PROVE  Ordinary
  BY <1>1, <1>2 DEF Ordinary
<1>3. handle[h] \in Objects /\ handle[h].live => handle[h].kind # "none"
  BY DEF CTypeOK
<1>4. CASE maany_mpc_sign_set_message(h)
  <2> DEFINE b == [handle[h] EXCEPT !.armed = TRUE]
  <2>1. b \in Objects /\ Becomes(handle[h], b)
    BY <1>4 DEF CTypeOK, Objects, Becomes, maany_mpc_sign_set_message
  <2>2. handle' = [handle EXCEPT ![h] = b] \/ UNCHANGED handle
    BY <1>4 DEF maany_mpc_sign_set_message
  <2> HIDE DEF b
  <2>3. QED BY <1>1, <2>1, <2>2 DEF Ordinary
<1>5. CASE maany_mpc_sign_finalize(h)
  <2>1. PICK p \in Phases : /\ p = handle[h].phase \/ handle[h].phase = "running"
                            /\ handle' = [handle EXCEPT ![h].phase = p]
    <3>1. handle[h].phase \in Phases
      BY DEF CTypeOK, Objects
    <3>2. QED BY <1>5, <3>1 DEF maany_mpc_sign_finalize, Phases
  <2> DEFINE b == [handle[h] EXCEPT !.phase = p]
  <2>2. b \in Objects /\ Becomes(handle[h], b)
    BY <1>5, <2>1 DEF CTypeOK, Objects, Becomes, maany_mpc_sign_finalize
  <2>3. handle' = [handle EXCEPT ![h] = b]
    BY <2>1
  <2> HIDE DEF b
  <2>4. QED BY <1>2, <2>2, <2>3
<1>6. QED BY <1>4, <1>5

\* Calls that leave the handles alone: reading a keypair, and hanging.
LEMMA PassiveCalls ==
  ASSUME CTypeOK, NEW h \in Handles,
         \/ maany_mpc_kp_export(h) \/ maany_mpc_kp_pubkey(h) \/ maany_mpc_kp_meta(h)
         \/ maany_mpc_backup_create(h)
         \/ \E call \in {"dkg_step", "dkg_finalize", "sign_step", "sign_finalize"} :
              Blocks(call, h)
  PROVE  Ordinary
<1> USE DEF CTypeOK, FlagsOK, Ordinary, AnswerOK
<1>1. CASE maany_mpc_kp_export(h) \/ maany_mpc_kp_pubkey(h) \/ maany_mpc_kp_meta(h)
  <2>1. AnswerOK'
    BY <1>1, AnswersOK
       DEF maany_mpc_kp_export, maany_mpc_kp_pubkey, maany_mpc_kp_meta, Query
  <2>2. QED
    BY <1>1, <2>1
       DEF maany_mpc_kp_export, maany_mpc_kp_pubkey, maany_mpc_kp_meta, Query, Uses
<1>2. CASE maany_mpc_backup_create(h)
  <2>1. AnswerOK'
    BY <1>2, AnswersOK DEF maany_mpc_backup_create
  <2>2. QED BY <1>2, <2>1 DEF maany_mpc_backup_create, Uses
<1>3. ASSUME NEW call, Blocks(call, h) PROVE Ordinary
  <2>1. AnswerOK'
    BY <1>3, AnswersOK DEF Blocks, Hangs
  <2>2. QED BY <1>3, <2>1 DEF Blocks, Hangs
<1>4. QED BY <1>1, <1>2, <1>3

\* A handle is freed.
LEMMA FreeCalls ==
  ASSUME CTypeOK, NEW call, NEW h \in Handles, FreeHandle(call, h)
  PROVE  Ordinary
<1> DEFINE b == [handle[h] EXCEPT !.live = FALSE]
<1>1. b \in Objects /\ Becomes(handle[h], b)
  BY DEF CTypeOK, Objects, Becomes
<1>2. handle' = [handle EXCEPT ![h] = b] \/ UNCHANGED handle
  BY DEF FreeHandle
<1>3. FlagsOK' /\ lost' = lost
  <2>1. AnswerOK'
    BY AnswersOK DEF FreeHandle, Hangs
  <2>2. QED BY <2>1 DEF FreeHandle, Uses, Hangs, CTypeOK, FlagsOK, AnswerOK
<1> HIDE DEF b
<1>4. QED BY <1>1, <1>2, <1>3 DEF Ordinary

\* dkg_finalize refuses, fails, moves the key, or loses it.
LEMMA FinalizeCalls ==
  ASSUME CTypeOK, NEW h \in Handles, NEW k \in Handles, NEW keeps \in BOOLEAN,
         FinalizeDkg(h, k, keeps)
  PROVE  Ordinary \/ KeyMoves(h, k, keeps) \/ KeyLost(h)
<1>1. FlagsOK'
  BY DEF FinalizeDkg, Uses, Answers, Statuses, CTypeOK, FlagsOK
<1>2. CASE /\ handle[h].phase # "done" /\ UNCHANGED lost /\ handle[h].kind = "dkg"
           /\ handle' = [handle EXCEPT ![h].phase = "failed"]
  <2> DEFINE b == [handle[h] EXCEPT !.phase = "failed"]
  <2>1. b \in Objects /\ Becomes(handle[h], b)
    BY <1>2 DEF CTypeOK, Objects, Becomes, Phases
  <2>2. handle' = [handle EXCEPT ![h] = b]
    BY <1>2
  <2> HIDE DEF b
  <2>3. QED BY <1>1, <1>2, <2>1, <2>2 DEF Ordinary
<1>3. CASE UNCHANGED <<handle, lost>>
  BY <1>1, <1>3 DEF Ordinary
<1>4. QED BY <1>1, <1>2, <1>3 DEF FinalizeDkg, KeyMoves, KeyLost, Answers

\* Every step of a program is one of the three.
LEMMA Kinds ==
  ASSUME CTypeOK, CNext
  PROVE  Ordinary \/ UNCHANGED apiVars
         \/ \E h, k \in Handles : KeyMoves(h, k, TRUE) \/ KeyLost(h)
<1>1. ASSUME NEW h \in Handles,
             maany_mpc_dkg_new(h) \/ maany_mpc_kp_import(h) \/ maany_mpc_backup_restore(h)
      PROVE  Ordinary
  BY <1>1, MakingCalls
<1>2. ASSUME NEW k \in Handles, NEW h \in Handles,
             maany_mpc_sign_new(k, h) \/ maany_mpc_refresh_new(k, h)
      PROVE  Ordinary
  BY <1>2, CreateCalls DEF maany_mpc_sign_new, maany_mpc_refresh_new, Uses, CTypeOK
<1>3. ASSUME NEW h \in Handles, OnHandle(h)
      PROVE  Ordinary \/ \E k \in Handles : KeyMoves(h, k, TRUE) \/ KeyLost(h)
  <2>1. ASSUME NEW wanted, NEW out,
               maany_mpc_dkg_step(h, wanted, out) \/ maany_mpc_sign_step(h, wanted, out)
        PROVE  Ordinary
    BY <2>1, StepCalls DEF maany_mpc_dkg_step, maany_mpc_sign_step
  <2>2. ASSUME NEW k \in Handles, maany_mpc_dkg_finalize(h, k)
        PROVE  Ordinary \/ KeyMoves(h, k, TRUE) \/ KeyLost(h)
    BY <2>2, FinalizeCalls DEF maany_mpc_dkg_finalize
  <2>3. QED BY <1>3, <2>1, <2>2, <1>2, SignCalls, PassiveCalls DEF OnHandle
<1>4. ASSUME NEW h \in Handles, FreesHandle(h) PROVE Ordinary
  BY <1>4, FreeCalls DEF FreesHandle, maany_mpc_dkg_free, maany_mpc_sign_free,
     maany_mpc_kp_free
<1>5. QED BY <1>1, <1>3, <1>4, ContextCalls DEF CNext, Rest

-----------------------------------------------------------------------------
(* The invariant.                                                          *)

\* A fresh context has no handles.
LEMMA CInitInv == CInit => CInv
<1> SUFFICES ASSUME CInit PROVE CInv
  OBVIOUS
<1>1. Unused \in Objects /\ ~Unused.live /\ Unused.from = Nothing
      /\ Unused.session = "open" /\ Unused.kind = "none"
  BY DEF Unused, Objects, Phases, Sessions
<1>2. CTypeOK
  BY <1>1 DEF CInit, CTypeOK, Statuses
<1>3. ASSUME NEW d \in Handles PROVE KeyOf(d)
  BY <1>1, CApiAssumption DEF CInit, KeyOf
<1>4. QED BY <1>2, <1>3 DEF CInv

\* An ordinary call leaves every key where it is.
LEMMA OrdinaryInv ==
  ASSUME CInv, Ordinary
  PROVE  CInv'
<1>1. \A r \in Handles :
        /\ handle'[r] \in Objects
        /\ handle'[r].live => handle'[r].kind # "none"
        /\ handle'[r].session = handle[r].session /\ handle'[r].from = handle[r].from
        /\ handle'[r].kind = handle[r].kind \/ handle[r].kind = "none"
  BY DEF Ordinary, Becomes, CInv, CTypeOK, Unused
<1>2. CTypeOK'
  <2>1. handle' \in [Handles -> Objects]
    BY DEF Ordinary, CInv, CTypeOK
  <2>2. QED BY <1>1, <2>1 DEF Ordinary, FlagsOK, CTypeOK
<1>3. ASSUME NEW d \in Handles PROVE KeyOf(d)'
  <2>1. <<"key", d>> \in lost' <=> <<"key", d>> \in lost
    BY DEF Ordinary
  <2>2. handle'[d].session = handle[d].session
        /\ (handle'[d].kind # "dkg" => handle[d].kind # "dkg")
    BY <1>1
  <2>3. \A k \in Handles : handle'[k].from = handle[k].from
    BY <1>1
  <2>4. KeyOf(d)
    BY DEF CInv
  <2>5. QED BY <2>1, <2>2, <2>3, <2>4 DEF KeyOf
<1>4. QED BY <1>2, <1>3 DEF CInv

\* The key goes to the one new keypair.
LEMMA KeyMovesInv ==
  ASSUME CInv, NEW h \in Handles, NEW k \in Handles, NEW keeps \in BOOLEAN,
         KeyMoves(h, k, keeps)
  PROVE  CInv'
<1> DEFINE spent == [handle[h] EXCEPT !.phase = "done", !.session = "null", !.live = keeps]
           new == Made("kp", h)
<1>1. h # k
  BY DEF KeyMoves, Unused
<1>2. handle' = [[handle EXCEPT ![h] = spent] EXCEPT ![k] = new]
  BY <1>1 DEF KeyMoves, CInv, CTypeOK
<1>3. /\ spent \in Objects /\ spent.kind = "dkg" /\ spent.session = "null"
      /\ spent.from = handle[h].from
  BY DEF KeyMoves, CInv, CTypeOK, Objects, Phases, Sessions
<1>4. /\ new \in Objects /\ new.kind = "kp" /\ new.session = "open" /\ new.from = h
  BY DEF Made, Unused, Objects, Phases, Sessions
<1> HIDE DEF spent, new
<1>5. handle' \in [Handles -> Objects]
  BY <1>2, <1>3, <1>4 DEF CInv, CTypeOK
<1>6. \A r \in Handles : handle'[r] = IF r = k THEN new ELSE IF r = h THEN spent ELSE handle[r]
  BY <1>2 DEF CInv, CTypeOK
<1>7. CTypeOK'
  BY <1>3, <1>4, <1>5, <1>6 DEF KeyMoves, FlagsOK, CInv, CTypeOK
<1>8. /\ handle[k].session = "open" /\ handle[k].kind = "none" /\ handle[k].from = Nothing
      /\ lost' = lost /\ handle[h].kind = "dkg" /\ handle[h].session = "open"
  BY DEF KeyMoves, Unused
<1>9. \A r \in Handles : handle'[r].from = IF r = k THEN h ELSE handle[r].from
  BY <1>3, <1>4, <1>6
<1>10. ASSUME NEW d \in Handles PROVE KeyOf(d)'
  <2>1. KeyOf(d) /\ KeyOf(h) /\ KeyOf(k)
    BY DEF CInv
  <2>2. CASE d = h
    <3>1. \A j \in Handles : handle'[j].from = h <=> j = k
      BY <1>8, <1>9, <2>1 DEF KeyOf
    <3>2. handle'[h].kind = "dkg" /\ handle'[h].session = "null" /\ <<"key", h>> \notin lost'
      BY <1>1, <1>3, <1>6, <1>8, <2>1 DEF KeyOf
    <3>3. QED BY <2>2, <3>1, <3>2 DEF KeyOf
  <2>3. CASE d = k
    <3>1. handle'[k].kind = "kp" /\ handle'[k].session = "open" /\ <<"key", k>> \notin lost'
      BY <1>4, <1>6, <1>8, <2>1 DEF KeyOf
    <3>2. \A j \in Handles : handle'[j].from # k
      BY <1>1, <1>8, <1>9, <2>1 DEF KeyOf
    <3>3. QED BY <2>3, <3>1, <3>2 DEF KeyOf
  <2>4. CASE d # h /\ d # k
    <3>1. handle'[d] = handle[d]
      BY <1>6, <2>4
    <3>2. \A j \in Handles : handle'[j].from = d <=> handle[j].from = d
      BY <1>8, <1>9, <2>4, CApiAssumption
    <3>3. QED BY <1>8, <2>1, <3>1, <3>2 DEF KeyOf
  <2>5. QED BY <2>2, <2>3, <2>4
<1>11. QED BY <1>7, <1>10 DEF CInv

\* The key is lost, and that is on record.
LEMMA KeyLostInv ==
  ASSUME CInv, NEW h \in Handles, KeyLost(h)
  PROVE  CInv'
<1>1. PICK s \in {"empty", "null"} :
        handle' = [handle EXCEPT ![h].phase = "done", ![h].session = s]
  BY DEF KeyLost
<1> DEFINE spent == [handle[h] EXCEPT !.phase = "done", !.session = s]
<1>2. handle' = [handle EXCEPT ![h] = spent]
  BY <1>1 DEF CInv, CTypeOK
<1>3. /\ spent \in Objects /\ spent.kind = "dkg" /\ spent.session = s
      /\ spent.from = handle[h].from
  BY DEF KeyLost, CInv, CTypeOK, Objects, Phases, Sessions
<1> HIDE DEF spent
<1>4. \A r \in Handles : handle'[r] = IF r = h THEN spent ELSE handle[r]
  BY <1>2 DEF CInv, CTypeOK
<1>5. CTypeOK'
  BY <1>2, <1>3, <1>4 DEF KeyLost, FlagsOK, CInv, CTypeOK
<1>6. \A r \in Handles : handle'[r].from = handle[r].from
  BY <1>3, <1>4
<1>7. ASSUME NEW d \in Handles PROVE KeyOf(d)'
  <2>1. KeyOf(d) /\ KeyOf(h) /\ handle[h].session = "open"
    BY DEF CInv, KeyLost
  <2>2. CASE d = h
    BY <1>3, <1>4, <1>6, <2>1, <2>2 DEF KeyOf, KeyLost
  <2>3. CASE d # h
    <3>1. handle'[d] = handle[d] /\ (<<"key", d>> \in lost' <=> <<"key", d>> \in lost)
      BY <1>4, <2>3 DEF KeyLost
    <3>2. QED BY <1>6, <2>1, <3>1 DEF KeyOf
  <2>4. QED BY <2>2, <2>3
<1>8. QED BY <1>5, <1>7 DEF CInv

\* Every step keeps the invariant.
LEMMA CNextInv ==
  ASSUME CInv, [CNext]_apiVars
  PROVE  CInv'
<1>1. CASE UNCHANGED apiVars
  BY <1>1 DEF apiVars, CInv, CTypeOK, KeyOf
<1>2. CASE CNext
  BY <1>1, <1>2, Kinds, OrdinaryInv, KeyMovesInv, KeyLostInv DEF CInv
<1>3. QED BY <1>1, <1>2

\* CInv is an invariant of every program.
THEOREM CApiInvariant == CSpec => []CInv
BY CInitInv, CNextInv, PTL DEF CSpec

\* The type invariant holds for any number of handles.
THEOREM CTypeCorrect == CSpec => []CTypeOK
<1>1. CInv => CTypeOK
  BY DEF CInv
<1>2. QED BY <1>1, CApiInvariant, PTL

\* A key is in its session, in one keypair, or lost to a failed allocation.
THEOREM KeyConservedCorrect == CSpec => []KeyConserved
<1>1. ASSUME CInv PROVE KeyConserved
  <2> SUFFICES ASSUME NEW d \in Handles
               PROVE  LET kps == {k \in Handles : handle[k].from = d}
                      IN  /\ handle[d].session = "open" =>
                               kps = {} /\ <<"key", d>> \notin lost
                          /\ handle[d].session # "open" =>
                               \/ <<"key", d>> \in lost /\ kps = {}
                               \/ <<"key", d>> \notin lost /\ \E k \in Handles : kps = {k}
    BY DEF KeyConserved
  <2> DEFINE kps == {k \in Handles : handle[k].from = d}
  <2>1. KeyOf(d)
    BY <1>1 DEF CInv
  <2>2. (\A k \in Handles : handle[k].from # d) => kps = {}
    OBVIOUS
  <2>3. ASSUME NEW k \in Handles, \A j \in Handles : handle[j].from = d <=> j = k
        PROVE  kps = {k}
    BY <2>3
  <2> HIDE DEF kps
  <2>4. QED BY <2>1, <2>2, <2>3 DEF KeyOf, kps
<1>2. QED BY <1>1, CApiInvariant, PTL

-----------------------------------------------------------------------------
(* Failing for want of memory.                                             *)

\* What a call that may have run out of memory has changed, and what losing a
\* message is reported as.
Honest ==
  /\ answer'.status \in {"memory", "refused", "thrown"} =>
       /\ \A h \in Handles : handle'[h] # handle[h] =>
            \/ /\ answer'.status = "memory"
               /\ answer'.call \in
                    {"dkg_step", "sign_step", "dkg_finalize", "sign_finalize"}
            \/ answer'.status = "refused" /\ <<"message", h>> \in lost'
       /\ stray' # stray =>
            answer'.status = "memory" /\ answer'.call = "backup_create"
  /\ \A h \in Handles :
       <<"message", h>> \in lost' \ lost => answer'.status \in {"memory", "refused"}

\* Every step of a program is honest in this sense.
LEMMA HonestStep ==
  ASSUME CTypeOK, CNext
  PROVE  Honest \/ UNCHANGED apiVars
<1> USE DEF Honest, Answers
<1>1. CASE maany_mpc_init \/ maany_mpc_shutdown
  BY <1>1 DEF maany_mpc_init, maany_mpc_shutdown
<1>2. ASSUME NEW call, NEW h, NEW object, Create(call, h, object) PROVE Honest
  BY <1>2 DEF Create, Hangs
<1>3. ASSUME NEW call, NEW h, CopyInFails(call, h) \/ Throws(call, h) PROVE Honest
  BY <1>3 DEF CopyInFails, Throws
<1>4. ASSUME NEW h, maany_mpc_dkg_new(h) \/ maany_mpc_kp_import(h)
                    \/ maany_mpc_backup_restore(h)
      PROVE  Honest
  BY <1>2, <1>3, <1>4 DEF maany_mpc_dkg_new, maany_mpc_kp_import, maany_mpc_backup_restore
<1>5. ASSUME NEW h \in Handles, OnHandle(h) PROVE Honest
  <2>1. ASSUME NEW call \in {"dkg_step", "sign_step"}, NEW wanted, NEW out,
               StepReturns(call, h, wanted, out)
        PROVE  Honest
    <3>1. stray' = stray /\ answer'.call = call
      BY <2>1 DEF StepReturns, CopyInFails, CopyOut
    <3>2. \/ lost' = lost
          \/ /\ answer'.status \in {"memory", "refused"}
             /\ lost' = lost \cup {<<"message", h>>}
      BY <2>1 DEF StepReturns, CopyInFails, CopyOut
    <3>3. \/ UNCHANGED handle
          \/ \E p : handle' = [handle EXCEPT ![h].phase = p]
      BY <2>1 DEF StepReturns, CopyInFails
    <3>4. \A r \in Handles : r # h => handle'[r] = handle[r]
      BY <3>3 DEF CTypeOK
    <3>5. \/ UNCHANGED handle
          \/ answer'.status \notin {"refused", "thrown"}
          \/ answer'.status = "refused" /\ lost' = lost \cup {<<"message", h>>}
      BY <2>1 DEF StepReturns, CopyInFails, CopyOut
    <3>6. QED BY <2>1, <3>1, <3>2, <3>4, <3>5
  <2>2. ASSUME NEW k, maany_mpc_dkg_finalize(h, k) PROVE Honest
    BY <2>2 DEF maany_mpc_dkg_finalize, FinalizeDkg
  <2>3. CASE maany_mpc_sign_set_message(h)
    BY <2>3 DEF maany_mpc_sign_set_message
  <2>4. CASE maany_mpc_sign_finalize(h)
    BY <2>4 DEF maany_mpc_sign_finalize
  <2>5. CASE maany_mpc_kp_export(h) \/ maany_mpc_kp_pubkey(h) \/ maany_mpc_kp_meta(h)
    BY <2>5 DEF maany_mpc_kp_export, maany_mpc_kp_pubkey, maany_mpc_kp_meta, Query
  <2>6. CASE maany_mpc_backup_create(h)
    <3>1. \/ Answers("backup_create", h, "memory")
          \/ UNCHANGED stray
      BY <2>6 DEF maany_mpc_backup_create
    <3>2. UNCHANGED <<handle, lost>>
      BY <2>6 DEF maany_mpc_backup_create
    <3>3. QED BY <3>1, <3>2
  <2>7. ASSUME NEW n, maany_mpc_sign_new(h, n) \/ maany_mpc_refresh_new(h, n)
        PROVE  Honest
    BY <1>2, <2>7 DEF maany_mpc_sign_new, maany_mpc_refresh_new
  <2>8. ASSUME NEW call, Blocks(call, h) PROVE Honest
    BY <2>8 DEF Blocks, Hangs
  <2>9. QED
    BY <1>5, <2>1, <2>2, <2>3, <2>4, <2>5, <2>6, <2>7, <2>8
       DEF OnHandle, maany_mpc_dkg_step, maany_mpc_sign_step
<1>6. ASSUME NEW call, NEW h, FreeHandle(call, h) PROVE Honest
  BY <1>6 DEF FreeHandle, Hangs
<1>7. ASSUME NEW h, FreesHandle(h) PROVE Honest
  BY <1>6, <1>7 DEF FreesHandle, maany_mpc_dkg_free, maany_mpc_sign_free, maany_mpc_kp_free
<1>8. QED BY <1>1, <1>4, <1>5, <1>7 DEF CNext, Rest

\* A call that ran out of memory can be made again, but for the named losses,
\* whether it answers "memory", an invalid argument or nothing (an exception);
\* and every loss is reported.
THEOREM RetryCorrect == CSpec => RetrySafe
<1> DEFINE Safe ==
      /\ answer'.status \in {"memory", "refused", "thrown"} =>
          /\ \A h \in Handles : handle'[h] # handle[h] =>
               \/ /\ answer'.status = "memory"
                  /\ answer'.call \in
                       {"dkg_step", "sign_step", "dkg_finalize", "sign_finalize"}
               \/ answer'.status = "refused" /\ <<"message", h>> \in lost'
          /\ stray' # stray =>
               answer'.status = "memory" /\ answer'.call = "backup_create"
          /\ \A h \in Handles : handle'[h].session # handle[h].session =>
               <<"key", h>> \in lost'
      /\ \A h \in Handles :
          /\ <<"key", h>> \in lost' \ lost => answer'.status = "memory"
          /\ <<"message", h>> \in lost' \ lost => answer'.status \in {"memory", "refused"}
<1>1. ASSUME CInv, CNext, ~UNCHANGED apiVars PROVE Safe
  <2>1. Honest
    BY <1>1, HonestStep DEF CInv
  <2>2. ASSUME Ordinary PROVE Safe
    <3>1. \A h \in Handles : handle'[h].session = handle[h].session
      BY <1>1, <2>2 DEF Ordinary, Becomes, CInv, CTypeOK
    <3>2. QED BY <2>1, <2>2, <3>1 DEF Honest, Ordinary
  <2>3. ASSUME NEW h \in Handles, NEW k \in Handles, KeyMoves(h, k, TRUE) PROVE Safe
    BY <2>3 DEF KeyMoves
  <2>4. ASSUME NEW h \in Handles, KeyLost(h) PROVE Safe
    <3>1. /\ \A r \in Handles \ {h} : handle'[r] = handle[r]
          /\ lost' = lost \cup {<<"key", h>>} /\ answer'.status = "memory"
      BY <1>1, <2>4 DEF KeyLost, CInv, CTypeOK
    <3>2. QED BY <2>1, <3>1 DEF Honest
  <2>5. QED BY <1>1, <2>2, <2>3, <2>4, Kinds DEF CInv
<1>2. CInv /\ [CNext]_apiVars => [Safe]_apiVars
  <2> HIDE DEF Safe
  <2> QED BY <1>1
<1>3. QED
  BY <1>2, CApiInvariant, PTL DEF CSpec, RetrySafe

-----------------------------------------------------------------------------
(* The promise of a session (StepSession), passed on.                      *)

Heard == [h \in Handles |-> handle[h].phase]
Given == [h \in Handles |-> IF handle[h].session = "open" THEN 0 ELSE 1]

\* An ordinary call is a step of one session, or none.
LEMMA OrdinaryPromise ==
  ASSUME CInv, Ordinary
  PROVE  [Promise!SNext]_<<Heard, Given>>
<1>1. CASE UNCHANGED handle
  BY <1>1 DEF Heard, Given
<1>2. ASSUME NEW h \in Handles, NEW b \in Objects, Becomes(handle[h], b),
             handle' = [handle EXCEPT ![h] = b]
      PROVE  Promise!SNext
  <2>1. \A r \in Handles : handle'[r] = IF r = h THEN b ELSE handle[r]
    BY <1>2 DEF CInv, CTypeOK
  <2>2. UNCHANGED Given
    BY <1>2, <2>1 DEF Given, Becomes
  <2>3. Heard' = [Heard EXCEPT ![h] = b.phase]
    BY <2>1 DEF Heard
  <2>4. b.phase \in Promise!After(Heard[h])
    BY <1>2 DEF Heard, Becomes, Promise!After, Promise!Phases, Objects, Phases
  <2>5. QED BY <2>2, <2>3, <2>4 DEF Promise!SNext, Promise!StepAnswers, Heard, Given
<1>3. QED BY <1>1, <1>2 DEF Ordinary

\* Moving or losing a key is giving it out.
LEMMA KeyPromise ==
  ASSUME CInv, NEW h \in Handles, NEW k \in Handles,
         KeyMoves(h, k, TRUE) \/ KeyLost(h)
  PROVE  Promise!SNext
<1>1. /\ handle'[h].phase = "done" /\ handle'[h].session # "open"
      /\ \A r \in Handles \ {h} :
           handle'[r].phase = handle[r].phase
           /\ (handle'[r].session = "open" <=> handle[r].session = "open")
  <2>1. CASE KeyMoves(h, k, TRUE)
    <3>1. h # k
      BY <2>1 DEF KeyMoves, Unused
    <3>2. handle'[k] = Made("kp", h) /\ handle[k] = Unused
      BY <2>1, <3>1 DEF KeyMoves, CInv, CTypeOK
    <3>3. /\ handle'[h].phase = "done" /\ handle'[h].session = "null"
          /\ \A r \in Handles \ {h, k} : handle'[r] = handle[r]
      BY <2>1, <3>1 DEF KeyMoves, CInv, CTypeOK, Objects
    <3>4. /\ Made("kp", h).phase = "running" /\ Made("kp", h).session = "open"
          /\ Unused.phase = "running" /\ Unused.session = "open"
      BY DEF Made, Unused
    <3>5. QED BY <3>1, <3>2, <3>3, <3>4
  <2>2. CASE KeyLost(h)
    BY <2>2 DEF KeyLost, CInv, CTypeOK, Objects
  <2>3. QED BY <2>1, <2>2
<1>2. Heard[h] # "failed" /\ Given[h] = 0
  BY DEF Heard, Given, KeyMoves, KeyLost
<1>3. Heard' = [Heard EXCEPT ![h] = "done"]
  BY <1>1 DEF Heard
<1>4. Given' = [Given EXCEPT ![h] = 1]
  BY <1>1 DEF Given
<1>5. QED BY <1>2, <1>3, <1>4 DEF Promise!SNext, Promise!GiveKey, Heard, Given

\* The C API implements StepSession, whichever allocations fail.
THEOREM CPromiseCorrect == CSpec => KeepsPromise
<1>1. CInit => Promise!SInit
  BY DEF CInit, Promise!SInit, Unused
<1>2. CInv /\ [CNext]_apiVars =>
        [Promise!SNext]_<<[h \in Handles |-> handle[h].phase],
           [h \in Handles |-> IF handle[h].session = "open" THEN 0 ELSE 1]>>
  <2>1. ASSUME CInv, CNext PROVE [Promise!SNext]_<<Heard, Given>>
    <3>1. UNCHANGED apiVars => UNCHANGED <<Heard, Given>>
      BY DEF apiVars, Heard, Given
    <3>2. QED BY <2>1, <3>1, Kinds, OrdinaryPromise, KeyPromise DEF CInv
  <2>2. UNCHANGED apiVars => UNCHANGED <<Heard, Given>>
    BY DEF apiVars, Heard, Given
  <2>3. QED BY <2>1, <2>2 DEF Heard, Given
<1>3. QED
  BY <1>1, <1>2, CApiInvariant, PTL DEF CSpec, KeepsPromise, Promise!SSpec

-----------------------------------------------------------------------------
(***************************************************************************)
(* The addon.                                                              *)
(***************************************************************************)

\* The queue holds jobs that wait to be started, each once.
QueueOK ==
  \A i \in 1..Len(queue) :
    /\ job[queue[i]].stage = "queued"
    /\ \A k \in 1..Len(queue) : queue[i] = queue[k] => i = k

Outlived == ctx # "up" => early \/ \A h \in Handles : ~handle[h].live

JobInUse(j) ==
  /\ job[j].stage # "unused" => job[j].on \in Handles
  /\ job[j].stage = "queued" =>
       hasty \/ (cwrap # "gone" /\ wrap[job[j].on] # "gone")
  /\ job[j].stage = "running" =>
       hasty \/ (cwrap = "set" /\ wrap[job[j].on] = "set")
  /\ job[j].stage = "returned" => hasty \/ cwrap = "set"

InUse == \A j \in Jobs : JobInUse(j)

NInv == /\ NTypeOK /\ CInv /\ QueueOK
        /\ WrappersHold /\ Outlived /\ InUse /\ SafeUnlessHasty

-----------------------------------------------------------------------------
(* The C API underneath.                                                   *)

\* Flags that change alone do not concern the keys.
LEMMA FlagsOnly ==
  ASSUME CInv, UNCHANGED <<ctx, handle, answer, lost, stray, early, hung>>,
         torn' \in BOOLEAN
  PROVE  CInv'
BY DEF CInv, CTypeOK, KeyOf

\* dkg_finalize keeps the keys, whether or not the session's handle stays.
LEMMA FinalizeKeeps ==
  ASSUME CInv, NEW h \in Handles, NEW k \in Handles, FinalizeDkg(h, k, FALSE)
  PROVE  CInv'
<1>1. CTypeOK /\ FALSE \in BOOLEAN
  BY DEF CInv
<1>2. Ordinary \/ KeyMoves(h, k, FALSE) \/ KeyLost(h)
  BY <1>1, FinalizeCalls
<1>3. QED BY <1>1, <1>2, OrdinaryInv, KeyMovesInv, KeyLostInv

\* The addon's calls keep CInv, because the C API's do.
LEMMA NodeKeepsCInv ==
  ASSUME NInv, [NNext]_nodeVars
  PROVE  CInv'
<1> USE DEF NInv
<1>1. CASE UNCHANGED apiVars
  BY <1>1 DEF CInv, CTypeOK, KeyOf, apiVars
<1>2. CTypeOK
  BY DEF CInv
<1>3. ASSUME NEW h \in Handles, FreeHandle("dkg_free", h) \/ FreeHandle("kp_free", h)
                                \/ FreeHandle("sign_free", h)
      PROVE  CInv'
  BY <1>2, <1>3, FreeCalls, OrdinaryInv
<1>4. ASSUME NEW h \in Handles, Blocks("dkg_finalize", h) \/ Blocks("sign_finalize", h)
      PROVE  CInv'
  BY <1>2, <1>4, PassiveCalls, OrdinaryInv
<1>5. CASE JsInit \/ JsShutdown \/ FinalizeCtx
  BY <1>1, <1>2, <1>5, ContextCalls, OrdinaryInv DEF JsInit, JsShutdown, FinalizeCtx
<1>6. ASSUME NEW h \in Handles, JsDkgNew(h) \/ JsKpImport(h) \/ JsBackupRestore(h)
      PROVE  CInv'
  <2>1. Ordinary
    BY <1>2, <1>6, MakingCalls DEF JsDkgNew, JsKpImport, JsBackupRestore
  <2>2. QED BY <2>1, OrdinaryInv
<1>7. ASSUME NEW k \in Handles, NEW h \in Handles, JsSignNew(k, h) \/ JsRefreshNew(k, h)
      PROVE  CInv'
  <2>1. Ordinary
    BY <1>2, <1>7, CreateCalls DEF JsSignNew, JsRefreshNew, maany_mpc_sign_new,
       maany_mpc_refresh_new, Uses, CTypeOK
  <2>2. QED BY <2>1, OrdinaryInv
<1>8. ASSUME NEW h \in Handles, NEW k \in Handles, JsDkgFinalize(h, k) PROVE CInv'
  BY <1>4, <1>8, FinalizeKeeps DEF JsDkgFinalize
<1>9. ASSUME NEW h \in Handles, JsSignSetMessage(h) \/ JsSignFinalize(h) PROVE CInv'
  BY <1>2, <1>4, <1>9, SignCalls, OrdinaryInv DEF JsSignSetMessage, JsSignFinalize
<1>10. ASSUME NEW h \in Handles, JsKpExport(h) \/ JsKpPubkey(h) \/ JsBackupCreate(h)
       PROVE  CInv'
  BY <1>2, <1>10, PassiveCalls, OrdinaryInv
     DEF JsKpExport, JsKpPubkey, JsBackupCreate, Call
<1>11. ASSUME NEW h \in Handles, JsDkgFree(h) \/ JsSignFree(h) \/ JsKpFree(h)
       PROVE  CInv'
  BY <1>3, <1>11 DEF JsDkgFree, JsSignFree, JsKpFree, maany_mpc_dkg_free,
     maany_mpc_sign_free, maany_mpc_kp_free
<1>12. ASSUME NEW h \in Handles,
              FinalizeDkgHandle(h) \/ FinalizeKeypair(h) \/ FinalizeSign(h)
       PROVE  CInv'
  BY <1>1, <1>3, <1>12 DEF FinalizeDkgHandle, FinalizeKeypair, FinalizeSign, Collect
<1>13. ASSUME NEW j \in Jobs, NEW h \in Handles, JsDkgStep(j, h) \/ JsSignStep(j, h)
       PROVE  CInv'
  BY <1>1, <1>13 DEF JsDkgStep, JsSignStep, QueueWork, hostVars
<1>14. ASSUME NEW j \in Jobs, Runs(j) PROVE CInv'
  <2>1. CASE Start(j) \/ Release(j)
    <3>1. torn' \in BOOLEAN /\ UNCHANGED <<ctx, handle, answer, lost, stray, early, hung>>
      BY <1>2, <2>1 DEF Start, Release, CTypeOK
    <3>2. QED BY <3>1, FlagsOnly
  <2>2. CASE DkgStepExecute(j) \/ SignStepExecute(j)
    <3>1. job[j].on \in Handles
      BY <2>2 DEF NTypeOK, DkgStepExecute, SignStepExecute
    <3>2. Ordinary
      BY <1>2, <2>2, <3>1, StepCalls DEF DkgStepExecute, SignStepExecute, Return
    <3>3. QED BY <3>2, OrdinaryInv
  <2>3. CASE DkgStepComplete(j) \/ SignStepComplete(j)
    BY <1>1, <2>3 DEF DkgStepComplete, SignStepComplete, Complete, hostVars
  <2>4. QED BY <1>14, <2>1, <2>2, <2>3 DEF Runs
<1>15. CASE UNCHANGED nodeVars
  BY <1>1, <1>15 DEF nodeVars, hostVars
<1>16. QED
  BY <1>5, <1>6, <1>7, <1>8, <1>9, <1>10, <1>11, <1>12, <1>13, <1>14, <1>15
     DEF NNext, JavaScript

-----------------------------------------------------------------------------
(* Calls that free and make nothing.                                       *)

\* Nothing is made or freed, and only what is there is used.
Quiet ==
  /\ UNCHANGED <<ctx, early>>
  /\ \A r \in Handles : handle'[r].live = handle[r].live

\* Reading a keypair, stepping and signing are quiet.
LEMMA QuietCalls ==
  ASSUME CTypeOK, NEW h \in Handles,
         \/ \E call, wanted, out : StepReturns(call, h, wanted, out)
         \/ \E call : Blocks(call, h)
         \/ maany_mpc_sign_set_message(h) \/ maany_mpc_sign_finalize(h)
         \/ maany_mpc_kp_export(h) \/ maany_mpc_kp_pubkey(h)
         \/ maany_mpc_backup_create(h)
  PROVE  Quiet
<1> USE DEF CTypeOK, Objects, Quiet
<1>1. ASSUME NEW call, NEW wanted, NEW out, StepReturns(call, h, wanted, out) PROVE Quiet
  <2>1. \/ UNCHANGED handle
        \/ \E p : handle' = [handle EXCEPT ![h].phase = p]
    BY <1>1 DEF StepReturns, CopyInFails
  <2>2. UNCHANGED <<ctx, early>>
    BY <1>1 DEF StepReturns
  <2>3. QED BY <2>1, <2>2
<1>2. ASSUME NEW call, Blocks(call, h) PROVE Quiet
  BY <1>2 DEF Blocks
<1>3. CASE maany_mpc_sign_set_message(h)
  BY <1>3 DEF maany_mpc_sign_set_message
<1>4. CASE maany_mpc_sign_finalize(h)
  BY <1>4 DEF maany_mpc_sign_finalize
<1>5. CASE maany_mpc_kp_export(h) \/ maany_mpc_kp_pubkey(h)
  BY <1>5 DEF maany_mpc_kp_export, maany_mpc_kp_pubkey, Query
<1>6. CASE maany_mpc_backup_create(h)
  BY <1>6 DEF maany_mpc_backup_create
<1>7. QED BY <1>1, <1>2, <1>3, <1>4, <1>5, <1>6

\* What is in an object may be used.
LEMMA UnwrappedIsLive ==
  ASSUME WrappersHold, NEW h \in Handles, UnwrapHandle(h)
  PROVE  ctx = "up" /\ handle[h].live
BY DEF WrappersHold, UnwrapHandle

\* A quiet step that uses no freed memory keeps AddonOK.
LEMMA QuietInv ==
  ASSUME NInv, CInv', Quiet, UNCHANGED <<cwrap, wrap, queue, leaked, torn>>,
         job' \in [Jobs -> [on : Handles \cup {Nothing}, stage : Stages, waits : BOOLEAN]],
         \A j \in Jobs : job'[j].on = job[j].on /\ job'[j].stage = job[j].stage,
         hasty' \in BOOLEAN, hasty => hasty'
  PROVE  NInv'
<1> USE DEF NInv, Quiet
<1>1. NTypeOK'
  BY DEF NTypeOK, CInv
<1>2. QueueOK'
  <2>1. \A i \in 1..Len(queue) : queue[i] \in Jobs
    BY DEF NTypeOK
  <2>2. QED BY <2>1 DEF QueueOK
<1>3. WrappersHold' /\ Outlived'
  BY DEF WrappersHold, Outlived
<1>4. InUse'
  BY DEF InUse, JobInUse
<1>5. SafeUnlessHasty'
  BY DEF SafeUnlessHasty
<1>6. QED BY <1>1, <1>2, <1>3, <1>4, <1>5

\* Using what is there does not use freed memory.
LEMMA UsesLive ==
  ASSUME CTypeOK, NEW h \in Handles, ctx = "up", handle[h].live,
         \/ \E call, out : StepReturns(call, h, TRUE, out)
         \/ \E call : Blocks(call, h)
         \/ maany_mpc_sign_set_message(h) \/ maany_mpc_sign_finalize(h)
         \/ maany_mpc_kp_export(h) \/ maany_mpc_kp_pubkey(h)
         \/ maany_mpc_backup_create(h)
  PROVE  UNCHANGED torn
BY DEF CTypeOK, StepReturns, Blocks, maany_mpc_sign_set_message,
       maany_mpc_sign_finalize, maany_mpc_kp_export, maany_mpc_kp_pubkey,
       maany_mpc_backup_create, Query, Uses

\* JavaScript reads, signs and backs up.
LEMMA QuietJsInv ==
  ASSUME NInv, CInv', NEW h \in Handles,
         \/ JsSignSetMessage(h) \/ JsSignFinalize(h)
         \/ JsKpExport(h) \/ JsKpPubkey(h) \/ JsBackupCreate(h)
  PROVE  NInv'
<1> USE DEF NInv
<1>1. CTypeOK /\ ctx = "up" /\ handle[h].live
  BY UnwrappedIsLive DEF CInv, JsSignSetMessage, JsSignFinalize, JsKpExport,
     JsKpPubkey, JsBackupCreate
<1>2. Quiet /\ UNCHANGED torn
  BY <1>1, QuietCalls, UsesLive DEF JsSignSetMessage, JsSignFinalize, JsKpExport,
     JsKpPubkey, JsBackupCreate, Call
<1>3. UNCHANGED <<cwrap, wrap, queue, leaked>>
  BY DEF JsSignSetMessage, JsSignFinalize, JsKpExport, JsKpPubkey, JsBackupCreate,
     Call, Hasty, jobVars
<1>4. hasty' \in BOOLEAN /\ (hasty => hasty')
  BY DEF JsSignSetMessage, JsSignFinalize, JsKpExport, JsKpPubkey, JsBackupCreate,
     Call, Hasty, NTypeOK
<1>5. /\ job' \in [Jobs -> [on : Handles \cup {Nothing}, stage : Stages, waits : BOOLEAN]]
      /\ \A j \in Jobs : job'[j].on = job[j].on /\ job'[j].stage = job[j].stage
  <2>1. CASE UNCHANGED job
    BY <2>1 DEF NTypeOK
  <2>2. CASE job' = [j \in Jobs |-> IF job[j].on = h THEN [job[j] EXCEPT !.waits = FALSE]
                                    ELSE job[j]]
    BY <2>2 DEF NTypeOK
  <2>3. QED
    BY <2>1, <2>2 DEF JsSignSetMessage, JsSignFinalize, JsKpExport, JsKpPubkey,
       JsBackupCreate, Call, Hasty, jobVars
<1>6. QED BY <1>2, <1>3, <1>4, <1>5, QuietInv

-----------------------------------------------------------------------------
(* Making handles.                                                         *)

\* A handle that was made is put into an object.
LEMMA CreateInv ==
  ASSUME NInv, CInv', NEW call, NEW h \in Handles, NEW kind \in {"dkg", "sign", "kp"},
         Create(call, h, Made(kind, Nothing)), UNCHANGED torn, ctx = "up", WrapHandle(h)
  PROVE  NInv'
<1> USE DEF NInv
<1>1. UNCHANGED <<ctx, early, cwrap, job, queue, leaked, hasty, torn>>
  BY DEF Create, WrapHandle, jobVars
<1>2. /\ ~handle[h].live /\ Made(kind, Nothing).live
  BY DEF Create, Unused, Made
<1>3. \/ UNCHANGED <<handle, wrap>>
      \/ /\ handle' = [handle EXCEPT ![h] = Made(kind, Nothing)]
         /\ wrap' = [wrap EXCEPT ![h] = "set"]
  <2>1. CASE UNCHANGED handle
    BY <2>1 DEF WrapHandle
  <2>2. CASE handle' = [handle EXCEPT ![h] = Made(kind, Nothing)]
    <3>1. handle'[h] # handle[h]
      BY <1>2, <2>2 DEF CInv, CTypeOK
    <3>2. QED BY <2>2, <3>1 DEF WrapHandle
  <2>3. QED BY <2>1, <2>2 DEF Create
<1>4. CASE UNCHANGED <<handle, wrap>>
  <2>1. Quiet
    BY <1>1, <1>4 DEF Quiet
  <2>2. QED BY <1>1, <1>4, <2>1, QuietInv DEF NTypeOK
<1>5. CASE /\ handle' = [handle EXCEPT ![h] = Made(kind, Nothing)]
           /\ wrap' = [wrap EXCEPT ![h] = "set"]
  <2>1. \A r \in Handles : /\ wrap'[r] = IF r = h THEN "set" ELSE wrap[r]
                           /\ handle'[r].live <=> (r = h \/ handle[r].live)
    BY <1>2, <1>5 DEF NTypeOK, CTypeOK
  <2>2. NTypeOK'
    BY <1>1, <1>5 DEF NTypeOK, CInv
  <2>3. WrappersHold' /\ Outlived'
    BY <1>1, <2>1 DEF WrappersHold, Outlived
  <2>4. InUse'
    BY <1>1, <2>1 DEF InUse, JobInUse
  <2>5. QueueOK' /\ SafeUnlessHasty'
    BY <1>1 DEF QueueOK, SafeUnlessHasty
  <2>6. QED BY <2>2, <2>3, <2>4, <2>5
<1>6. QED BY <1>3, <1>4, <1>5

\* The calls that make handles.
LEMMA NewInv ==
  ASSUME NInv, CInv', NEW h \in Handles,
         \/ JsDkgNew(h) \/ JsKpImport(h) \/ JsBackupRestore(h)
         \/ \E k \in Handles : JsSignNew(k, h) \/ JsRefreshNew(k, h)
  PROVE  NInv'
<1> USE DEF NInv
<1>1. ctx = "up"
  BY DEF WrappersHold, JsDkgNew, JsKpImport, JsBackupRestore, JsSignNew,
     JsRefreshNew, UnwrapHandle
<1>2. CASE JsDkgNew(h) \/ JsKpImport(h) \/ JsBackupRestore(h)
  <2>1. UNCHANGED torn
    BY <1>1, <1>2 DEF JsDkgNew, JsKpImport, JsBackupRestore, maany_mpc_dkg_new,
       maany_mpc_kp_import, maany_mpc_backup_restore, CInv, CTypeOK
  <2>2. ASSUME NEW call, CopyInFails(call, h) \/ Throws(call, h), WrapHandle(h)
        PROVE  NInv'
    <3>1. UNCHANGED <<handle, ctx, early, cwrap, wrap, job, queue, leaked, hasty>>
      BY <2>2 DEF CopyInFails, Throws, WrapHandle, jobVars
    <3>2. Quiet
      BY <3>1 DEF Quiet
    <3>3. QED BY <2>1, <3>1, <3>2, QuietInv DEF NTypeOK
  <2>3. QED
    BY <1>1, <1>2, <2>1, <2>2, CreateInv DEF JsDkgNew, JsKpImport, JsBackupRestore,
       maany_mpc_dkg_new, maany_mpc_kp_import, maany_mpc_backup_restore
<1>3. ASSUME NEW k \in Handles, JsSignNew(k, h) \/ JsRefreshNew(k, h) PROVE NInv'
  <2>1. handle[k].live
    BY <1>3, UnwrappedIsLive DEF JsSignNew, JsRefreshNew
  <2>2. UNCHANGED torn
    BY <1>1, <1>3, <2>1 DEF JsSignNew, JsRefreshNew, maany_mpc_sign_new,
       maany_mpc_refresh_new, Uses, CInv, CTypeOK
  <2>3. QED
    BY <1>1, <1>3, <2>2, CreateInv DEF JsSignNew, JsRefreshNew, maany_mpc_sign_new,
       maany_mpc_refresh_new
<1>4. QED BY <1>2, <1>3

-----------------------------------------------------------------------------
(* Freeing handles.                                                        *)

\* One object lets go of its handle.  If a step is running on the handle, or is
\* queued and its object goes away altogether, that was hasty.
LEMMA LetGoInv ==
  ASSUME NInv, CInv', NEW h \in Handles, NEW w \in {"null", "gone"},
         UNCHANGED <<ctx, early, cwrap, job, queue, leaked>>,
         hasty' \in BOOLEAN, hasty => hasty',
         Of(h, {"running"}) => hasty',
         w = "gone" /\ Of(h, {"queued"}) => hasty',
         \A r \in Handles \ {h} : wrap'[r] = "set" <=> handle'[r].live,
         \A r \in Handles \ {h} : wrap'[r] = wrap[r] \/ wrap'[r] = "set",
         \A r \in Handles : handle'[r].live => handle[r].live \/ ctx = "up",
         wrap' \in [Handles -> {"none", "set", "null", "gone"}],
         wrap'[h] = w, ~handle'[h].live,
         torn' => torn \/ early
  PROVE  NInv'
<1> USE DEF NInv
<1>1. NTypeOK'
  BY DEF NTypeOK, CInv
<1>2. WrappersHold'
  BY DEF WrappersHold
<1>3. Outlived'
  BY DEF Outlived
<1>4. ASSUME NEW j \in Jobs PROVE JobInUse(j)'
  <2>1. JobInUse(j)
    BY DEF InUse
  <2>2. CASE job[j].on # h
    BY <2>1, <2>2 DEF JobInUse
  <2>3. CASE job[j].on = h
    BY <2>1, <2>3 DEF JobInUse, Of
  <2>4. QED BY <2>2, <2>3
<1>5. QueueOK' /\ SafeUnlessHasty'
  BY DEF QueueOK, SafeUnlessHasty
<1>6. QED BY <1>1, <1>2, <1>3, <1>4, <1>5 DEF InUse

\* What is in an object may be freed, though the context has been shut down.
LEMMA FreeUses ==
  ASSUME NInv, NEW h \in Handles, NEW call, wrap[h] = "set", FreeHandle(call, h)
  PROVE  /\ torn' => torn \/ early
         /\ UNCHANGED <<ctx, early>>
         /\ \/ UNCHANGED handle /\ hung' = TRUE
            \/ handle' = [handle EXCEPT ![h].live = FALSE] /\ hung' = hung
<1>1. handle[h].live
  BY DEF NInv, WrappersHold
<1>2. ctx = "up" \/ early
  BY <1>1 DEF NInv, Outlived
<1>3. torn' => torn \/ early
  BY <1>1, <1>2 DEF FreeHandle, Uses
<1>4. QED BY <1>3 DEF FreeHandle, Hangs

\* free(), and the collector.
LEMMA FreeInv ==
  ASSUME NInv, CInv', ~hung, NEW h \in Handles,
         \/ JsDkgFree(h) \/ JsSignFree(h) \/ JsKpFree(h)
         \/ FinalizeDkgHandle(h) \/ FinalizeKeypair(h) \/ FinalizeSign(h)
  PROVE  NInv'
<1> USE DEF NInv
<1>1. ASSUME NEW call, NEW w \in {"null", "gone"}, wrap[h] = "set", FreeHandle(call, h),
             wrap' = IF hung' THEN wrap ELSE [wrap EXCEPT ![h] = w],
             UNCHANGED <<cwrap, job, queue, leaked>>,
             hasty' \in BOOLEAN, hasty => hasty',
             Of(h, {"running"}) => hasty',
             w = "gone" /\ Of(h, {"queued"}) => hasty'
      PROVE  NInv'
  <2>1. /\ torn' => torn \/ early
        /\ UNCHANGED <<ctx, early>>
        /\ \/ UNCHANGED handle /\ hung' = TRUE
           \/ handle' = [handle EXCEPT ![h].live = FALSE] /\ hung' = hung
    BY <1>1, FreeUses
  <2>2. CASE UNCHANGED handle /\ hung' = TRUE
    <3>1. UNCHANGED wrap
      BY <1>1, <2>2
    <3>2. NTypeOK' /\ QueueOK' /\ WrappersHold' /\ Outlived'
      BY <1>1, <2>1, <2>2, <3>1
         DEF NTypeOK, CInv, QueueOK, WrappersHold, Outlived
    <3>3. InUse' /\ SafeUnlessHasty'
      BY <1>1, <2>1, <3>1 DEF InUse, JobInUse, SafeUnlessHasty
    <3>4. QED BY <3>2, <3>3
  <2>3. CASE handle' = [handle EXCEPT ![h].live = FALSE] /\ hung' = hung
    <3>1. wrap' = [wrap EXCEPT ![h] = w]
      BY <1>1, <2>3
    <3>2. /\ wrap' \in [Handles -> {"none", "set", "null", "gone"}]
          /\ wrap'[h] = w
          /\ \A r \in Handles \ {h} : wrap'[r] = wrap[r]
      BY <3>1 DEF NTypeOK
    <3>3. /\ ~handle'[h].live
          /\ \A r \in Handles \ {h} : handle'[r] = handle[r]
      BY <2>3 DEF NTypeOK, CTypeOK, Objects
    <3>4. \A r \in Handles \ {h} : wrap'[r] = "set" <=> handle'[r].live
      BY <3>2, <3>3 DEF WrappersHold
    <3> HIDE DEF NInv
    <3>5. QED BY <1>1, <2>1, <3>2, <3>3, <3>4, LetGoInv
  <2>4. QED BY <2>1, <2>2, <2>3
<1>2. CASE JsDkgFree(h) \/ JsSignFree(h) \/ JsKpFree(h)
  <2>1. PICK call : FreeHandle(call, h)
    BY <1>2 DEF JsDkgFree, JsSignFree, JsKpFree, maany_mpc_dkg_free,
       maany_mpc_sign_free, maany_mpc_kp_free
  <2>2. Empties(h)
    BY <1>2 DEF JsDkgFree, JsSignFree, JsKpFree
  <2>3. hasty' \in BOOLEAN /\ (hasty => hasty') /\ (Of(h, {"running"}) => hasty')
    BY <2>2 DEF Empties, Hasty, Of, NTypeOK
  <2>4. QED BY <1>1, <2>1, <2>2, <2>3 DEF Empties, Hasty, jobVars
<1>3. CASE FinalizeDkgHandle(h) \/ FinalizeKeypair(h) \/ FinalizeSign(h)
  <2>1. PICK call : Collect(h, call)
    BY <1>3 DEF FinalizeDkgHandle, FinalizeKeypair, FinalizeSign
  <2>2. /\ hasty' \in BOOLEAN /\ (hasty => hasty')
        /\ Of(h, {"running"}) => hasty'
        /\ Of(h, {"queued"}) => hasty'
    BY <2>1 DEF Collect, Hasty, Of, NTypeOK
  <2>3. UNCHANGED <<cwrap, job, queue, leaked>>
    BY <2>1 DEF Collect, Hasty, jobVars
  <2>4. CASE wrap[h] = "set" /\ FreeHandle(call, h)
    BY <1>1, <2>1, <2>2, <2>3, <2>4 DEF Collect
  <2>5. CASE wrap[h] = "null" /\ UNCHANGED apiVars
    <3>1. wrap' = [wrap EXCEPT ![h] = "gone"]
      BY <2>1, <2>5 DEF Collect, apiVars
    <3>2. /\ wrap' \in [Handles -> {"none", "set", "null", "gone"}]
          /\ wrap'[h] = "gone"
          /\ \A r \in Handles \ {h} : wrap'[r] = wrap[r]
      BY <3>1 DEF NTypeOK
    <3>3. UNCHANGED <<handle, ctx, early, torn>>
      BY <2>5 DEF apiVars
    <3>4. /\ ~handle'[h].live
          /\ \A r \in Handles \ {h} : wrap'[r] = "set" <=> handle'[r].live
      BY <2>5, <3>2, <3>3 DEF WrappersHold
    <3> HIDE DEF NInv
    <3>5. QED BY <2>2, <2>3, <3>2, <3>3, <3>4, LetGoInv
  <2>6. QED BY <2>1, <2>4, <2>5 DEF Collect
<1>4. QED BY <1>2, <1>3

\* dkgFinalize: the session's object lets go of its handle as a new object
\* takes the keypair's; or all objects stay as they are.
LEMMA FinalizeInv ==
  ASSUME NInv, CInv', NEW h \in Handles, NEW k \in Handles, JsDkgFinalize(h, k)
  PROVE  NInv'
<1>1. CTypeOK /\ ctx = "up" /\ handle[h].live
  BY UnwrappedIsLive DEF NInv, CInv, JsDkgFinalize
<1>2. /\ hasty' \in BOOLEAN /\ (hasty => hasty')
      /\ Of(h, {"running"}) => hasty'
      /\ UNCHANGED <<cwrap, job, queue, leaked>>
  BY DEF NInv, JsDkgFinalize, Hasty, Of, NTypeOK, jobVars
<1>3. job' \in [Jobs -> [on : Handles \cup {Nothing}, stage : Stages, waits : BOOLEAN]]
  BY <1>2 DEF NInv, NTypeOK
<1>4. CASE Blocks("dkg_finalize", h) /\ UNCHANGED wrap
  <2>1. Quiet
    BY <1>1, <1>4, QuietCalls
  <2>2. UNCHANGED torn
    BY <1>4 DEF Blocks
  <2>3. QED BY <1>2, <1>3, <1>4, <2>1, <2>2, QuietInv
<1>5. CASE /\ FinalizeDkg(h, k, FALSE)
           /\ wrap' = IF answer'.status = "ok"
                      THEN [wrap EXCEPT ![h] = "null", ![k] = "set"] ELSE wrap
  <2>1. UNCHANGED <<ctx, early, torn>>
    BY <1>1, <1>5 DEF FinalizeDkg, Uses, CTypeOK
  <2>2. CASE answer'.status # "ok"
    <3>1. \/ UNCHANGED handle
          \/ \E p : handle' = [handle EXCEPT ![h].phase = p]
          \/ \E p, s : handle' = [handle EXCEPT ![h].phase = p, ![h].session = s]
      BY <1>5, <2>2 DEF FinalizeDkg, Answers
    <3>2. Quiet
      BY <1>1, <2>1, <3>1 DEF Quiet, CTypeOK, Objects
    <3>3. UNCHANGED wrap
      BY <1>5, <2>2
    <3>4. QED BY <1>2, <1>3, <2>1, <3>2, <3>3, QuietInv
  <2>3. CASE answer'.status = "ok"
    <3>1. /\ handle[h].kind = "dkg" /\ handle[k] = Unused
          /\ handle' = [handle EXCEPT ![h].phase = "done", ![h].session = "null",
                                      ![h].live = FALSE, ![k] = Made("kp", h)]
      BY <1>5, <2>3 DEF FinalizeDkg, Answers
    <3>2. h # k
      BY <3>1 DEF Unused
    <3>3. /\ ~handle'[h].live /\ handle'[k].live
          /\ \A r \in Handles \ {h, k} : handle'[r] = handle[r]
      BY <1>1, <3>1, <3>2 DEF CTypeOK, Objects, Made
    <3>4. /\ wrap' \in [Handles -> {"none", "set", "null", "gone"}]
          /\ wrap'[h] = "null" /\ wrap'[k] = "set"
          /\ \A r \in Handles \ {h, k} : wrap'[r] = wrap[r]
      BY <1>5, <2>3, <3>2 DEF NInv, NTypeOK
    <3>5. \A r \in Handles \ {h} : wrap'[r] = "set" <=> handle'[r].live
      BY <3>3, <3>4 DEF NInv, WrappersHold
    <3>6. QED BY <1>1, <1>2, <2>1, <3>3, <3>4, <3>5, LetGoInv
  <2>4. QED BY <2>2, <2>3
<1>6. QED BY <1>4, <1>5 DEF JsDkgFinalize

-----------------------------------------------------------------------------
(* The context.                                                            *)

\* init, shutdown, and the collector taking the context's object.
LEMMA ContextInv ==
  ASSUME NInv, CInv', ~torn, JsInit \/ JsShutdown \/ FinalizeCtx
  PROVE  NInv'
<1> USE DEF NInv
<1>1. UNCHANGED <<handle, wrap, job, queue, leaked>>
  BY DEF JsInit, JsShutdown, FinalizeCtx, maany_mpc_init, maany_mpc_shutdown,
     Hasty, jobVars, apiVars
<1>2. NTypeOK' /\ QueueOK'
  <2>1. cwrap' \in {"none", "set", "null", "gone"} /\ hasty' \in BOOLEAN
    BY DEF JsInit, JsShutdown, FinalizeCtx, Hasty, NTypeOK
  <2>2. QED BY <1>1, <2>1 DEF NTypeOK, QueueOK, CInv
<1>3. CASE JsInit
  <2>1. ctx = "none" /\ UNCHANGED <<early, torn, hasty>> /\ cwrap # "set"
    BY <1>3 DEF JsInit, maany_mpc_init, WrappersHold
  <2>2. \/ ctx' = "up" /\ cwrap' = "set"
        \/ ctx' = "none" /\ cwrap' = cwrap
    <3>1. ctx' = "up" \/ ctx' = "none"
      BY <1>3 DEF JsInit, maany_mpc_init
    <3>2. cwrap' = (IF ctx' = "up" THEN "set" ELSE cwrap)
      BY <1>3 DEF JsInit
    <3>3. QED BY <3>1, <3>2
  <2>3. WrappersHold' /\ Outlived'
    BY <1>1, <2>1, <2>2 DEF WrappersHold, Outlived
  <2>4. ASSUME NEW j \in Jobs PROVE JobInUse(j)'
    BY <1>1, <2>1, <2>2 DEF InUse, JobInUse
  <2>5. SafeUnlessHasty'
    BY <1>1, <2>1 DEF SafeUnlessHasty
  <2>6. QED BY <1>2, <2>3, <2>4, <2>5 DEF InUse
<1>4. CASE JsShutdown \/ FinalizeCtx
  <2>1. \/ /\ cwrap = "set" /\ maany_mpc_shutdown
        \/ /\ cwrap = "null" /\ UNCHANGED apiVars /\ cwrap' = "gone"
    BY <1>4 DEF JsShutdown, FinalizeCtx
  <2>2. /\ hasty => hasty'
        /\ Any({"running", "returned"}) => hasty'
        /\ cwrap' = "gone" /\ Any({"queued"}) => hasty'
        /\ cwrap' \in {"null", "gone"}
    BY <1>4 DEF JsShutdown, FinalizeCtx, Hasty, Any, NTypeOK
  <2>3. /\ ctx' # "up" /\ ~torn' /\ (early => early')
        /\ (\E h \in Handles : handle[h].live) => early'
    BY <2>1 DEF maany_mpc_shutdown, apiVars, WrappersHold, Outlived, CInv, CTypeOK
  <2>4. WrappersHold' /\ Outlived'
    BY <1>1, <2>2, <2>3 DEF WrappersHold, Outlived
  <2>5. ASSUME NEW j \in Jobs PROVE JobInUse(j)'
    <3>1. JobInUse(j)
      BY DEF InUse
    <3>2. job[j].stage \in {"running", "returned"} => hasty'
      BY <2>2 DEF Any
    <3>3. job[j].stage = "queued" /\ cwrap' = "gone" => hasty'
      BY <2>2 DEF Any
    <3>4. QED BY <1>1, <2>2, <3>1, <3>2, <3>3 DEF JobInUse
  <2>6. SafeUnlessHasty'
    BY <1>1, <2>2, <2>3 DEF SafeUnlessHasty
  <2>7. QED BY <1>2, <2>4, <2>5, <2>6 DEF InUse
<1>5. QED BY <1>3, <1>4

-----------------------------------------------------------------------------
(* Jobs.                                                                   *)

\* A step is queued.
LEMMA QueueWorkInv ==
  ASSUME NInv, CInv', NEW j \in Jobs, NEW h \in Handles, QueueWork(j, h)
  PROVE  NInv'
<1> USE DEF NInv
<1>1. /\ job[j].stage = "unused" /\ UnwrapHandle(h)
      /\ job' = [job EXCEPT ![j].on = h, ![j].stage = "queued"]
      /\ queue' = Append(queue, j)
      /\ UNCHANGED <<ctx, handle, early, torn, cwrap, wrap, leaked, hasty>>
  BY DEF QueueWork, hostVars, apiVars
<1>2. /\ job' \in [Jobs -> [on : Handles \cup {Nothing}, stage : Stages, waits : BOOLEAN]]
      /\ job'[j].stage = "queued" /\ job'[j].on = h
      /\ \A i \in Jobs \ {j} : job'[i] = job[i]
  BY <1>1 DEF NTypeOK, Stages
<1>3. queue \in Seq(Jobs)
  BY DEF NTypeOK
<1>4. /\ queue' \in Seq(Jobs) /\ Len(queue') = Len(queue) + 1
      /\ \A i \in 1..Len(queue') : queue'[i] = IF i = Len(queue) + 1 THEN j ELSE queue[i]
  BY <1>1, <1>3
<1>5. NTypeOK'
  BY <1>1, <1>2, <1>4 DEF NTypeOK, CInv
<1>6. QueueOK'
  <2>1. \A i \in 1..Len(queue) : queue[i] \in Jobs \ {j} /\ job[queue[i]].stage = "queued"
    BY <1>1, <1>3 DEF QueueOK
  <2>2. ASSUME NEW i \in 1..Len(queue')
        PROVE  /\ job'[queue'[i]].stage = "queued"
               /\ \A k \in 1..Len(queue') : queue'[i] = queue'[k] => i = k
    <3>1. CASE i = Len(queue) + 1
      BY <1>2, <1>3, <1>4, <2>1, <3>1
    <3>2. CASE i # Len(queue) + 1
      <4>1. i \in 1..Len(queue) /\ queue'[i] = queue[i]
        BY <1>3, <1>4, <3>2
      <4>2. job'[queue[i]].stage = "queued"
        BY <1>2, <2>1, <4>1
      <4>3. ASSUME NEW k \in 1..Len(queue'), queue'[i] = queue'[k] PROVE i = k
        BY <1>3, <1>4, <2>1, <4>1, <4>3 DEF QueueOK
      <4>4. QED BY <4>1, <4>2, <4>3
    <3>3. QED BY <3>1, <3>2
  <2>3. QED BY <2>2 DEF QueueOK
<1>7. InUse'
  BY <1>1, <1>2 DEF InUse, JobInUse, UnwrapHandle
<1>8. WrappersHold' /\ Outlived' /\ SafeUnlessHasty'
  BY <1>1 DEF WrappersHold, Outlived, SafeUnlessHasty
<1>9. QED BY <1>5, <1>6, <1>7, <1>8

\* A thread takes the next job.
LEMMA StartInv ==
  ASSUME NInv, CInv', NEW j \in Jobs, Start(j)
  PROVE  NInv'
<1> USE DEF NInv
<1>1. /\ queue # <<>> /\ j = Head(queue) /\ queue' = Tail(queue)
      /\ UNCHANGED <<ctx, handle, early, cwrap, wrap, leaked, hasty>>
  BY DEF Start
<1>2. queue \in Seq(Jobs)
  BY DEF NTypeOK
<1>3. /\ queue' \in Seq(Jobs) /\ Len(queue') = Len(queue) - 1 /\ Len(queue) >= 1
      /\ \A i \in 1..Len(queue') : queue'[i] = queue[i + 1] /\ i + 1 \in 1..Len(queue)
      /\ j = queue[1]
  BY <1>1, <1>2
<1>4. job[j].stage = "queued" /\ job[j].on \in Handles
  BY <1>3 DEF QueueOK, InUse, JobInUse
<1> DEFINE h == job[j].on
<1>5. PICK p \in {"finished", "running"}, waits \in BOOLEAN :
        /\ job' = [job EXCEPT ![j].stage = p, ![j].waits = waits]
        /\ p = "running" => UnwrapHandle(h)
        /\ torn' = (torn \/ (p = "finished" /\ (cwrap = "gone" \/ wrap[h] = "gone")))
  <2>1. CASE /\ ~UnwrapHandle(h)
             /\ job' = [job EXCEPT ![j].stage = "finished"]
             /\ torn' = (torn \/ cwrap = "gone" \/ wrap[h] = "gone")
    <3>1. job[j].waits \in BOOLEAN
      BY DEF NTypeOK
    <3>2. job' = [job EXCEPT ![j].stage = "finished", ![j].waits = job[j].waits]
      BY <2>1 DEF NTypeOK
    <3>3. QED BY <2>1, <3>1, <3>2
  <2>2. CASE /\ UnwrapHandle(h) /\ UNCHANGED torn
             /\ \E waits \in {FALSE, handle[h].phase = "running" /\ handle[h].session # "null"} :
                  job' = [job EXCEPT ![j].stage = "running", ![j].waits = waits]
    <3>1. PICK waits \in BOOLEAN :
            job' = [job EXCEPT ![j].stage = "running", ![j].waits = waits]
      BY <2>2
    <3>2. torn' = (torn \/ ("running" = "finished" /\ (cwrap = "gone" \/ wrap[h] = "gone")))
      BY <2>2 DEF CInv, CTypeOK
    <3>3. QED BY <2>2, <3>1, <3>2
  <2>3. QED BY <2>1, <2>2 DEF Start
<1>6. /\ job' \in [Jobs -> [on : Handles \cup {Nothing}, stage : Stages, waits : BOOLEAN]]
      /\ job'[j].stage = p /\ job'[j].on = h
      /\ \A i \in Jobs \ {j} : job'[i] = job[i]
  BY <1>5 DEF NTypeOK, Stages
<1>7. NTypeOK'
  BY <1>1, <1>3, <1>6 DEF NTypeOK, CInv
<1>8. QueueOK'
  <2>1. ASSUME NEW i \in 1..Len(queue')
        PROVE  /\ job'[queue'[i]].stage = "queued"
               /\ \A k \in 1..Len(queue') : queue'[i] = queue'[k] => i = k
    <3>1. /\ queue'[i] = queue[i + 1] /\ i + 1 \in 1..Len(queue) /\ i + 1 # 1
          /\ job[queue[i + 1]].stage = "queued" /\ queue[i + 1] \in Jobs
      BY <1>2, <1>3 DEF QueueOK
    <3>2. queue[i + 1] # j
      BY <1>3, <3>1 DEF QueueOK
    <3>3. ASSUME NEW k \in 1..Len(queue'), queue'[i] = queue'[k] PROVE i = k
      <4>1. queue[i + 1] = queue[k + 1] /\ k + 1 \in 1..Len(queue)
        BY <1>3, <3>1, <3>3
      <4>2. i + 1 = k + 1
        BY <3>1, <4>1 DEF QueueOK
      <4>3. QED BY <4>2
    <3>4. QED BY <1>6, <3>1, <3>2, <3>3
  <2>2. QED BY <2>1 DEF QueueOK
<1>9. InUse'
  BY <1>1, <1>4, <1>5, <1>6 DEF InUse, JobInUse, UnwrapHandle
<1>10. WrappersHold' /\ Outlived'
  BY <1>1 DEF WrappersHold, Outlived
<1>11. SafeUnlessHasty'
  BY <1>1, <1>4, <1>5 DEF SafeUnlessHasty, InUse, JobInUse
<1>12. QED BY <1>7, <1>8, <1>9, <1>10, <1>11

\* A job that is not in the queue goes on.
LEMMA JobMovesInv ==
  ASSUME NInv, CInv', NEW j \in Jobs, NEW p \in {"returned", "finished", "settled"},
         job[j].stage \in {"running", "returned", "finished"},
         p = "returned" => job[j].stage = "running",
         job' = [job EXCEPT ![j].stage = p],
         UNCHANGED <<cwrap, wrap, queue, hasty>>, Quiet,
         leaked' \in BOOLEAN, SafeUnlessHasty'
  PROVE  NInv'
<1> USE DEF NInv
<1>1. /\ job' \in [Jobs -> [on : Handles \cup {Nothing}, stage : Stages, waits : BOOLEAN]]
      /\ job'[j].stage = p /\ job'[j].on = job[j].on
      /\ \A i \in Jobs \ {j} : job'[i] = job[i]
  BY DEF NTypeOK, Stages
<1>2. NTypeOK'
  BY <1>1 DEF NTypeOK, CInv
<1>3. QueueOK'
  <2>1. \A i \in 1..Len(queue) : queue[i] \in Jobs \ {j}
    BY DEF NTypeOK, QueueOK
  <2>2. QED BY <1>1, <2>1 DEF QueueOK
<1>4. InUse'
  BY <1>1 DEF InUse, JobInUse
<1>5. WrappersHold' /\ Outlived'
  BY DEF WrappersHold, Outlived, Quiet
<1>6. QED BY <1>2, <1>3, <1>4, <1>5

\* A step returns, gives its buffer back, and settles its promise.
LEMMA RunInv ==
  ASSUME NInv, CInv', NEW j \in Jobs, Runs(j)
  PROVE  NInv'
<1>1. CASE DkgStepExecute(j) \/ SignStepExecute(j)
  <2> SUFFICES ASSUME NEW call, Return(j, call) PROVE NInv'
    BY <1>1 DEF DkgStepExecute, SignStepExecute
  <2>0. PICK out \in BOOLEAN :
          /\ StepReturns(call, job[j].on, TRUE, out)
          /\ job' = [job EXCEPT ![j].stage = IF out /\ answer'.status = "ok"
                                             THEN "returned" ELSE "finished"]
    BY DEF Return
  <2> DEFINE p == IF out /\ answer'.status = "ok" THEN "returned" ELSE "finished"
  <2>1. /\ job[j].stage = "running" /\ job[j].on \in Handles
        /\ StepReturns(call, job[j].on, TRUE, out)
        /\ job' = [job EXCEPT ![j].stage = p] /\ p \in {"returned", "finished"}
        /\ UNCHANGED <<cwrap, wrap, queue, leaked, hasty>>
    BY <2>0 DEF Return, NInv, InUse, JobInUse
  <2> HIDE DEF p
  <2>2. CTypeOK
    BY DEF NInv, CInv
  <2>3. Quiet
    BY <2>1, <2>2, QuietCalls
  <2>4. hasty \/ UNCHANGED torn
    <3>1. hasty \/ (cwrap = "set" /\ wrap[job[j].on] = "set")
      BY <2>1 DEF NInv, InUse, JobInUse
    <3>2. hasty \/ (ctx = "up" /\ handle[job[j].on].live)
      BY <2>1, <3>1 DEF NInv, WrappersHold
    <3>3. QED BY <2>1, <2>2, <3>2, UsesLive
  <2>5. SafeUnlessHasty'
    BY <2>1, <2>3, <2>4 DEF NInv, SafeUnlessHasty, Quiet
  <2>6. leaked' \in BOOLEAN
    BY <2>1 DEF NInv, NTypeOK
  <2>7. QED BY <2>1, <2>3, <2>5, <2>6, JobMovesInv
<1>2. CASE Release(j)
  <2>1. /\ job[j].stage = "returned"
        /\ job' = [job EXCEPT ![j].stage = "finished"]
        /\ torn' = (torn \/ cwrap = "gone") /\ leaked' = (leaked \/ cwrap = "null")
        /\ UNCHANGED <<ctx, handle, early, cwrap, wrap, queue, hasty>>
    BY <1>2 DEF Release
  <2>2. hasty \/ cwrap = "set"
    BY <2>1 DEF NInv, InUse, JobInUse
  <2>3. SafeUnlessHasty' /\ leaked' \in BOOLEAN /\ Quiet
    BY <2>1, <2>2 DEF NInv, SafeUnlessHasty, NTypeOK, Quiet
  <2>4. QED BY <2>1, <2>3, JobMovesInv
<1>3. CASE DkgStepComplete(j) \/ SignStepComplete(j)
  <2>1. /\ job[j].stage = "finished"
        /\ job' = [job EXCEPT ![j].stage = "settled"]
        /\ UNCHANGED <<ctx, handle, early, torn, cwrap, wrap, queue, leaked, hasty>>
    BY <1>3 DEF DkgStepComplete, SignStepComplete, Complete, hostVars, apiVars
  <2>2. SafeUnlessHasty' /\ leaked' \in BOOLEAN /\ Quiet
    BY <2>1 DEF NInv, SafeUnlessHasty, NTypeOK, Quiet
  <2>3. QED BY <2>1, <2>2, JobMovesInv
<1>4. QED BY <1>1, <1>2, <1>3, StartInv DEF Runs

-----------------------------------------------------------------------------
(* The theorems.                                                           *)

\* At first there is nothing.
LEMMA NInitInv == NInit => NInv
<1> SUFFICES ASSUME NInit PROVE NInv
  OBVIOUS
<1>1. CInv
  BY CInitInv DEF NInit
<1>2. NTypeOK
  <2>1. <<>> \in Seq(Jobs)
    OBVIOUS
  <2>2. job \in [Jobs -> [on : Handles \cup {Nothing}, stage : Stages, waits : BOOLEAN]]
    BY DEF NInit, Stages
  <2>3. QED BY <1>1, <2>1, <2>2 DEF NInit, NTypeOK, CInv
<1>3. ~Unused.live
  BY DEF Unused
<1>4. QueueOK /\ WrappersHold /\ Outlived /\ InUse /\ SafeUnlessHasty
  BY <1>3 DEF NInit, CInit, QueueOK, WrappersHold, Outlived, InUse, JobInUse,
     SafeUnlessHasty
<1>5. QED BY <1>1, <1>2, <1>4 DEF NInv

\* Every step keeps NInv.
LEMMA NNextInv ==
  ASSUME NInv, [NNext]_nodeVars
  PROVE  NInv'
<1>1. CInv'
  BY NodeKeepsCInv
<1>2. CASE UNCHANGED nodeVars
  BY <1>1, <1>2 DEF NInv, NTypeOK, QueueOK, WrappersHold, Outlived, InUse, JobInUse,
     SafeUnlessHasty, CInv, nodeVars, hostVars, jobVars, apiVars
<1>3. CASE ~torn /\ ~hung /\ JavaScript
  BY <1>1, <1>3, ContextInv, NewInv, FinalizeInv, QueueWorkInv, QuietJsInv, FreeInv
     DEF JavaScript, JsDkgStep, JsSignStep
<1>4. CASE ~torn /\ \E j \in Jobs : Runs(j)
  BY <1>1, <1>4, RunInv
<1>5. QED BY <1>2, <1>3, <1>4 DEF NNext

\* NInv is an invariant of the addon.
THEOREM NodeInvariant == NSpec => []NInv
BY NInitInv, NNextInv, PTL DEF NSpec

\* The type invariant holds for any number of handles, jobs and threads.
THEOREM NodeTypeCorrect == NSpec => []NTypeOK
<1>1. NInv => NTypeOK
  BY DEF NInv
<1>2. QED BY <1>1, NodeInvariant, PTL

\* An object holds a handle exactly as long as the handle is there.
THEOREM WrappersCorrect == NSpec => []WrappersHold
<1>1. NInv => WrappersHold
  BY DEF NInv
<1>2. QED BY <1>1, NodeInvariant, PTL

\* Only a program that frees what a step uses, or shuts down first, can make
\* the addon use freed memory, and only the former can make it lose a buffer.
THEOREM SafeCorrect == NSpec => []SafeUnlessHasty
<1>1. NInv => SafeUnlessHasty
  BY DEF NInv
<1>2. QED BY <1>1, NodeInvariant, PTL

\* What CApiProofs says of keys holds of the addon's too.
THEOREM NodeKeysCorrect == NSpec => []CInv
<1>1. NInv => CInv
  BY DEF NInv
<1>2. QED BY <1>1, NodeInvariant, PTL

-----------------------------------------------------------------------------
(* The addon and the React Native binding (HostObjects).                   *)

\* The C API is the same seen from both bindings: making, freeing, hanging.
LEMMA SameApi ==
  ASSUME NEW h \in Handles
  PROVE  /\ \A call, object : Create(call, h, object) <=> Host!Create(call, h, object)
         /\ \A call : FreeHandle(call, h) <=> Host!FreeHandle(call, h)
         /\ \A call : Blocks(call, h) <=> Host!Blocks(call, h)
         /\ \A call, wanted, out :
              StepReturns(call, h, wanted, out) <=> Host!StepReturns(call, h, wanted, out)
         /\ \A k, keeps : FinalizeDkg(h, k, keeps) <=> Host!FinalizeDkg(h, k, keeps)
         /\ \A kind, from : Made(kind, from) = Host!Made(kind, from)
         /\ \A call : CopyInFails(call, h) <=> Host!CopyInFails(call, h)
         /\ \A call : Throws(call, h) <=> Host!Throws(call, h)
         /\ Unused = Host!Unused
<1>1. \A call, object : Create(call, h, object) <=> Host!Create(call, h, object)
  BY DEF Create, Host!Create, Answers, Host!Answers, Hangs, Host!Hangs, Unused,
     Host!Unused, Unarmed, Host!Unarmed
<1>2. \A call : FreeHandle(call, h) <=> Host!FreeHandle(call, h)
  BY DEF FreeHandle, Host!FreeHandle, Answers, Host!Answers, Hangs, Host!Hangs,
     Unarmed, Host!Unarmed, Uses, Host!Uses
<1>3. \A call : Blocks(call, h) <=> Host!Blocks(call, h)
  BY DEF Blocks, Host!Blocks, Answers, Host!Answers, Hangs, Host!Hangs
<1>4. /\ \A call : CopyInFails(call, h) <=> Host!CopyInFails(call, h)
      /\ \A call : Throws(call, h) <=> Host!Throws(call, h)
  BY DEF CopyInFails, Host!CopyInFails, Throws, Host!Throws, Answers, Host!Answers
<1>5. \A call, wanted, out :
        StepReturns(call, h, wanted, out) <=> Host!StepReturns(call, h, wanted, out)
  BY <1>4 DEF StepReturns, Host!StepReturns, Answers, Host!Answers, CopyOut, Host!CopyOut,
     Unarmed, Host!Unarmed
<1>6. \A k, keeps : FinalizeDkg(h, k, keeps) <=> Host!FinalizeDkg(h, k, keeps)
  BY DEF FinalizeDkg, Host!FinalizeDkg, Answers, Host!Answers, Uses, Host!Uses,
     Made, Host!Made, Unused, Host!Unused
<1>7. Unused = Host!Unused /\ \A kind, from : Made(kind, from) = Host!Made(kind, from)
  BY DEF Made, Host!Made, Unused, Host!Unused
<1>8. QED BY <1>1, <1>2, <1>3, <1>4, <1>5, <1>6, <1>7

\* A step of JavaScript is a step of the React Native binding, or queues a job.
LEMMA JavaScriptIsHost ==
  ASSUME ~hung, JavaScript
  PROVE  Host!HNext \/ UNCHANGED hostVars
<1>1. CASE JsInit
  BY <1>1 DEF JsInit, Host!HNext, Host!init, maany_mpc_init, Host!maany_mpc_init,
     Answers, Host!Answers
<1>2. maany_mpc_shutdown => Host!maany_mpc_shutdown
  BY DEF maany_mpc_shutdown, Host!maany_mpc_shutdown, Answers, Host!Answers
<1>3. CASE JsShutdown \/ FinalizeCtx
  BY <1>2, <1>3 DEF JsShutdown, FinalizeCtx, Host!HNext, Host!shutdown,
     Host!DestroyCtx, apiVars, Host!apiVars
<1>4. ASSUME NEW h \in Handles, WrapHandle(h)
      PROVE  Host!Wraps(h)
  BY <1>4 DEF WrapHandle, Host!Wraps
<1>5. ASSUME NEW h \in Handles, JsDkgNew(h) \/ JsKpImport(h) \/ JsBackupRestore(h)
      PROVE  Host!dkgNew(h) \/ Host!kpImport(h) \/ Host!backupRestore(h)
  BY <1>4, <1>5, SameApi DEF JsDkgNew, JsKpImport, JsBackupRestore, Host!dkgNew,
     Host!kpImport, Host!backupRestore, Host!requireCtx, maany_mpc_dkg_new,
     maany_mpc_kp_import, maany_mpc_backup_restore, Host!maany_mpc_dkg_new,
     Host!maany_mpc_kp_import, Host!maany_mpc_backup_restore
<1>6. ASSUME NEW k \in Handles, NEW h \in Handles, JsSignNew(k, h) \/ JsRefreshNew(k, h)
      PROVE  Host!signNew(k, h) \/ Host!refreshNew(k, h)
  BY <1>4, <1>6, SameApi DEF JsSignNew, JsRefreshNew, Host!signNew, Host!refreshNew,
     Host!require, UnwrapHandle, maany_mpc_sign_new, maany_mpc_refresh_new,
     Host!maany_mpc_sign_new, Host!maany_mpc_refresh_new, Uses, Host!Uses
<1>7. ASSUME NEW h \in Handles, NEW k \in Handles, JsDkgFinalize(h, k)
      PROVE  Host!dkgFinalize(h, k)
  BY <1>7, SameApi DEF JsDkgFinalize, Host!dkgFinalize, Host!require, UnwrapHandle
<1>8. ASSUME NEW h \in Handles, JsSignSetMessage(h) PROVE Host!signSetMessage(h)
  <2>1. Host!maany_mpc_sign_set_message(h)
    BY <1>8 DEF JsSignSetMessage, maany_mpc_sign_set_message,
       Host!maany_mpc_sign_set_message, Answers, Host!Answers, Uses, Host!Uses
  <2>2. QED
    BY <1>8, <2>1 DEF JsSignSetMessage, Host!signSetMessage, Host!Only, Host!require,
       UnwrapHandle
<1>9. ASSUME NEW h \in Handles, JsSignFinalize(h) PROVE Host!signFinalize(h)
  <2>1. maany_mpc_sign_finalize(h) => Host!maany_mpc_sign_finalize(h)
    BY DEF maany_mpc_sign_finalize, Host!maany_mpc_sign_finalize, Answers,
       Host!Answers, Uses, Host!Uses, Unarmed, Host!Unarmed
  <2>2. QED
    BY <1>9, <2>1, SameApi DEF JsSignFinalize, Host!signFinalize, Host!Only,
       Host!require, UnwrapHandle
<1>10. ASSUME NEW h \in Handles, JsKpExport(h) \/ JsKpPubkey(h) \/ JsBackupCreate(h)
       PROVE  Host!kpExport(h) \/ Host!kpPubkey(h) \/ Host!backupCreate(h)
  <2>1. /\ maany_mpc_kp_export(h) => Host!maany_mpc_kp_export(h)
        /\ maany_mpc_kp_pubkey(h) => Host!maany_mpc_kp_pubkey(h)
    BY DEF maany_mpc_kp_export, Host!maany_mpc_kp_export, maany_mpc_kp_pubkey,
       Host!maany_mpc_kp_pubkey, Query, Host!Query, Answers, Host!Answers, Uses, Host!Uses
  <2>2. maany_mpc_backup_create(h) => Host!maany_mpc_backup_create(h)
    BY DEF maany_mpc_backup_create, Host!maany_mpc_backup_create, Answers,
       Host!Answers, Uses, Host!Uses
  <2>3. QED
    BY <1>10, <2>1, <2>2 DEF JsKpExport, JsKpPubkey, JsBackupCreate, Call,
       Host!kpExport, Host!kpPubkey, Host!backupCreate, Host!Only, Host!require,
       UnwrapHandle
<1>11. ASSUME NEW h \in Handles, JsDkgFree(h) \/ JsSignFree(h) \/ JsKpFree(h)
       PROVE  Host!dkgFree(h) \/ Host!signFree(h) \/ Host!kpFree(h)
  BY <1>11, SameApi DEF JsDkgFree, JsSignFree, JsKpFree, Host!dkgFree,
     Host!signFree, Host!kpFree, Empties, Host!Empties, maany_mpc_dkg_free,
     maany_mpc_sign_free, maany_mpc_kp_free, Host!maany_mpc_dkg_free,
     Host!maany_mpc_sign_free, Host!maany_mpc_kp_free
<1>12. ASSUME NEW h \in Handles,
              FinalizeDkgHandle(h) \/ FinalizeKeypair(h) \/ FinalizeSign(h)
       PROVE  Host!DestroyDkg(h) \/ Host!DestroyKeypair(h) \/ Host!DestroySign(h)
  BY <1>12, SameApi DEF FinalizeDkgHandle, FinalizeKeypair, FinalizeSign, Collect,
     Host!DestroyDkg, Host!DestroyKeypair, Host!DestroySign, Host!Destroy,
     apiVars, Host!apiVars
<1>13. ASSUME NEW j \in Jobs, NEW h \in Handles, JsDkgStep(j, h) \/ JsSignStep(j, h)
       PROVE  UNCHANGED hostVars
  BY <1>13 DEF JsDkgStep, JsSignStep, QueueWork
<1>14. QED
  BY <1>1, <1>3, <1>5, <1>6, <1>7, <1>8, <1>9, <1>10, <1>11, <1>12, <1>13
     DEF JavaScript, Host!HNext

\* A job that nothing was freed under does what a call would have done.
LEMMA RunsIsHost ==
  ASSUME NInv, ~hung, ~hasty', NEW j \in Jobs, Runs(j)
  PROVE  Host!HNext \/ UNCHANGED hostVars
<1>1. ~hasty
  BY DEF Runs, Start, DkgStepExecute, SignStepExecute, Return, Release,
     DkgStepComplete, SignStepComplete, Complete
<1>2. CASE Start(j)
  <2>1. job[j].stage = "queued"
    <3>1. queue \in Seq(Jobs) /\ queue # <<>> /\ j = queue[1]
      BY <1>2 DEF Start, NInv, NTypeOK
    <3>2. 1 \in 1..Len(queue)
      BY <3>1
    <3>3. QED BY <3>1, <3>2 DEF NInv, QueueOK
  <2>2. cwrap # "gone" /\ wrap[job[j].on] # "gone"
    BY <1>1, <2>1 DEF NInv, InUse, JobInUse
  <2>3. UNCHANGED torn
    BY <1>2, <2>2 DEF Start, NInv, CInv, CTypeOK
  <2>4. QED BY <1>2, <2>3 DEF Start, hostVars, apiVars
<1>3. CASE Release(j)
  <2>1. cwrap = "set"
    BY <1>1, <1>3 DEF Release, NInv, InUse, JobInUse
  <2>2. UNCHANGED torn
    BY <1>3, <2>1 DEF Release, NInv, CInv, CTypeOK
  <2>3. QED BY <1>3, <2>2 DEF Release, hostVars, apiVars
<1>4. CASE DkgStepComplete(j) \/ SignStepComplete(j)
  BY <1>4 DEF DkgStepComplete, SignStepComplete, Complete
<1>5. ASSUME NEW call, Return(j, call)
      PROVE  /\ job[j].on \in Handles /\ Host!require(job[j].on)
             /\ UNCHANGED <<cwrap, wrap>>
             /\ \E out \in BOOLEAN : Host!StepReturns(call, job[j].on, TRUE, out)
  <2>1. job[j].on \in Handles /\ cwrap = "set" /\ wrap[job[j].on] = "set"
    BY <1>1, <1>5 DEF Return, NInv, InUse, JobInUse
  <2>2. QED BY <1>5, <2>1, SameApi DEF Return, Host!require
<1>6. CASE DkgStepExecute(j)
  <2>1. job[j].on \in Handles /\ Host!dkgStep(job[j].on)
    BY <1>5, <1>6 DEF DkgStepExecute, Host!dkgStep, Host!Only, Host!maany_mpc_dkg_step
  <2>2. QED BY <2>1 DEF Host!HNext
<1>7. CASE SignStepExecute(j)
  <2>1. job[j].on \in Handles /\ Host!signStep(job[j].on)
    BY <1>5, <1>7 DEF SignStepExecute, Host!signStep, Host!Only, Host!maany_mpc_sign_step
  <2>2. QED BY <2>1 DEF Host!HNext
<1>8. QED BY <1>2, <1>3, <1>4, <1>6, <1>7 DEF Runs

\* As long as nothing is freed under a step that uses it, the addon does to the
\* library what the React Native binding does.
THEOREM HostCorrect == NSpec => BehavesLikeHost
<1>1. NInv /\ [NNext]_nodeVars => [~hasty' /\ ~hung => Host!HNext]_hostVars
  <2>1. ASSUME NInv, NNext, ~hasty', ~hung PROVE Host!HNext \/ UNCHANGED hostVars
    BY <2>1, JavaScriptIsHost, RunsIsHost DEF NNext, nodeVars
  <2>2. UNCHANGED nodeVars => UNCHANGED hostVars
    BY DEF nodeVars
  <2>3. QED BY <2>1, <2>2
<1>2. QED BY <1>1, NodeInvariant, PTL DEF NSpec, BehavesLikeHost

=============================================================================
