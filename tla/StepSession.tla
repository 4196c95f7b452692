---------------------------- MODULE StepSession ----------------------------
(***************************************************************************)
(* What a caller of bridge.h's DkgSession and SignSession may rely on: a    *)
(* session runs until it is done or has failed, says so in its answers, and *)
(* never takes that back; a DkgSession gives its key out at most once, and  *)
(* only when it did not fail.                                              *)
(***************************************************************************)
CONSTANT Sessions

VARIABLES phase,  \* what the answers so far say of the session
          given   \* how often the key has been given out

Phases == {"running", "done", "failed"}

SInit ==
  /\ phase = [s \in Sessions |-> "running"]
  /\ given = [s \in Sessions |-> 0]

\* What a running session answers is open; an ended one repeats itself.
After(p) == IF p = "running" THEN Phases ELSE {p}

\* Step, or a Finalize that gives nothing out.
StepAnswers(s) ==
  /\ \E p \in After(phase[s]) : phase' = [phase EXCEPT ![s] = p]
  /\ UNCHANGED given

\* Finalize of a key generation or a refresh.
GiveKey(s) ==
  /\ phase[s] # "failed" /\ given[s] = 0
  /\ phase' = [phase EXCEPT ![s] = "done"]
  /\ given' = [given EXCEPT ![s] = 1]

SNext == \E s \in Sessions : StepAnswers(s) \/ GiveKey(s)

SSpec == SInit /\ [][SNext]_<<phase, given>>

=============================================================================
