------------------------------ MODULE Exchange ------------------------------
(***************************************************************************)
(* What a run of key generation promises, whatever carries the messages:   *)
(* two parties talk, each hears what the other said, exactly once and in   *)
(* order, and a party that is given its key has heard everything the other *)
(* one ever says.                                                          *)
(***************************************************************************)
EXTENDS Naturals, Sequences

CONSTANTS Party,      \* the two parties
          Peer(_)     \* the other one

VARIABLES said,   \* how many messages a party has sent, numbered from 1
          heard,  \* the messages a party has received
          keyed   \* whether a party was given its key

exchangeVars == <<said, heard, keyed>>

ExchangeInit ==
  /\ said  = [p \in Party |-> 0]
  /\ heard = [p \in Party |-> <<>>]
  /\ keyed = [p \in Party |-> FALSE]

Say(p) ==
  /\ \A q \in Party : ~keyed[q]
  /\ said' = [said EXCEPT ![p] = @ + 1]
  /\ UNCHANGED <<heard, keyed>>

Hear(p) ==
  /\ Len(heard[p]) < said[Peer(p)]
  /\ heard' = [heard EXCEPT ![p] = Append(@, Len(@) + 1)]
  /\ UNCHANGED <<said, keyed>>

GiveKey(p) ==
  /\ Len(heard[p]) = said[Peer(p)] /\ ~keyed[p]
  /\ keyed' = [keyed EXCEPT ![p] = TRUE]
  /\ UNCHANGED <<said, heard>>

ExchangeNext == \E p \in Party : Say(p) \/ Hear(p) \/ GiveKey(p)

ExchangeSpec == ExchangeInit /\ [][ExchangeNext]_exchangeVars

=============================================================================
