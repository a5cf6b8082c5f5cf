----------------------------- MODULE EventStream -----------------------------
(***************************************************************************)
(* What Store.Subscribe promises a reader: every event of the session after *)
(* the sequence number it names, each once and in order, however slow the   *)
(* reader is (store_test.go, TestSlowSubscriberDoesNotLoseEvents).          *)
(***************************************************************************)
EXTENDS Naturals, Sequences

CONSTANTS
    Subscriber,
    From            \* From[s]: the sequence number s subscribes after

VARIABLES
    written,        \* events of the session so far
    received        \* received[s]: sequence numbers s has received

Init ==
    /\ written = 0
    /\ received = [s \in Subscriber |-> <<>>]

Write ==
    /\ written' = written + 1
    /\ UNCHANGED received

Receive(s) ==
    LET next == From[s] + Len(received[s]) + 1
    IN  /\ next <= written
        /\ received' = [received EXCEPT ![s] = Append(@, next)]
        /\ UNCHANGED written

Next == Write \/ \E s \in Subscriber : Receive(s)

Spec == Init /\ [][Next]_<<written, received>>
=============================================================================
