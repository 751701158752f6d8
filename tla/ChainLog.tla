------------------------------ MODULE ChainLog ------------------------------
(***************************************************************************)
(* What the hash chain promises its readers, with the transactions, locks  *)
(* and hashes left out: one history of events, numbered from 1 without a   *)
(* gap, of which nothing is ever changed or taken back.                    *)
(***************************************************************************)
EXTENDS Integers, Sequences

VARIABLE log    \* every event so far, each a record with its `seq`

Init == log = <<>>

Numbered(s) == \A n \in 1..Len(s) : s[n].seq = n

\* One transaction's events are added at the end, all at once.
Grow ==
    /\ Len(log) < Len(log')
    /\ \A n \in 1..Len(log) : log'[n] = log[n]
    /\ Numbered(log')

Spec == Init /\ [][Grow]_log
=============================================================================
