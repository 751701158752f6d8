----------------------------- MODULE MCWindows -----------------------------
(* Model values for Windows: one user, its workers and a ledger each.      *)
EXTENDS Windows, TLC

CONSTANTS w1, w2

MCKeys == {k \in (0..MaxSeq) \X (0..MaxSeq) : k[1] <= k[2]}
MCBackoffs == 1 :> 1 @@ 2 :> 2

Scenario(user, workers, seqs, lake, cap, late, dies) ==
    [user |-> user, workers |-> workers, seqs |-> seqs, lake |-> lake, cap |-> cap,
     late |-> late, mishaps |-> dies, keys |-> {<<0, 0>>, <<0, 1>>}]

\* One loop that asks for any of two keys; a filer alone and two of them; an
\* organizer alone whose windows end at the head, or before it; two organizers
\* that only lose leases; two of them that die and fail.
MCScenarios ==
    {Scenario("any", {w1}, 0, {}, 1, TRUE, 0),
     Scenario("basic_filing", {w1}, 2, {1, 2}, 1, FALSE, 2),
     Scenario("basic_filing", {w1, w2}, 2, {1, 2}, 1, FALSE, 0),
     Scenario("organize", {w1}, 2, {1}, 2, FALSE, 3),
     Scenario("organize", {w1}, 2, {1, 2}, 1, FALSE, 2),
     Scenario("organize", {w1, w2}, 2, {1, 2}, 2, FALSE, 0),
     Scenario("organize", {w1, w2}, 1, {1}, 1, FALSE, 2)}
=============================================================================
