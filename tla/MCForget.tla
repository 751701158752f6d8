------------------------------ MODULE MCForget ------------------------------
(* Model values for Forget: two captures, and what may happen in one       *)
(* behaviour.                                                               *)
EXTENDS Forget, TLC

CONSTANTS c1, c2, h1, h2
MCHashOf == (c1 :> h1) @@ (c2 :> h2)

Bound(captures, compactions, reads, snapshots, sets, dies, damages) ==
    [captures |-> captures, passes |-> compactions, reads |-> reads, snaps |-> snapshots,
     asides |-> sets, crashes |-> dies, damages |-> damages]

\* Two prompts and two compaction runs; one prompt, its compactions and a
\* restore; two prompts, an organizer run and a restore; all of it for one
\* prompt; three snapshots, one may be torn, and two restores; two prompts, two
\* snapshots and a live file that gets damaged.
MCBounds ==
    {Bound({c1, c2}, 2, 0, 0, 0, 1, {}),
     Bound({c1}, 2, 0, 1, 1, 1, {}),
     Bound({c1, c2}, 0, 1, 1, 1, 1, {}),
     Bound({c1}, 1, 1, 1, 1, 1, {}),
     Bound({c1}, 0, 0, 3, 2, 1, {"chain", "file"}),
     Bound({c1, c2}, 0, 0, 2, 1, 1, {"chain", "file"})}
=============================================================================
