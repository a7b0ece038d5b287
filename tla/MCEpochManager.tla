-------------------------- MODULE MCEpochManager --------------------------
(***************************************************************************)
(* Instances of EpochManager for TLC.  The clock is scaled down to         *)
(* EpochRefreshFrequency = 1, MinEpochDuration = 3, CleanupSafetyMargin = 3, *)
(* the smallest values Parameters.Validate allows.                         *)
(***************************************************************************)
EXTENDS EpochManager, TLC
CONSTANTS m1, m2, w1, w2, r1, g, i0, i1, i2, i3

NoRange == -1

\* m1 is a client, m2 the client that owns maintenance.
ManagerOfProcs == (w1 :> m1) @@ (w2 :> m2) @@ (r1 :> m1) @@ (g :> m2)
W1Maint == [p \in {w1, g} |-> ManagerOfProcs[p]]
CleanupManagers == [p \in {w2, r1, g} |-> ManagerOfProcs[p]]
RangeManagers == [p \in {r1, g} |-> ManagerOfProcs[p]]
OwnManagers == [p \in {w1, r1, g} |-> ManagerOfProcs[p]]

\* Epoch 0 has a blob, epoch 1 is the write epoch and ready to be advanced.
ReadyEpoch == (i0 :> 0) @@ (i1 :> 1) @@ (i2 :> 1)
ReadyTime == (i0 :> 0) @@ (i1 :> 0) @@ (i2 :> 3)

LaterEpoch == (i0 :> 1) @@ (i1 :> 2) @@ (i2 :> 2)

\* Epoch 3 is the write epoch, epochs 0 and 1 are settled.
SettledEpoch == (i0 :> 0) @@ (i1 :> 1) @@ (i2 :> 2) @@ (i3 :> 3)
SettledTime == (i0 :> 0) @@ (i1 :> 1) @@ (i2 :> 2) @@ (i3 :> 3)

CleanupEpoch == [w \in {i0, i1, i2} |-> SettledEpoch[w]]
CleanupTime == [w \in {i0, i1, i2} |-> SettledTime[w]]

\* Epochs 0 and 2 have single-epoch compactions, epoch 1 has none, a range checkpoint
\* covers 0..1, and the compaction of epoch 2 is old enough for cleanup.
GapEpoch == (i0 :> 0) @@ (i1 :> 2) @@ (i2 :> 2) @@ (i3 :> 4)
GapTime == (i0 :> 0) @@ (i1 :> 0) @@ (i2 :> 0) @@ (i3 :> 5)

W1Start == (w1 :> {3, 4})
CleanupStart == (w2 :> {7})
NoStart == << >>
===========================================================================
