---------------------------- MODULE RevisionGate ----------------------------
(***************************************************************************)
(* What the Runtime promises the callers of observe() and execute(): one   *)
(* lane to the device, opened by a key.  Observing makes a fresh key.  The *)
(* key opens the lane to one batch and is gone: whatever the batch comes   *)
(* to, the next one needs an observation made after it.  Only a batch that *)
(* is torn out of the lane, its task cancelled, leaves the key behind.  A  *)
(* key can also be dropped unused, and closing drops it for good.          *)
(***************************************************************************)
EXTENDS Naturals

VARIABLES
  key,     \* the key that would open the lane now (0: none)
  lane,    \* the key the batch in the lane came with (0: the lane is empty)
  made,    \* keys made so far; keys are numbered as they are made
  spent,   \* keys that have opened the lane and were not left behind
  shut     \* no batch will enter the lane any more

gateVars == <<key, lane, made, spent, shut>>

Init ==
  /\ key = 0
  /\ lane = 0
  /\ made = 0
  /\ spent = {}
  /\ shut = FALSE

Make ==
  /\ lane = 0
  /\ ~shut
  /\ made' = made + 1
  /\ key' = made + 1
  /\ UNCHANGED <<lane, spent, shut>>

Enter ==
  /\ lane = 0
  /\ key # 0
  /\ key \notin spent
  /\ lane' = key
  /\ spent' = spent \cup {key}
  /\ key' = 0
  /\ UNCHANGED <<made, shut>>

Leave ==
  /\ lane # 0
  /\ lane' = 0
  /\ UNCHANGED <<key, made, spent, shut>>

TearOut ==
  /\ lane # 0
  /\ lane' = 0
  /\ key' = lane
  /\ spent' = spent \ {lane}
  /\ UNCHANGED <<made, shut>>

Drop ==
  /\ lane = 0
  /\ key' = 0
  /\ UNCHANGED <<lane, made, spent, shut>>

Shut ==
  /\ lane = 0
  /\ shut' = TRUE
  /\ key' = 0
  /\ UNCHANGED <<lane, made, spent>>

Next == Make \/ Enter \/ Leave \/ TearOut \/ Drop \/ Shut

Spec == Init /\ [][Next]_gateVars

=============================================================================
