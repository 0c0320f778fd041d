-------------------------- MODULE MCFetchScheduler ---------------------------
(* Instances of FetchScheduler for TLC: two slots in a day of 8 ticks.       *)
EXTENDS FetchScheduler

MCSlotTimes == {0, 4}

\* The next slot begins while the first one is retried.
MCNearSlots == {0, 2}

\* One of the instances may lose the lock once it needs it no more, or while it executes.
Some == CHOOSE i \in Instances : TRUE

MCFragileEnd  == {<<Some, "unlock">>}
MCFragileWork == {<<Some, "execute">>}
=============================================================================
