------------------------------ MODULE DeviceFeed ------------------------------
(***************************************************************************)
(* What the task manager promises, without its threads, lock or condition  *)
(* variable ("FIFO device task manager", TaskManager.h): announced devices *)
(* are recorded one at a time, in the order they were accepted, each once. *)
(* When the feed is asked to stop it may start one more device, never two, *)
(* and an exception while a device is recorded ends everything.            *)
(***************************************************************************)
EXTENDS Naturals, Sequences

CONSTANTS Device,     \* device objects, one per announcement
          NoDevice    \* "nothing in hand"

VARIABLES accepted,   \* devices accepted, in order of acceptance
          current,    \* the device being recorded, or NoDevice
          recorded,   \* devices recorded, in order
          phase       \* "open", "last" (one more may start), "closed", "aborted"

feedVars == <<accepted, current, recorded, phase>>

Init == /\ accepted = <<>>
        /\ current = NoDevice
        /\ recorded = <<>>
        /\ phase = "open"

\* A device is accepted even while the feed is stopping, but then may stay unrecorded.
Accept == /\ phase # "aborted"
          /\ \E d \in Device : accepted' = Append(accepted, d)
          /\ UNCHANGED <<current, recorded, phase>>

\* The device to start is the one accepted after those already recorded.
Start == /\ current = NoDevice
         /\ phase \in {"open", "last"}
         /\ Len(recorded) < Len(accepted)
         /\ current' = accepted[Len(recorded) + 1]
         /\ phase' = IF phase = "last" THEN "closed" ELSE phase
         /\ UNCHANGED <<accepted, recorded>>

Finish == /\ current # NoDevice
          /\ phase # "aborted"
          /\ recorded' = Append(recorded, current)
          /\ current' = NoDevice
          /\ UNCHANGED <<accepted, phase>>

\* A stop either still allows one device to start, or none.
Stop == /\ phase = "open"
        /\ phase' \in {"last", "closed"}
        /\ UNCHANGED <<accepted, current, recorded>>

\* The last chance to start a device passes unused.
Close == /\ phase = "last"
         /\ phase' = "closed"
         /\ UNCHANGED <<accepted, current, recorded>>

Abort == /\ current # NoDevice
         /\ phase' = "aborted"
         /\ UNCHANGED <<accepted, current, recorded>>

Next == Accept \/ Start \/ Finish \/ Stop \/ Close \/ Abort

Spec == Init /\ [][Next]_feedVars
===============================================================================
