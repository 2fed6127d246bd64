------------------------------- MODULE Logbook -------------------------------
(***************************************************************************)
(* What the program promises of its file, over any number of runs: a log   *)
(* that only grows, to which the devices announced in a run are added one  *)
(* at a time and in order.  A run that stops finishes the device it has    *)
(* begun, and may begin one more; a crash loses that device and those that *)
(* wait, and nothing that was logged.                                      *)
(***************************************************************************)
EXTENDS Naturals, Sequences

CONSTANTS Device,    \* device objects
          NoDevice   \* "nothing in hand"

VARIABLES log,       \* devices logged, in order, over all runs
          waiting,   \* devices announced in this run and not begun
          inHand,    \* the device being recorded, or NoDevice
          phase      \* "starting", "open", "last" (one more may begin), "closed", then
                     \* "ended" or "crashed"

logVars == <<log, waiting, inHand, phase>>

Init == /\ log = <<>>
        /\ waiting = <<>>
        /\ inHand = NoDevice
        /\ phase = "starting"

Open == /\ phase = "starting"
        /\ phase' = "open"
        /\ UNCHANGED <<log, waiting, inHand>>

Announce == /\ phase \in {"open", "last", "closed"}
            /\ \E d \in Device : waiting' = Append(waiting, d)
            /\ UNCHANGED <<log, inHand, phase>>

Begin == /\ inHand = NoDevice
         /\ phase \in {"open", "last"}
         /\ waiting # <<>>
         /\ inHand' = Head(waiting)
         /\ waiting' = Tail(waiting)
         /\ phase' = IF phase = "last" THEN "closed" ELSE phase
         /\ UNCHANGED log

Record == /\ inHand # NoDevice
          /\ log' = Append(log, inHand)
          /\ inHand' = NoDevice
          /\ UNCHANGED <<waiting, phase>>

Stop == /\ phase = "open"
        /\ phase' \in {"last", "closed"}
        /\ UNCHANGED <<log, waiting, inHand>>

Close == /\ phase = "last"
         /\ phase' = "closed"
         /\ UNCHANGED <<log, waiting, inHand>>

\* A run that is not cut short leaves nothing half recorded.
Exit == /\ phase = "closed"
        /\ inHand = NoDevice
        /\ phase' = "ended"
        /\ waiting' = <<>>
        /\ UNCHANGED <<log, inHand>>

Crash == /\ phase \notin {"ended", "crashed"}
         /\ phase' = "crashed"
         /\ waiting' = <<>>
         /\ inHand' = NoDevice
         /\ UNCHANGED log

Restart == /\ phase \in {"ended", "crashed"}
           /\ phase' = "starting"
           /\ UNCHANGED <<log, waiting, inHand>>

Next == Open \/ Announce \/ Begin \/ Record \/ Stop \/ Close \/ Exit \/ Crash \/ Restart

Spec == Init /\ [][Next]_logVars
===============================================================================
