---------------------------- MODULE TrafficLedger ----------------------------
(***************************************************************************)
(* What traffic accounting promises.  Every byte a relay counts for a node *)
(* and a user is owed until it is reported to the panel or written off; no *)
(* byte is owed that was not counted or, by an agent that repeats itself,  *)
(* returned twice.  It promises nothing of totals that no counter can hold. *)
(***************************************************************************)
EXTENDS Naturals

CONSTANTS
  Keys,         \* what bytes are counted for
  MaxBytes      \* what one counter holds

VARIABLES counted, doubled, owed, reported, written_off

vars == <<counted, doubled, owed, reported, written_off>>

Zero == [upload |-> 0, download |-> 0]

AtMost(a, b) == \A k \in Keys : /\ a[k].upload <= b[k].upload
                                /\ a[k].download <= b[k].download

\* x and y grow by the same amounts.
GrowAlike(x, x1, y, y1) ==
  /\ AtMost(x, x1)
  /\ \A k \in Keys : /\ x1[k].upload + y[k].upload = x[k].upload + y1[k].upload
                     /\ x1[k].download + y[k].download = x[k].download + y1[k].download

Init ==
  /\ counted = [k \in Keys |-> Zero]
  /\ doubled = [k \in Keys |-> Zero]
  /\ owed = [k \in Keys |-> Zero]
  /\ reported = [k \in Keys |-> Zero]
  /\ written_off = [k \in Keys |-> Zero]

Count ==
  /\ GrowAlike(counted, counted', owed, owed')
  /\ UNCHANGED <<doubled, reported, written_off>>

Double ==
  /\ GrowAlike(doubled, doubled', owed, owed')
  /\ UNCHANGED <<counted, reported, written_off>>

Report ==
  /\ GrowAlike(reported, reported', owed', owed)
  /\ UNCHANGED <<counted, doubled, written_off>>

WriteOff ==
  /\ GrowAlike(written_off, written_off', owed', owed)
  /\ UNCHANGED <<counted, doubled, reported>>

\* Bytes that nobody will ask for are counted.
Miss ==
  /\ GrowAlike(written_off, written_off', counted, counted')
  /\ UNCHANGED <<doubled, owed, reported>>

Fits ==
  \A k \in Keys : /\ counted[k].upload + doubled[k].upload <= MaxBytes
                  /\ counted[k].download + doubled[k].download <= MaxBytes

\* A step into or out of totals that no counter can hold.
Beyond == ~ (Fits /\ Fits')

Next == Beyond \/ Miss \/ Count \/ Double \/ Report \/ WriteOff

Spec == Init /\ [][Next]_vars
=============================================================================
