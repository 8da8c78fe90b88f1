---------------------------- MODULE OperatorLog -----------------------------
(***************************************************************************)
(* What ollog promises of an operator's log, whatever the requests in      *)
(* flight: contacts are logged, corrected, put in the bin (soft delete) and*)
(* purged by clearing the log; no exact copy of a contact is taken; what is*)
(* in the bin stays there as it was; an id never stands for two contacts.  *)
(* A contact two requests edit at once is contested from then on: it may   *)
(* become a copy of another one, and be changed in the bin.                *)
(***************************************************************************)
CONSTANTS QsoId, Fields, Absent

VARIABLES
  entry,   \* the contact each id stands for, or Absent
  bin,     \* ids that are soft-deleted
  used,    \* ids ever given out
  contested \* ids that two requests have edited at once

logVars == <<entry, bin, used, contested>>

Live == {i \in QsoId : entry[i] # Absent /\ i \notin bin}

Init ==
  /\ entry = [i \in QsoId |-> Absent]
  /\ bin = {}
  /\ used = {}
  /\ contested = {}

\* Contact i becomes some contact that no other live one is an exact copy of,
\* unless one of the two is contested; the others stay as they are.
Enter(i) ==
  /\ entry'[i] \in Fields
  /\ i \notin contested => \A j \in Live \ ({i} \cup contested) : entry[j] # entry'[i]
  /\ entry' = [entry EXCEPT ![i] = entry'[i]]

Log(i) ==
  /\ i \notin used
  /\ Enter(i)
  /\ used' = used \cup {i}
  /\ UNCHANGED <<bin, contested>>

Correct(i) ==
  /\ i \in Live \cup (bin \cap contested)
  /\ Enter(i)
  /\ UNCHANGED <<bin, used, contested>>

Bin(i) ==
  /\ i \in Live
  /\ bin' = bin \cup {i}
  /\ UNCHANGED <<entry, used, contested>>

Purge(i) ==
  /\ i \in Live
  /\ entry' = [entry EXCEPT ![i] = Absent]
  /\ UNCHANGED <<bin, used, contested>>

\* A second request begins to edit i while another one does.
Contest(i) ==
  /\ i \in Live
  /\ contested' = contested \cup {i}
  /\ UNCHANGED <<entry, bin, used>>

Next == \E i \in QsoId : Log(i) \/ Correct(i) \/ Bin(i) \/ Purge(i) \/ Contest(i)

Spec == Init /\ [][Next]_logVars
=============================================================================
