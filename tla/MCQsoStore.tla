---------------------------- MODULE MCQsoStore ------------------------------
(***************************************************************************)
(* QsoStore for TLC.  One CALL/BAND/MODE; times 0, 2 and 3, so that one    *)
(* pair of contacts is exactly at the edge of the duplicate window, one    *)
(* inside it and one outside; two dates; one import of a valid, an invalid *)
(* and another valid record.                                               *)
(***************************************************************************)
EXTENDS QsoStore, TLC

CONSTANT Text   \* one of ClientUtc

MCDate == {0, 1}
MCTime == {0, 2, 3}

R(d, t) == [call |-> "W1AW", date |-> d, time |-> t]
U(d, t) == [call |-> Keep, date |-> d, time |-> t, utc |-> Keep]

Singles == {<<R(0, 0)>>, <<R(0, 2)>>}
Import == <<R(0, 0), R(Garbled, 0), R(0, 3)>>

MCBatches == Singles \cup {Import}

\* Sent by the API: the text of instant 2 as qso_date_utc, hashed like it.
MCCanonical == [x \in ClientUtc |-> 2]

\* A correction of the date, of the time or of qso_date_utc alone; a date that
\* does not parse; and an empty date, alone or with a new time.
MCUpdates == {U(1, Keep), U(Keep, 2), U(Garbled, Keep), U(Empty, Keep), U(Empty, 2),
              [U(Keep, Keep) EXCEPT !.utc = Text]}

\* Up to two disturbances, of any kinds, around the submissions.
FewDisturbances == spent.edits + spent.clears + spent.faults <= 2

ProcSymmetry == Permutations(Proc)
=============================================================================
