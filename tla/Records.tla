------------------------------- MODULE Records -------------------------------
(* What several modules do with records.                                    *)

\* Setting some fields: row with the fields of change, those it lacked added.
With(row, change) ==
    [f \in (DOMAIN row) \cup (DOMAIN change) |->
        IF f \in DOMAIN change THEN change[f] ELSE row[f]]
=============================================================================
