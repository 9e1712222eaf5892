----------------------------- MODULE MCTracker -----------------------------
EXTENDS Tracker, TLC

\* Applied to already, on the first day, or only for the record.
MCEntries == {<<"Applied", 1>>, <<"Archived", 0>>}
=============================================================================
