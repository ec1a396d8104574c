--------------------------- MODULE MCEntryAutosave ---------------------------
EXTENDS EntryAutosave

\* Bound: nothing is followed past the "Report submitted" screen.
NotDone == phase # "done"
=============================================================================
