------------------------ MODULE MCJournalRefinement ------------------------
(***************************************************************************)
(* The instance of MCInferenceJournal on which the refinement is checked.  *)
(***************************************************************************)
EXTENDS MCInferenceJournal, JournalRefinement
=============================================================================
