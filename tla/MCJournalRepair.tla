---------------------------- MODULE MCJournalRepair ----------------------------
(* JournalRepair for TLC; the instance is given in the configuration. *)
EXTENDS JournalRepair
================================================================================
