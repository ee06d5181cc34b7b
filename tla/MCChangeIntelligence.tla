-------------------------- MODULE MCChangeIntelligence --------------------------
(* Four snapshots of one repository: a long history for a small limit.          *)
EXTENDS ChangeIntelligence, ChangeExamples

FourChanges == Four(None)
================================================================================
