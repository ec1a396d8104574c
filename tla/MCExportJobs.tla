---------------------------- MODULE MCExportJobs ----------------------------
(* TLC instances of ExportJobs: one or two exports of an organization on a *)
(* pool of one or two workers, which are interchangeable.                  *)
EXTENDS ExportJobs, TLC

CONSTANTS e1, e2, w1, w2

MCSymmetry == Permutations(Workers)
=============================================================================
