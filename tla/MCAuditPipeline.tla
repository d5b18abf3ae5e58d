--------------------------- MODULE MCAuditPipeline --------------------------
(* Two events and so two seal jobs of two attempts each, two seal            *)
(* transactions at a time, blocks of one event: both jobs are needed, and    *)
(* neither is bound to its own event.                                        *)
EXTENDS AuditPipeline

CONSTANTS s1, s2
=============================================================================
