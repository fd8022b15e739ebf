---------------------------- MODULE MCAuditReads ----------------------------
(* An instance of the audit reads for TLC. *)
EXTENDS AuditReads, TLC

CONSTANTS b1, b2, b3

ThreeBatches == {b1, b2, b3}

\* Two batches with a row the client asks for and one without, one with two.
Outcomes ==
    (b1 :> {<<1, "skipped">>, <<2, "success">>}) @@
    (b2 :> {<<3, "failed">>, <<4, "skipped">>}) @@
    (b3 :> {<<5, "skipped">>})

Problems == {"failed", "skipped"}
=============================================================================
