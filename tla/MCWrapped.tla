----------------------------- MODULE MCWrapped -----------------------------
(* Wrapped checked by TLC. *)
EXTENDS Wrapped

CONSTANTS ann, p1, l1, l2, o1, b1

MCListener == [p \in Plays |-> ann]
MCReports == {e \in ReportKinds : e.kind # "skip" => e.long}
MCKind == [j \in Jobs |-> CASE j \in {l1, l2} -> "locked" [] j = o1 -> "open" [] OTHER -> ann]
=============================================================================
