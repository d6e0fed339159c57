---------------------------- MODULE MCReportFocus ----------------------------
EXTENDS ReportFocus, TLC

(* Text 0 is empty, 8 is the two texts 3 and 5 on one line, 9 is 3 with a  *)
(* trailing full stop, 10 is a short headline, 11 is 10 and 1 on one line. *)
(* 4 has just the impact that makes news material.                         *)
MCTexts == 0 .. 12
MCWords == (0 :> {} @@ 1 :> {"opens"} @@ 2 :> {"pressure"} @@ 3 :> {"layoffs"}
            @@ 4 :> {"pressure", "launch"} @@ 5 :> {"approval", "growth"}
            @@ 6 :> {"issues"} @@ 7 :> {"approval", "growth", "court"}
            @@ 8 :> {"layoffs", "approval", "growth"} @@ 9 :> {"layoffs"}
            @@ 10 :> {"probe"} @@ 11 :> {"probe", "opens"} @@ 12 :> {})
MCParts == [t \in MCTexts |-> CASE t = 8 -> <<3, 5>>
                                [] t = 9 -> <<3>>
                                [] t = 11 -> <<10, 1>>
                                [] OTHER -> <<t>>]
MCShort == {0, 10}

=============================================================================
