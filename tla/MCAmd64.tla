------------------------------ MODULE MCAmd64 -------------------------------
(***************************************************************************)
(* Machines for Amd64: memory ends nowhere, inside a page, at the edge of  *)
(* a directory, above the LAPIC and beyond the last directory; and one of  *)
(* every kind that kernel_main_amd64 turns away.                           *)
(***************************************************************************)
EXTENDS Amd64

Good == [magic |-> TRUE, walk |-> TRUE, frames |-> TRUE, end |-> 8]

Found == { [Good EXCEPT !.end = e] : e \in {0, 1, 8, 9, 13} }
         \cup { [Good EXCEPT !.magic = FALSE], [Good EXCEPT !.walk = FALSE],
                [Good EXCEPT !.frames = FALSE] }
=============================================================================
