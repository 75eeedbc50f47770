------------------------------ MODULE MCFraming -----------------------------
(***************************************************************************)
(* Bodies of up to four bytes: with a NUL, a newline and a byte that looks *)
(* like a line's, some longer than one read can return.                    *)
(***************************************************************************)
EXTENDS Framing

MCBodies == {<<NUL>>, <<NL, 65>>, <<65, NUL, 69>>, <<69, 68, NL, 65>>}
=============================================================================
