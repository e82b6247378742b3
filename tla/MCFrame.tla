------------------------------ MODULE MCFrame -------------------------------
(* An instance of Frame for TLC: one-bit bytes. *)
EXTENDS Frame

\* Lengths that need the first and the last byte of the header; the third
\* payload would read as a frame of its own if the stream were shifted.
SmallPayloads == {<<>>, <<1>>, <<0, 0, 0, 1, 1>>, <<1, 0, 0, 0, 1, 1, 0, 0, 1>>}
=============================================================================
