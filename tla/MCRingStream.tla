---------------------------- MODULE MCRingStream ----------------------------
(* The ring buffer stream on two CPUs. *)
EXTENDS RingStream

\* One path shorter than the field, one that does not fit.
MCNames == {<<"a">>, <<"b", "c", "d">>}
=============================================================================
