------------------------------- MODULE MCHttp -------------------------------
(* One stream that is granted credit and cancelled, and a call that is not *)
(* about it.                                                               *)
EXTENDS Http
CONSTANTS s1
Steered == {<<"credit", s1>>, <<"cancel", s1>>, <<"call", NoId>>}
=============================================================================
