----------------------------- MODULE MCControl ------------------------------
(***************************************************************************)
(* Two daemons that come up and go down at the same address in any order,  *)
(* the doctor, whose calls have a deadline, and one other client, which    *)
(* asks for a change and waits, or opens a connection and stays silent.    *)
(***************************************************************************)
EXTENDS Control

MCAsked == {<<"change", FALSE>>, <<"silent", FALSE>>}
=============================================================================
