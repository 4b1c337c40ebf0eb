------------------------------ MODULE MCPublish ------------------------------
(* Model-checking instance of Publish. *)
EXTENDS Publish

\* Once each publish has been mixed up with another one the properties say nothing of them.
SomeOwn == Own # {}
=============================================================================
