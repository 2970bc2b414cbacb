------------------------------ MODULE MCPhoneLink -------------------------------
(* The phone's link: the user, the network and the laptop together do up to       *)
(* Budget things, each at any moment.                                             *)
EXTENDS PhoneLink, TLC
=================================================================================
