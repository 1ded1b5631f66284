------------------------------ MODULE MCStrings ------------------------------
(* Strings with texts of up to four characters and words of up to three.     *)
EXTENDS Strings
==============================================================================
