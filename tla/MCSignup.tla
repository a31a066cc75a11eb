------------------------------ MODULE MCSignup ------------------------------
(* Small instances of Signup: one address, one roll number, one browser.             *)
EXTENDS Signup

CONSTANTS e1, p1, b1, n1, n2
=============================================================================
