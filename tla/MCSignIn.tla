------------------------------ MODULE MCSignIn ------------------------------
EXTENDS SignIn

CONSTANTS t1, t2, a1
=============================================================================
