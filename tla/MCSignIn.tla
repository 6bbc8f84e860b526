------------------------------ MODULE MCSignIn ------------------------------
(***************************************************************************)
(* SignIn for TLC.                                                         *)
(***************************************************************************)
EXTENDS SignIn

CONSTANTS za, au, t1, t2, n1, n2, c1

TwoRegions == {za, au}

TwoTokens == {t1, t2}

TwoForms == {n1, n2}

OneChange == {c1}
=============================================================================
