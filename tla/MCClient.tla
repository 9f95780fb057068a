------------------------------ MODULE MCClient ------------------------------
(***************************************************************************)
(* KCEFClient with one popup, one page and two sizes of the window. Which  *)
(* browser is the first makes no difference.                               *)
(***************************************************************************)
EXTENDS Client, TLC

BrowserSymmetry == Permutations(Browsers)

=============================================================================
