------------------------------ MODULE MCTotpLogin ------------------------------
(* A small instance of TotpLogin for TLC. *)
EXTENDS TotpLogin, TLC

CONSTANTS s1, s2, w1, w2

\* Codes of neighbouring steps differ; three steps later a code comes back.  The
\* secrets' codes overlap, so a code of the old secret may fit the new one.
StepCode(secret, step) == IF secret = s1 THEN step % 3 ELSE (step + 1) % 3

FourCodes == 0..3

\* In the first step both fit s1, and only one of them fits s2.
TwoGuesses == {0, 1}

WorkerSymmetry == Permutations(Workers)
================================================================================
