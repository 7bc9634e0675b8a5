---------------------------- MODULE MCStxSigner ----------------------------
(* Small instances of the staking signer.                                  *)
EXTENDS StxSigner, TLC
CONSTANTS s1, s2, adm, heir
\* Nothing names a staker: they are interchangeable.
Interchangeable == Permutations(Stakers)
=============================================================================
