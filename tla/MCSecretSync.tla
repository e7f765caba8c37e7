----------------------------- MODULE MCSecretSync ---------------------------
(***************************************************************************)
(* Instances of SecretSync for TLC.                                        *)
(***************************************************************************)
EXTENDS SecretSync

CONSTANTS vs, ws

SameLength == {<<1, 1>>, <<2, 2>>}
OtherLengths == {<<1, 1>>, <<2, 2, 2>>}

OnlyFirst == {<<"s1">>}
=============================================================================
