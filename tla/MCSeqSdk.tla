-------------------------------- MODULE MCSeqSdk --------------------------------
(* A small instance of SeqSdk.                                             *)
EXTENDS SeqSdk, TLC

CONSTANTS h1, h2

MCUrls == {<<h1, h2>>, <<h1, Bad>>}

=============================================================================
