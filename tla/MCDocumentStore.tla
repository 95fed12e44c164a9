-------------------------- MODULE MCDocumentStore --------------------------
(* An instance of DocumentStore for TLC. Clients and ids are               *)
(* interchangeable.                                                        *)
EXTENDS DocumentStore, TLC

CONSTANTS a, b, d1, d2

TwoClients == {a, b}
TwoIds == {d1, d2}
Interchangeable == Permutations(TwoClients) \cup Permutations(TwoIds)
============================================================================
