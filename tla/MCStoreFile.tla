----------------------------- MODULE MCStoreFile ------------------------------
(* Two store objects of one handler, or one: the registry's file.            *)
EXTENDS StoreFile, TLC

ObjectSymmetry == Permutations(Object)
=============================================================================
