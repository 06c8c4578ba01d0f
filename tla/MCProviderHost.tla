--------------------------- MODULE MCProviderHost ---------------------------
(* Instances of ProviderHost for TLC: what each configuration shares.       *)
EXTENDS ProviderHost

\* Every object is registered under one id: a second object is a definition reloaded.
OneSource == [o \in Objects |-> CHOOSE s \in Sources : TRUE]
=============================================================================
