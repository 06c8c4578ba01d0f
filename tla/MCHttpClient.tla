---------------------------- MODULE MCHttpClient ----------------------------
(* Instances of HttpClient for TLC: what each configuration shares.         *)
EXTENDS HttpClient

\* All keys name one host: what one request leaves behind is met by the others.
OneHost == [k \in Keys |-> CHOOSE h \in Hosts : TRUE]
=============================================================================
