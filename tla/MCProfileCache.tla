---------------------------- MODULE MCProfileCache ----------------------------
(* ProfileCache over two namespaces, a reader and two writers, one of them     *)
(* this process's own.                                                        *)
EXTENDS ProfileCache

CONSTANTS a, b, r1, w1, w2
=============================================================================
