---------------------------- MODULE MCBufferPool ----------------------------
(* Instances of BufferPool for TLC.  Block contents are interchangeable.    *)
EXTENDS BufferPool, TLC

ContentSymmetry == Permutations(Content)
=============================================================================
