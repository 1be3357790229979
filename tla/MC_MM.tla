------------------------------- MODULE MC_MM -------------------------------
(***************************************************************************)
(* The allocator under a client that also passes calloc a count whose      *)
(* product with the size wraps at 16 bits, for the C contract of realloc   *)
(* and calloc (MM!ReallocCallocContract).                                   *)
(***************************************************************************)
EXTENDS MM

\* malloc and realloc sizes: 0 (NULL), 8 (a 32-byte block) and 40 (a
\* 48-byte block).
MMSizes == {0, 8, 40}

\* calloc(2, 8), a 16-byte request, and calloc(4097, 16), whose product
\* 65552 wraps to 16 in a 16-bit size_t.
MMCallocArgs == {<<2, 8>>, <<4097, 16>>}
=============================================================================
