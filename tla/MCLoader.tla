------------------------------ MODULE MCLoader ------------------------------
(***************************************************************************)
(* A small instance of Loader: any two of three command lines on one       *)
(* interface.                                                              *)
(***************************************************************************)
EXTENDS Loader

Line(hook, action, attach) == [hook |-> hook, action |-> action, tc_attach |-> attach]

\* The two directions, rivals for XDP, and a rival for the TC attach point of
\* the first, which it chooses in another way.
Lines ==
  [p \in Procs |-> CASE p = "out" -> Line("both", "encrypt", "auto")
                     [] p = "in" -> Line("both", "decrypt", "auto")
                     [] p = "rival" -> Line("tc", "decrypt", "egress")]
=============================================================================
