--------------------------- MODULE MCEstimateHCL ---------------------------
(* Terragrunt stacks with every pair of verdicts, an empty one, plain       *)
(* directories of every verdict and a path that does not exist.             *)
EXTENDS EstimateHCL

Dir(terragrunt, modules) == [exists |-> TRUE, terragrunt |-> terragrunt, modules |-> modules]

MCStacks ==
    {Dir(TRUE, <<v, w>>) : v, w \in Verdicts}
        \cup {Dir(FALSE, <<v>>) : v \in Verdicts}
        \cup {Dir(TRUE, <<>>), [Dir(FALSE, <<>>) EXCEPT !.exists = FALSE]}
=============================================================================
