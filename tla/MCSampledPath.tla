--------------------------- MODULE MCSampledPath ---------------------------
EXTENDS SampledPath

\* A law with a zero, and one that is short of one by what rounding stands for.
MCStationary == 0 :> 4 @@ 1 :> 2
MCTransition == 0 :> (0 :> 0 @@ 1 :> 6) @@ 1 :> (0 :> 3 @@ 1 :> 2)

\* A daily path with a gap, cut short in both segments; a whole one; a monthly one.
MCGeometries ==
    {[months |-> <<2, 1>>, days |-> <<3, 1>>, sessions |-> 2],
     [months |-> <<2>>, days |-> <<4>>, sessions |-> 2],
     [months |-> <<3, 1>>, days |-> <<3, 1>>, sessions |-> 1]}
=============================================================================
