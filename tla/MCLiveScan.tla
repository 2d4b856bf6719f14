----------------------------- MODULE MCLiveScan ------------------------------
(* Instances of LiveScan: the bounds are given by the configurations.        *)
EXTENDS LiveScan

\* The options as toggled break the first version of the sources, and the YAML
\* of the second.
mcBroken == {<<0, 1>>}
mcUnconvertible == {<<1, 1>>}
=============================================================================
