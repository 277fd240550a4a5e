--------------------------- MODULE MCTweakAgreement ---------------------------
(* Agreement on the values that must match, for TLC: two devices.            *)
EXTENDS TweakAgreement

CONSTANTS d1, d2
Devices == {d1, d2}
Automatics == {d1}
Chunks == {0, 60}

\* The two chunk values are interchangeable, and so are the two encryptions of a remote that is
\* not provisioned: the remote starts with the first of each.
Zero == {[encrypt |-> FALSE, chunk |-> 0, tweakModified |-> 0]}
=============================================================================
