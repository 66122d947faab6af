---------------------------- MODULE MCAndroidBridge ----------------------------
(* Instances of AndroidBridge for TLC: a small lab.                        *)
EXTENDS AndroidBridge

CONSTANTS c1, c2, h1, h2

OneCamera == {c1}
TwoCameras == {c1, c2}

OneHost == {h1}
TwoHosts == {h1, h2}

=============================================================================
