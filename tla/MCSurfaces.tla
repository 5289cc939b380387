----------------------------- MODULE MCSurfaces -----------------------------
(* The surfaces application on every host, with few surfaces and inputs.    *)
EXTENDS Surfaces

AllHosts == Platforms
TwoSizes == {1, 2}
=============================================================================
