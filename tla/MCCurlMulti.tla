---------------------------- MODULE MCCurlMulti ----------------------------
EXTENDS CurlMulti
CONSTANTS hA, hB
OneHost == [x \in Easy |-> hA]
TwoHosts == [x \in Easy |-> IF x \in {1, 2} THEN hA ELSE hB]
ThreeToOne == [x \in Easy |-> IF x \in {1, 2, 3} THEN hA ELSE hB]
=============================================================================
