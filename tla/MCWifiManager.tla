---------------------------- MODULE MCWifiManager -----------------------------
EXTENDS WifiManager

CONSTANTS n1, n2, p1, p2

Pair1 == <<n1, p1>>
Pair2 == <<n2, p2>>
BothPairs == {Pair1, Pair2}
OnlyPair1 == {Pair1}
===============================================================================
