--------------------------- MODULE MCRateLimiter ---------------------------
(* Instances of RateLimiter for TLC: values for its constants.             *)
EXTENDS RateLimiter, TLC

CONSTANTS t1, t2, t3, ip1, ip2

ThreeTasks == {t1, t2, t3}
OneIp == {ip1}
TwoIps == {ip1, ip2}
Symmetry == Permutations(Tasks) \cup Permutations(Ips)
=============================================================================
