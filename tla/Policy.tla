------------------------------- MODULE Policy -------------------------------
(***************************************************************************)
(* PolicyEngine of src/src/policy.rs.  A host name is the sequence of its  *)
(* labels; names and patterns are in lower case here, where the code       *)
(* lowers both before it compares them.                                    *)
(***************************************************************************)
EXTENDS Integers, Sequences

(* Patterns: "*", "*.<labels>" and "<labels>".                             *)
AnyHost == [kind |-> "any", labels |-> <<>>]
Below(labels) == [kind |-> "below", labels |-> labels]
Exactly(labels) == [kind |-> "exact", labels |-> labels]

Ends(host, labels) ==
  /\ Len(host) > Len(labels)
  /\ \A i \in 1..Len(labels) : host[Len(host) - Len(labels) + i] = labels[i]

DomainMatches(pattern, host) ==
  \/ pattern.kind = "any"
  \/ pattern.kind = "below" /\ Ends(host, pattern.labels)
  \/ pattern.kind = "exact" /\ pattern.labels = host

(* Whether a pattern of a list matches.                                    *)
Listed(patterns, host) == \E p \in patterns : DomainMatches(p, host)

(* Mutant of Check: what is allowed by name is not looked up among what is *)
(* denied.                                                                 *)
CheckAllowedFirst(policy, host, port) ==
  \/ Listed(policy.allowedDomains, host) /\ port \in policy.allowedPorts
  \/ /\ ~Listed(policy.deniedDomains, host)
     /\ policy.allowedDomains = {}
     /\ port \notin policy.deniedPorts
     /\ policy.allowedPorts = {} \/ port \in policy.allowedPorts

(* An empty list of what is allowed allows everything.                     *)
Check(policy, host, port) ==
  /\ ~Listed(policy.deniedDomains, host)
  /\ policy.allowedDomains # {} => Listed(policy.allowedDomains, host)
  /\ port \notin policy.deniedPorts
  /\ policy.allowedPorts # {} => port \in policy.allowedPorts
=============================================================================
