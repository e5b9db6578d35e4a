------------------------------- MODULE Headers -------------------------------
(***************************************************************************)
(* What the proxy reads and changes in the headers of a message:           *)
(* src/src/headers.rs, src/src/http_proxy/headers.rs and                   *)
(* parse_cache_control of src/src/cache.rs.                                *)
(*                                                                         *)
(* A header may have several lines.  Of a request's head there are the set *)
(* of its header names and the tokens of each Connection line, of a        *)
(* response's the directives of each Cache-Control line; lines that are    *)
(* not text are ignored by the code and are left out.  A response's other  *)
(* headers are relayed as they are and stripped when they are stored; no   *)
(* property is about them.  Seconds are signed, max-age is unsigned 64-bit *)
(* in the code; here I64Max is the largest signed one.                     *)
(***************************************************************************)
EXTENDS Integers, Sequences

CONSTANTS
  I64Max,  \* i64::MAX
  None     \* no value

ASSUME WidthAssumption == I64Max \in Nat
ASSUME NoTimeAssumption == None \notin Int

U64Max == 2 * I64Max + 1
AsI64(n) == IF n <= I64Max THEN n ELSE n - (U64Max + 1)

SaturatingAdd(a, b) ==
  IF a + b > I64Max THEN I64Max
  ELSE IF a + b < -I64Max - 1 THEN -I64Max - 1 ELSE a + b

(***************************************************************************)
(* Hop-by-hop headers.                                                     *)
(***************************************************************************)
HopByHop == {"connection", "proxy-connection", "keep-alive", "te", "trailer",
             "transfer-encoding", "upgrade"}

FirstLine(lines, default) == IF lines = <<>> THEN default ELSE Head(lines)

(* The names that are left.  Only the first Connection line is read.       *)
StripHopByHop(names, connection) ==
  names \ (FirstLine(connection, {}) \cup HopByHop \cup {"proxy-authorization"})

(***************************************************************************)
(* Freshness.                                                              *)
(***************************************************************************)
Says(line, name) == \E i \in DOMAIN line : line[i].name = name

(* parse_cache_control: the last max-age that fits a u64.                  *)
MaxAge(line) ==
  LET ages == {i \in DOMAIN line : line[i].name = "max-age" /\ line[i].age <= U64Max}
  IN  IF ages = {} THEN None
      ELSE line[CHOOSE i \in ages : \A j \in ages : j <= i].age

CacheControl(head) == FirstLine(head.cacheControl, <<>>)
Forbidden(head) ==
  Says(CacheControl(head), "no-store") \/ Says(CacheControl(head), "no-cache")

(* Mutant of Deadlines: a max-age replaces the configured lifetime.        *)
DeadlinesByHeaderOnly(head, ttl, now) ==
  LET age == MaxAge(CacheControl(head)) IN
  {SaturatingAdd(now, AsI64(IF age = None THEN ttl ELSE age))}
  \cup ({head.expires} \ {None})

(* The times after which a response must not be used.                      *)
Deadlines(head, ttl, now) ==
  {SaturatingAdd(now, AsI64(ttl))}
  \cup {SaturatingAdd(now, AsI64(a)) : a \in {MaxAge(CacheControl(head))} \ {None}}
  \cup ({head.expires} \ {None})

(* compute_expiry: Only the first Cache-Control line is read.              *)
ComputeExpiry(head, ttl, now) ==
  IF Forbidden(head) THEN None
  ELSE LET times == Deadlines(head, ttl, now)
       IN  CHOOSE t \in times : \A u \in times : t <= u
=============================================================================
