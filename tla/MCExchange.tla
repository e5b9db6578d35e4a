----------------------------- MODULE MCExchange -----------------------------
(* Instances of Exchange for TLC: values for its constants.                *)
EXTENDS Exchange

CONSTANTS p1, p2

TwoProcesses == {p1, p2}

(***************************************************************************)
(* Hosts are below "d", which is itself below nothing.                     *)
(***************************************************************************)
Free == [Default.policy EXCEPT !.allowedDomains = {}, !.allowedPorts = {}]
Closed == [allowedDomains |-> {Below(<<"d">>), Exactly(<<"e">>)},
           deniedDomains |-> {Below(<<"b", "d">>)},
           allowedPorts |-> {80, 443}, deniedPorts |-> {443}]
NoHost == [Free EXCEPT !.deniedDomains = {AnyHost}]

Base == [Default EXCEPT !.mode = "prod", !.listen = "a1", !.policy = Free,
         !.maxHeaderBytes = 1, !.maxBodyBytes = 2,
         !.caching = TRUE, !.ttl = 3, !.maxObject = 1, !.requireLength = FALSE]

(* The first process has what the requests meet, the second one what it    *)
(* can do to the first.  The default lifetime is cut to what I64Max leaves.*)
ServedConfigs ==
  {Base,
   [Base EXCEPT !.policy = Closed, !.requireLength = TRUE, !.maxObject = 0],
   [Base EXCEPT !.listen = "a2", !.ttl = I64Max, !.capacity = 0],
   [Base EXCEPT !.caching = FALSE, !.policy = NoHost]}
OtherConfigs ==
  {[Base EXCEPT !.mode = "dev", !.ttl = 0],
   [Base EXCEPT !.mode = "dev", !.perIpRps = 0],
   [Default EXCEPT !.ttl = I64Max]}
TheConfigs == [p \in TwoProcesses |-> IF p = p1 THEN ServedConfigs ELSE OtherConfigs]

(***************************************************************************)
(* Requests and responses.                                                 *)
(***************************************************************************)
Get == [method |-> "GET", scheme |-> "http", host |-> <<"a", "d">>, port |-> None,
        range |-> FALSE, headerBytes |-> 1, names |-> {},
        connection |-> <<>>, declared |-> None, body |-> 0]
Post == [Get EXCEPT !.method = "POST", !.host = <<"c", "b", "d">>, !.port = 80]

TheRequests ==
  {Get,
   [Get EXCEPT !.method = "HEAD", !.host = <<"e">>],
   [Get EXCEPT !.range = TRUE, !.port = 443],
   [Get EXCEPT !.scheme = None],
   [Get EXCEPT !.host = <<"d">>, !.headerBytes = 2],
   [Get EXCEPT !.method = "CONNECT", !.scheme = None, !.port = 80],
   [Get EXCEPT !.method = "CONNECT", !.scheme = None],
   [Post EXCEPT !.body = 3],
   [Post EXCEPT !.names = {"content-length"},
                !.host = <<"b", "d">>, !.declared = 2, !.body = 2],
   [Post EXCEPT !.names = {"content-length"}, !.declared = 3, !.body = 3],
   [Post EXCEPT !.names = {"connection", "content-length"},
                !.connection = <<{"close", "content-length"}>>, !.declared = 3, !.body = 3]}

Field(name, age) == [name |-> name, age |-> age]
Ok == [status |-> 200,
       cacheControl |-> <<>>, expires |-> None, length |-> 1, size |-> 1]

TheResponses ==
  {Ok,
   [Ok EXCEPT !.length = None, !.size = 2],
   [Ok EXCEPT !.status = 206],
   [Ok EXCEPT !.status = 404, !.length = 0, !.size = 0],
   [Ok EXCEPT !.cacheControl = <<<<Field("max-age", 1)>>>>],
   [Ok EXCEPT !.cacheControl = <<<<Field("max-age", 0), Field("max-age", I64Max)>>>>],
   [Ok EXCEPT !.cacheControl = <<<<Field("max-age", I64Max + 1)>>>>],
   [Ok EXCEPT !.cacheControl = <<<<Field("no-store", None)>>>>, !.length = 2, !.size = 2],
   [Ok EXCEPT !.expires = 2, !.length = 2, !.size = 2]}

(* The row's own file, a shorter one and a longer one.                     *)
TheCopies ==
  {[length |-> 1, size |-> 1], [length |-> 2, size |-> 1], [length |-> 1, size |-> 2]}
=============================================================================
