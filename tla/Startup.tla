------------------------------- MODULE Startup -------------------------------
(***************************************************************************)
(* The start of a proxy process: main, Config::load and validate, run,     *)
(* prepare_runtime_dirs, serve and build_cache.  The processes of one      *)
(* working directory share its .cache, and an address has one listener.    *)
(* A process that has exited is not started again: another one is.         *)
(***************************************************************************)
EXTENDS Integers, Policy

CONSTANTS
  Processes,  \* the processes that are started
  Configs     \* what the file each of them reads may say

VARIABLES
  phase,   \* where each process is
  config,  \* what its file says
  dir,     \* what .cache is: absent, there without a table, or complete
  wiped    \* history: whether another process has removed it since a start

startupVars == <<phase, config, dir, wiped>>

StartupInit ==
  /\ phase = [p \in Processes |-> "down"]
  /\ config \in [Processes -> UNION {Configs[p] : p \in Processes}]
  /\ \A p \in Processes : config[p] \in Configs[p]
  /\ dir \in {"absent", "table"}
  /\ wiped = [p \in Processes |-> FALSE]

Reach(p, s) == phase' = [phase EXCEPT ![p] = s]

(* What a file that says nothing comes to.                                 *)
Default ==
  [mode |-> "dev", listen |-> "0.0.0.0:3128", emptyRedaction |-> FALSE,
   maxHeaderBytes |-> 32768, maxBodyBytes |-> 10485760, maxConnections |-> 1024,
   perIpRps |-> 50, connectTimeout |-> 5000, idleTimeout |-> 60000,
   policy |-> [allowedDomains |-> {AnyHost}, deniedDomains |-> {},
               allowedPorts |-> {80, 443}, deniedPorts |-> {}],
   caching |-> FALSE, ttl |-> 300, capacity |-> 64, maxObject |-> 1073741824,
   requireLength |-> TRUE]

(* Config::validate.                                                       *)
Valid(c) ==
  /\ ~c.emptyRedaction
  /\ 0 \notin {c.maxHeaderBytes, c.maxConnections, c.maxBodyBytes,
               c.connectTimeout, c.idleTimeout}
  /\ c.caching => c.ttl # 0

Load(p) ==
  /\ phase[p] = "down"
  /\ Valid(config[p])
  /\ Reach(p, "loaded")
  /\ UNCHANGED <<config, dir, wiped>>

(* The processes that count on what is in .cache.                          *)
Users == {p \in Processes : phase[p] \in {"building", "serving"}}

(* In dev mode .cache is removed: all of it, or what could be removed.     *)
PrepareRuntimeDirs(p) ==
  /\ phase[p] = "loaded"
  /\ Reach(p, "prepared")
  /\ \/ dir' = dir /\ wiped' = wiped
     \/ /\ config[p].mode = "dev"
        /\ dir # "absent"
        /\ dir' \in {"absent", "untabled"}
        /\ wiped' = [q \in Processes |-> wiped[q] \/ q \in Users]
  /\ UNCHANGED config

Listening(p) == phase[p] \in {"bound", "building", "serving"}

Bind(p) ==
  /\ phase[p] = "prepared"
  /\ \A q \in Processes : Listening(q) => config[q].listen # config[p].listen
  /\ Reach(p, "bound")
  /\ UNCHANGED <<config, dir, wiped>>

(* build_cache without caching: NoopCache needs nothing.                   *)
ServeUncached(p) ==
  /\ phase[p] = "bound" /\ ~config[p].caching
  /\ Reach(p, "serving")
  /\ UNCHANGED <<config, dir, wiped>>

(* Mutant of CreateDirs: a directory that is there is taken as it is.      *)
CreateDirsOnce(p) ==
  /\ phase[p] = "bound" /\ config[p].caching
  /\ dir' = IF dir = "absent" THEN "untabled" ELSE dir
  /\ Reach(p, IF dir = "absent" THEN "building" ELSE "serving")
  /\ UNCHANGED <<config, wiped>>

(* SqliteCache::new: the directories, then the table, if they are missing. *)
CreateDirs(p) ==
  /\ phase[p] = "bound" /\ config[p].caching
  /\ dir' = IF dir = "absent" THEN "untabled" ELSE dir
  /\ Reach(p, "building")
  /\ UNCHANGED <<config, wiped>>

InitDb(p) ==
  /\ phase[p] = "building"
  /\ dir # "absent"
  /\ dir' = "table"
  /\ wiped' = [wiped EXCEPT ![p] = FALSE]
  /\ Reach(p, "serving")
  /\ UNCHANGED config

(* A process ends: the file is missing, no TOML or not valid, the address  *)
(* is taken, the cache cannot be built, accept fails, or it is stopped.    *)
Exit(p) ==
  /\ phase[p] # "exited"
  /\ Reach(p, "exited")
  /\ wiped' = [wiped EXCEPT ![p] = FALSE]
  /\ UNCHANGED <<config, dir>>

Starting(p) ==
  \/ Load(p) \/ PrepareRuntimeDirs(p) \/ Bind(p)
  \/ ServeUncached(p) \/ CreateDirs(p) \/ InitDb(p)

StartupTypeOK ==
  /\ phase \in [Processes -> {"down", "loaded", "prepared", "bound", "building",
                             "serving", "exited"}]
  /\ \A p \in Processes : config[p] \in Configs[p]
  /\ dir \in {"absent", "untabled", "table"}
  /\ wiped \in [Processes -> BOOLEAN]

(* A process that serves with a cache finds its table, unless another one  *)
(* has been started in dev mode since: run prepares the directory before   *)
(* it binds, so even a start that then finds the address taken wipes the   *)
(* cache of the process that has it (server.rs:56-60, cache.rs:88-102).    *)
TableWhileServing ==
  \A p \in Processes :
    phase[p] = "serving" /\ config[p].caching /\ ~wiped[p] => dir = "table"
=============================================================================
