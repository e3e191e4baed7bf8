-------------------------- MODULE EngineLifecycle ---------------------------
(***************************************************************************)
(* engine/dstu.c and the error strings of engine/err.c: what the engine    *)
(* creates when it is bound or first asked, what it hands out and what it  *)
(* frees when the last functional reference goes.                          *)
(*                                                                         *)
(* OpenSSL's side is external.  A functional reference is counted under a  *)
(* lock, but the lock is dropped for the handlers of the engine.  The      *)
(* finish handler is called when the last one goes, init for the first     *)
(* one.  Loading the engine from a configuration file takes a functional   *)
(* reference that is kept until the process ends.  When an engine is       *)
(* destroyed OpenSSL asks it for its public key methods and frees them.    *)
(***************************************************************************)
EXTENDS Naturals, FiniteSets

CONSTANTS
  Threads,     (* threads of the application                               *)
  Again,       (* the application goes on after its last ENGINE_finish     *)
  Sessions,    (* bound: how often ENGINE_init is called                   *)
  Null

\* The digest, the cipher, and the public key method of one key type; that of
\* the other type and the ASN.1 methods go the same way.
Kinds    == {"md", "cipher", "pmeth"}
Named    == {"md", "cipher"}
Address  == Nat \X Kinds
Pointer  == Address \cup {Null}

ASSUME LifecycleAssumption ==
  IsFiniteSet(Threads) /\ Again \in BOOLEAN /\ Sessions \in Nat /\ Null \notin Address

VARIABLES
  static,      (* dstu_md, dstu_cipher, dstu_pkey_methods                  *)
  made,        (* allocations so far                                       *)
  live,        (* methods that have not been freed                         *)
  table,       (* what EVP_add_digest and EVP_add_cipher were given        *)
  DSTU_error_init,
  strings,     (* the error strings are loaded                             *)
  engine,      (* "none", "refused", "bound", "exiting", "destroyed"       *)
  configured,  (* the configuration holds a reference, as in the tests     *)
  funct_ref,
  sessions,
  over,        (* the last reference has been given back                   *)
  pc, asked, method,
  fault        (* a freed method has been used or freed again              *)

statics == <<static, made, live, table>>
errs    == <<DSTU_error_init, strings>>
refs    == <<engine, configured, funct_ref, sessions, over>>
vars    == <<statics, errs, refs, pc, asked, method, fault>>

Init ==
  /\ static = [k \in Kinds |-> Null] /\ made = 0 /\ live = {}
  /\ table = [k \in Named |-> Null]
  /\ DSTU_error_init = 1 /\ strings = FALSE
  /\ engine = "none" /\ configured \in BOOLEAN
  /\ funct_ref = 0 /\ sessions = 0 /\ over = FALSE
  /\ pc = [t \in Threads |-> "out"] /\ asked = [t \in Threads |-> "md"]
  /\ method = [t \in Threads |-> Null] /\ fault = FALSE

-----------------------------------------------------------------------------
(* dstu_bind                                                               *)

\* The address of the next allocation.
New(k) == <<made + 1, k>>

Fresh(k) == <<IF k = "md" THEN made + 1 ELSE made + 2, k>>

\* dstu_md_get and dstu_cipher_get for the kinds ks, which are NULL before.
Created(ks) ==
  /\ static' = [k \in Kinds |-> IF k \in ks THEN Fresh(k) ELSE static[k]]
  /\ live'   = live \cup {Fresh(k) : k \in ks}
  /\ table'  = [k \in Named |-> IF k \in ks THEN Fresh(k) ELSE table[k]]
  /\ made'   = made + 2

\* Mutant: the flag is read the wrong way round.
ERR_load_inverted ==
  /\ strings' = (strings \/ DSTU_error_init = 0)
  /\ DSTU_error_init' = 0

ERR_load_DSTU_strings ==
  /\ strings' = (strings \/ DSTU_error_init = 1)
  /\ DSTU_error_init' = 0

ERR_unload_DSTU_strings ==
  /\ strings' = (strings /\ DSTU_error_init = 1)
  /\ DSTU_error_init' = 1

Bind ==
  /\ engine = "none" /\ engine' = "bound"
  /\ Created(Named)
  /\ ERR_load_DSTU_strings
  /\ funct_ref' = IF configured THEN 1 ELSE 0
  /\ UNCHANGED <<configured, sessions, over, pc, asked, method, fault>>

\* A call fails: before the tables have anything, or after the digest, or
\* after both.  Nothing is taken back.  OpenSSL unloads the library, so that what
\* is left in its tables must not be used.
BindFails ==
  /\ engine = "none" /\ engine' = "refused"
  /\ \E ks \in {{}, {"md"}, Named} : Created(ks)
  /\ UNCHANGED <<errs, configured, funct_ref, sessions, over, pc, asked, method, fault>>

-----------------------------------------------------------------------------
(* A session: ENGINE_init, asking for methods, using them, ENGINE_finish   *)

Enters(t, from, to) == pc[t] = from /\ pc' = [pc EXCEPT ![t] = to]

Active == engine = "bound" /\ (over => Again)

\* dstu_engine_init changes nothing.
Start(t) ==
  /\ Active /\ sessions < Sessions
  /\ Enters(t, "out", "in")
  /\ funct_ref' = funct_ref + 1 /\ sessions' = sessions + 1
  /\ UNCHANGED <<statics, errs, engine, configured, over, asked, method, fault>>

\* The callbacks dstu_digests, dstu_ciphers and dstu_pkey_meths look for a
\* method that is there ...
Cached(t) ==
  /\ pc[t] = "in" /\ UNCHANGED pc
  /\ \E k \in Kinds : /\ static[k] # Null
                      /\ method' = [method EXCEPT ![t] = static[k]]
                      /\ asked'  = [asked EXCEPT ![t] = k]
  /\ UNCHANGED <<statics, errs, refs, fault>>

\* ... and make it if there is none, with no lock in between.
Missing(t) ==
  /\ Enters(t, "in", "making")
  /\ \E k \in Kinds : /\ static[k] = Null
                      /\ asked' = [asked EXCEPT ![t] = k]
  /\ UNCHANGED <<statics, errs, refs, method, fault>>

\* Mutant: the loser of the race is freed by the one that finds it.
MakeReplacing(t) ==
  /\ Enters(t, "making", "in")
  /\ LET k == asked[t] IN
       /\ static' = [static EXCEPT ![k] = New(k)]
       /\ live'   = (live \ {static[k]}) \cup {New(k)}
       /\ method' = [method EXCEPT ![t] = New(k)]
  /\ made' = made + 1
  /\ UNCHANGED <<table, errs, refs, asked, fault>>

Make(t) ==
  /\ Enters(t, "making", "in")
  /\ LET k == asked[t] IN
       /\ static' = [static EXCEPT ![k] = New(k)]
       /\ live'   = live \cup {New(k)}
       /\ method' = [method EXCEPT ![t] = New(k)]
  /\ made' = made + 1
  /\ UNCHANGED <<table, errs, refs, asked, fault>>

\* EVP_get_digestbyname and EVP_get_cipherbyname need no engine.
ByName(t) ==
  /\ Active /\ pc[t] \in {"in", "out"} /\ UNCHANGED pc
  /\ \E k \in Named : /\ table[k] # Null
                      /\ method' = [method EXCEPT ![t] = table[k]]
                      /\ asked'  = [asked EXCEPT ![t] = k]
  /\ UNCHANGED <<statics, errs, refs, fault>>

Use(t) ==
  /\ Active /\ pc[t] \in {"in", "out"} /\ method[t] # Null /\ ~fault
  /\ fault' = (method[t] \notin live)
  /\ UNCHANGED <<statics, errs, refs, pc, asked, method>>

\* ENGINE_finish: the reference is given back, and then, if it was the last
\* one, the handler is called without the lock.
Release(t) ==
  /\ Enters(t, "in", IF funct_ref = 1 THEN "finishing" ELSE "out")
  /\ funct_ref' = funct_ref - 1 /\ over' = (over \/ funct_ref = 1)
  /\ method' = [method EXCEPT ![t] = Null]
  /\ UNCHANGED <<statics, errs, engine, configured, sessions, asked, fault>>

\* Mutant: the cipher is forgotten.
FinishedDigestOnly ==
  /\ live' = live \ {static["md"]}
  /\ fault' = (fault \/ static["md"] \notin live)
  /\ ERR_unload_DSTU_strings
  /\ UNCHANGED <<static, made, table>>

\* dstu_engine_finish; the pointers stay as they are.
Finished ==
  /\ live'  = live \ {static[k] : k \in Named}
  /\ fault' = (fault \/ \E k \in Named : static[k] \notin live)
  /\ ERR_unload_DSTU_strings
  /\ UNCHANGED <<static, made, table>>

Finish(t) ==
  /\ Enters(t, "finishing", "out")
  /\ Finished
  /\ UNCHANGED <<refs, asked, method>>

-----------------------------------------------------------------------------
(* The end of the process: all threads are outside.  The configuration     *)
(* gives its reference back, and the engine is destroyed.                  *)

Quiet == \A t \in Threads : pc[t] = "out"

Unload ==
  /\ engine = "bound" /\ Quiet
  /\ engine' = "exiting" /\ funct_ref' = 0 /\ over' = (over \/ configured)
  /\ method' = [t \in Threads |-> Null]
  /\ IF configured THEN Finished ELSE UNCHANGED <<statics, errs, fault>>
  /\ UNCHANGED <<configured, sessions, pc, asked>>

\* OpenSSL asks for each public key method once more and frees it.  One that
\* nobody has asked for before is made for that, and gone.
Destroy ==
  /\ engine = "exiting" /\ engine' = "destroyed"
  /\ live' = live \ {static["pmeth"]}
  /\ UNCHANGED <<static, made, table, errs, configured, funct_ref, sessions, over,
                 pc, asked, method, fault>>

Next ==
  \/ Bind \/ BindFails
  \/ \E t \in Threads : \/ Start(t) \/ Cached(t) \/ Missing(t) \/ Make(t)
                        \/ ByName(t) \/ Use(t) \/ Release(t) \/ Finish(t)
  \/ Unload \/ Destroy

Spec == Init /\ [][Next]_vars

-----------------------------------------------------------------------------
(* Properties                                                              *)

InSession(t) == pc[t] \in {"in", "making"}

\* The references are those of the sessions and of the configuration.
TypeOK ==
  /\ static \in [Kinds -> Pointer] /\ table \in [Named -> Pointer]
  /\ made \in Nat /\ live \in SUBSET Address
  /\ DSTU_error_init \in {0, 1} /\ strings \in BOOLEAN
  /\ engine \in {"none", "refused", "bound", "exiting", "destroyed"}
  /\ configured \in BOOLEAN /\ sessions \in 0 .. Sessions /\ over \in BOOLEAN
  /\ funct_ref = (IF configured /\ engine = "bound" THEN 1 ELSE 0)
                 + Cardinality({t \in Threads : InSession(t)})
  /\ pc \in [Threads -> {"out", "in", "making", "finishing"}]
  /\ asked \in [Threads -> Kinds] /\ method \in [Threads -> Pointer]
  /\ fault \in BOOLEAN

\* Whoever has got a method from the engine or from OpenSSL's tables can use it
\* until the last reference is given back, whatever other threads ask for, and
\* nothing is freed twice.
NoDangling ==
  /\ ~fault
  /\ ~over => \A t \in Threads : method[t] # Null => method[t] \in live

\* The digest and the cipher are created once, before a thread can ask for
\* them, and freed when the last reference goes: there is nothing that a getter
\* without a lock could leak.
MethodsFreed ==
  engine = "destroyed" /\ over => \A a \in live : a[2] = "pmeth"

\* An engine that somebody has initialised has its methods and its error
\* strings.
UsableWhenHeld ==
  \A t \in Threads : InSession(t) =>
    strings /\ \A k \in Named : static[k] \in live
=============================================================================
