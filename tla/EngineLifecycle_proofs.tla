----------------------- MODULE EngineLifecycle_proofs -----------------------
(* The engine is safe for any number of threads and sessions when the      *)
(* application asks for nothing after its last ENGINE_finish.              *)
EXTENDS EngineLifecycle, FiniteSetTheorems, TLAPS

Inside == {t \in Threads : InSession(t)}

-----------------------------------------------------------------------------
(* The inductive invariant                                                 *)

\* A pointer to a method is kept for its kind, and the tables of OpenSSL have
\* those of the engine.
KindsKept ==
  /\ \A k \in Kinds : static[k] # Null => static[k][2] = k
  /\ \A k \in Named : table[k] = static[k]
  /\ engine = "none" => 
       DSTU_error_init = 1 /\ live = {} /\ \A k \in Kinds : static[k] = Null

\* Only a bound engine has users.
Outside ==
  /\ engine # "bound" => \A t \in Threads : pc[t] = "out" /\ method[t] = Null
  /\ engine \in {"none", "refused"} => ~over

\* Bind has made the digest and the cipher, and no getter makes another one.
MadeOnce ==
  /\ engine = "bound" => \A k \in Named : static[k] # Null
  /\ engine \notin {"none", "refused"} =>
       \A a \in live : a[2] = "pmeth" \/ \E k \in Named : a = static[k]
  /\ \A t \in Threads : pc[t] = "making" => asked[t] = "pmeth"

\* What is there before the last reference is given back.
Held ==
  /\ engine = "bound" /\ ~over =>
       strings /\ DSTU_error_init = 0 /\ \A k \in Named : static[k] \in live
  /\ engine = "bound" /\ static["pmeth"] # Null => static["pmeth"] \in live

\* When it has been, nobody is inside, one thread at most calls the handler, and
\* what the handler frees is there until it does.
LastOne ==
  /\ over /\ engine = "bound" => ~configured /\ \A t \in Threads : ~InSession(t)
  /\ \A t \in Threads : pc[t] = "finishing" =>
       /\ over /\ \A k \in Named : static[k] \in live
       /\ \A u \in Threads : pc[u] = "finishing" => u = t
  /\ over => (\E t \in Threads : pc[t] = "finishing") \/ \A a \in live : a[2] = "pmeth"

IInv == TypeOK /\ KindsKept /\ Outside /\ MadeOnce /\ Held /\ LastOne /\ NoDangling

-----------------------------------------------------------------------------
(* The references                                                          *)

LEMMA InsideFinite == IsFiniteSet(Inside) /\ Cardinality(Inside) \in Nat
<1>1. Inside \in SUBSET Threads
  BY DEF Inside
<1> QED
  BY <1>1, LifecycleAssumption, FS_Subset, FS_CardinalityType

\* A thread that comes in is one more, one that leaves is one less, and the
\* last one leaves nobody.
LEMMA ComesIn ==
  ASSUME NEW t \in Threads, t \notin Inside, Inside' = Inside \cup {t}
  PROVE  Cardinality(Inside') = Cardinality(Inside) + 1
  BY InsideFinite, FS_AddElement

LEMMA GoesOut ==
  ASSUME NEW t \in Threads, t \in Inside, Inside' = Inside \ {t}
  PROVE  /\ Cardinality(Inside') = Cardinality(Inside) - 1
         /\ Cardinality(Inside) = 1 => Inside' = {}
<1>1. Cardinality(Inside \ {t}) = Cardinality(Inside) - 1 /\ IsFiniteSet(Inside \ {t})
  BY InsideFinite, FS_RemoveElement
<1>2. Cardinality(Inside) = 1 => Cardinality(Inside \ {t}) = 0
  BY <1>1
<1> QED
  BY <1>1, <1>2, FS_EmptySet

\* TypeOK, with the references counted by Inside.
Configuration == IF configured /\ engine = "bound" THEN 1 ELSE 0
Types ==
  /\ static \in [Kinds -> Pointer] /\ table \in [Named -> Pointer]
  /\ made \in Nat /\ live \in SUBSET Address
  /\ DSTU_error_init \in {0, 1} /\ strings \in BOOLEAN
  /\ engine \in {"none", "refused", "bound", "exiting", "destroyed"}
  /\ configured \in BOOLEAN /\ sessions \in 0 .. Sessions /\ over \in BOOLEAN
  /\ pc \in [Threads -> {"out", "in", "making", "finishing"}]
  /\ asked \in [Threads -> Kinds] /\ method \in [Threads -> Pointer]
  /\ fault \in BOOLEAN

LEMMA TypeOKIs == TypeOK <=> Types /\ funct_ref = Configuration + Cardinality(Inside)
  BY DEF TypeOK, Types, Configuration, Inside

Counted == funct_ref = Configuration + Cardinality(Inside)

\* What the steps of the proof use.
Inv == Types /\ Counted /\ KindsKept /\ Outside /\ MadeOnce /\ Held /\ LastOne /\ NoDangling

LEMMA InvIs == IInv <=> Inv
  BY TypeOKIs DEF IInv, Inv, Counted

-----------------------------------------------------------------------------
(* Every step keeps the invariant                                          *)

LEMMA InitInv == Init => Inv
<1> SUFFICES ASSUME Init PROVE Inv
  OBVIOUS
<1>1. Types
  <2>1. static \in [Kinds -> Pointer] /\ table \in [Named -> Pointer]
    BY DEF Init, Pointer
  <2>2. asked \in [Threads -> Kinds] /\ method \in [Threads -> Pointer]
    BY DEF Init, Pointer, Kinds
  <2>3. sessions \in 0 .. Sessions
    BY LifecycleAssumption DEF Init
  <2> QED
    BY <2>1, <2>2, <2>3 DEF Init, Types
<1>2. Counted
  <2>1. Inside = {}
    BY DEF Init, Inside, InSession
  <2> QED
    BY <2>1, FS_EmptySet DEF Init, Counted, Configuration
<1>3. KindsKept /\ Outside /\ MadeOnce
  BY DEF Init, KindsKept, Outside, MadeOnce, Kinds, Named
<1>4. Held /\ LastOne /\ NoDangling
  BY DEF Init, Held, LastOne, NoDangling
<1> QED
  BY <1>1, <1>2, <1>3, <1>4 DEF Inv

\* A step that changes neither pc nor the references keeps the count.
LEMMA CountKept ==
  ASSUME Counted, pc' = pc, funct_ref' = funct_ref,
         engine' = engine, configured' = configured
  PROVE  Counted'
<1>1. Inside' = Inside
  BY DEF Inside, InSession
<1> QED
  BY <1>1 DEF Counted, Configuration

LEMMA BindInv ==
  ASSUME Inv, Bind \/ BindFails
  PROVE  Inv'
<1>1. PICK ks \in {{}, {"md"}, Named} : Created(ks) /\ (Bind => ks = Named)
  <2>1. CASE Bind
    BY <2>1 DEF Bind
  <2>2. CASE BindFails /\ ~Bind
    BY <2>2 DEF BindFails
  <2> QED
    BY <2>1, <2>2
<1>2. /\ static' = [k \in Kinds |-> IF k \in ks THEN Fresh(k) ELSE static[k]]
      /\ live' = live \cup {Fresh(k) : k \in ks}
      /\ table' = [k \in Named |-> IF k \in ks THEN Fresh(k) ELSE table[k]]
      /\ made' = made + 2
  BY <1>1 DEF Created
<1>3. /\ ks \subseteq Kinds /\ ks \subseteq Named
      /\ \A k \in Kinds : Fresh(k) \in Address /\ Fresh(k)[2] = k /\ Fresh(k) # Null
  BY LifecycleAssumption DEF Inv, Types, Kinds, Named, Address, Fresh
<1>4. engine = "none" /\ engine' \in {"bound", "refused"}
      /\ UNCHANGED <<configured, sessions, over, pc, asked, method, fault>>
      /\ (engine' = "bound" => Bind)
  BY DEF Bind, BindFails
<1>5. Types'
  <2>1. static' \in [Kinds -> Pointer] /\ table' \in [Named -> Pointer]
    BY <1>2, <1>3 DEF Inv, Types, Pointer, Kinds, Named
  <2>2. live' \in SUBSET Address /\ made' \in Nat
    BY <1>2, <1>3 DEF Inv, Types
  <2>3. DSTU_error_init' \in {0, 1} /\ strings' \in BOOLEAN
    <3>1. CASE Bind
      BY <3>1 DEF Bind, ERR_load_DSTU_strings, Inv, Types
    <3>2. CASE BindFails
      BY <3>2 DEF BindFails, errs, Inv, Types
    <3> QED
      BY <3>1, <3>2
  <2> QED
    BY <1>4, <2>1, <2>2, <2>3 DEF Inv, Types
<1>6. Counted'
  <2>1. Inside' = Inside /\ Inside = {}
    BY <1>4 DEF Inside, InSession, Inv, Outside
  <2> QED
    BY <1>4, <2>1, FS_EmptySet DEF Bind, BindFails, Inv, Counted, Configuration
<1>7. KindsKept'
  BY <1>2, <1>3, <1>4 DEF Inv, KindsKept, Kinds, Named
<1>8. Outside'
  BY <1>4 DEF Inv, Outside
<1>9. MadeOnce'
  <2>1. CASE engine' = "bound"
    <3>1. ks = Named
      BY <1>1, <1>4, <2>1
    <3>2. live = {}
      BY <1>4 DEF Inv, KindsKept
    <3> QED
      BY <1>2, <1>3, <1>4, <2>1, <3>1, <3>2 DEF Inv, MadeOnce, Outside, Kinds, Named
  <2>2. CASE engine' = "refused"
    BY <1>4, <2>2 DEF Inv, MadeOnce
  <2> QED
    BY <1>4, <2>1, <2>2
<1>10. Held'
  <2>1. CASE engine' = "bound"
    <3>1. ks = Named /\ strings' /\ DSTU_error_init' = 0
      BY <1>1, <1>4, <2>1 DEF Bind, ERR_load_DSTU_strings, Inv, KindsKept
    <3> QED
      BY <1>2, <1>3, <1>4, <2>1, <3>1 DEF Inv, KindsKept, Held, Kinds, Named
  <2>2. CASE engine' = "refused"
    BY <2>2 DEF Held
  <2> QED
    BY <1>4, <2>1, <2>2
<1>11. LastOne' /\ NoDangling'
  BY <1>4 DEF Inv, LastOne, NoDangling, Outside
<1> QED
  BY <1>5, <1>6, <1>7, <1>8, <1>9, <1>10, <1>11 DEF Inv

LEMMA StartInv ==
  ASSUME Inv, ~Again, NEW t \in Threads, Start(t)
  PROVE  Inv'
<1>1. /\ engine = "bound" /\ ~over /\ sessions < Sessions
      /\ pc[t] = "out" /\ pc' = [pc EXCEPT ![t] = "in"]
      /\ funct_ref' = funct_ref + 1 /\ sessions' = sessions + 1
      /\ UNCHANGED <<statics, errs, engine, configured, over, asked, method, fault>>
  BY DEF Start, Active, Enters
<1>2. Types'
  BY <1>1, LifecycleAssumption DEF Inv, Types, statics, errs
<1>3. Counted'
  <2>1. t \notin Inside /\ Inside' = Inside \cup {t}
    BY <1>1 DEF Inside, InSession, Inv, Types
  <2>2. Cardinality(Inside') = Cardinality(Inside) + 1 /\ Cardinality(Inside) \in Nat
    BY <2>1, ComesIn, InsideFinite
  <2> QED
    BY <1>1, <2>2 DEF Inv, Counted, Configuration
<1>4. KindsKept' /\ Outside' /\ MadeOnce' /\ Held'
  BY <1>1 DEF Inv, Types, KindsKept, Outside, MadeOnce, Held, statics, errs
<1>5. LastOne' /\ NoDangling'
  BY <1>1 DEF Inv, Types, LastOne, NoDangling, statics
<1> QED
  BY <1>2, <1>3, <1>4, <1>5 DEF Inv

\* Getting a method that is there.
LEMMA GetInv ==
  ASSUME Inv, NEW t \in Threads, NEW k \in Kinds, static[k] # Null,
         engine = "bound", over \/ static[k] \in live,
         method' = [method EXCEPT ![t] = static[k]], asked' = [asked EXCEPT ![t] = k],
         UNCHANGED <<statics, errs, refs, pc, fault>>, pc[t] # "making"
  PROVE  Inv'
<1>1. Types'
  BY DEF Inv, Types, statics, errs, refs
<1>2. Counted'
  BY CountKept DEF Inv, refs
<1>3. KindsKept' /\ Outside' /\ MadeOnce' /\ Held'
  BY DEF Inv, Types, KindsKept, Outside, MadeOnce, Held, statics, errs, refs
<1>4. LastOne' /\ NoDangling'
  BY DEF Inv, Types, LastOne, InSession, NoDangling, statics, refs
<1> QED
  BY <1>1, <1>2, <1>3, <1>4 DEF Inv

LEMMA CachedInv ==
  ASSUME Inv, NEW t \in Threads, Cached(t)
  PROVE  Inv'
<1>1. PICK k \in Kinds : /\ static[k] # Null
                         /\ method' = [method EXCEPT ![t] = static[k]]
                         /\ asked' = [asked EXCEPT ![t] = k]
  BY DEF Cached
<1>2. /\ pc[t] = "in" /\ UNCHANGED <<statics, errs, refs, pc, fault>>
  BY DEF Cached
<1>3. engine = "bound" /\ ~over
  BY <1>2 DEF Inv, Outside, LastOne, InSession, Types
<1>4. static[k] \in live
  BY <1>1, <1>3 DEF Inv, Held, Kinds, Named
<1> QED
  BY <1>1, <1>2, <1>3, <1>4, GetInv

LEMMA ByNameInv ==
  ASSUME Inv, ~Again, NEW t \in Threads, ByName(t)
  PROVE  Inv'
<1>1. PICK k \in Named : /\ table[k] # Null
                         /\ method' = [method EXCEPT ![t] = table[k]]
                         /\ asked' = [asked EXCEPT ![t] = k]
  BY DEF ByName
<1>2. /\ pc[t] \in {"in", "out"} /\ UNCHANGED <<statics, errs, refs, pc, fault>>
      /\ engine = "bound" /\ ~over
  BY DEF ByName, Active
<1>3. k \in Kinds /\ static[k] = table[k] /\ static[k] \in live
  BY <1>2 DEF Inv, KindsKept, Held, Kinds, Named
<1> QED
  BY <1>1, <1>2, <1>3, GetInv

LEMMA MissingInv ==
  ASSUME Inv, NEW t \in Threads, Missing(t)
  PROVE  Inv'
<1>1. PICK k \in Kinds : static[k] = Null /\ asked' = [asked EXCEPT ![t] = k]
  BY DEF Missing
<1>2. /\ pc[t] = "in" /\ pc' = [pc EXCEPT ![t] = "making"]
      /\ UNCHANGED <<statics, errs, refs, method, fault>>
  BY DEF Missing, Enters
<1>3. engine = "bound" /\ k = "pmeth"
  BY <1>1, <1>2 DEF Inv, Outside, MadeOnce, Kinds, Named
<1>4. Types'
  BY <1>1, <1>2 DEF Inv, Types, statics, errs, refs
<1>5. Counted'
  <2>1. Inside' = Inside
    BY <1>2 DEF Inside, InSession, Inv, Types
  <2> QED
    BY <1>2, <2>1 DEF Inv, Counted, Configuration, refs
<1>6. KindsKept' /\ Outside' /\ MadeOnce' /\ Held'
  BY <1>1, <1>2, <1>3 DEF Inv, Types, KindsKept, Outside, MadeOnce, Held, statics, errs, refs
<1>7. LastOne' /\ NoDangling'
  BY <1>2 DEF Inv, Types, LastOne, InSession, NoDangling, statics, refs
<1> QED
  BY <1>4, <1>5, <1>6, <1>7 DEF Inv

\* Two threads may make the method of one kind; only one can be found then, and
\* both stay.
LEMMA MakeInv ==
  ASSUME Inv, NEW t \in Threads, Make(t)
  PROVE  Inv'
<1>1. /\ pc[t] = "making" /\ pc' = [pc EXCEPT ![t] = "in"]
      /\ static' = [static EXCEPT ![asked[t]] = New(asked[t])]
      /\ live' = live \cup {New(asked[t])}
      /\ method' = [method EXCEPT ![t] = New(asked[t])]
      /\ made' = made + 1
      /\ UNCHANGED <<table, errs, refs, asked, fault>>
  BY DEF Make, Enters
<1>2. engine = "bound" /\ asked[t] = "pmeth"
  BY <1>1 DEF Inv, Outside, MadeOnce
<1>3. New("pmeth") \in Address /\ New("pmeth")[2] = "pmeth" /\ New("pmeth") # Null
  BY LifecycleAssumption DEF Inv, Types, New, Address, Kinds
<1>4. Types'
  <2>1. static' \in [Kinds -> Pointer] /\ method' \in [Threads -> Pointer]
    BY <1>1, <1>2, <1>3 DEF Inv, Types, Pointer
  <2>2. live' \in SUBSET Address /\ made' \in Nat
    BY <1>1, <1>2, <1>3 DEF Inv, Types
  <2>3. pc' \in [Threads -> {"out", "in", "making", "finishing"}]
    BY <1>1 DEF Inv, Types
  <2> QED
    BY <1>1, <2>1, <2>2, <2>3 DEF Inv, Types, errs, refs
<1>5. Counted'
  <2>1. Inside' = Inside
    BY <1>1 DEF Inside, InSession, Inv, Types
  <2> QED
    BY <1>1, <2>1 DEF Inv, Counted, Configuration, refs
<1>6. KindsKept' /\ Outside'
  BY <1>1, <1>2, <1>3 DEF Inv, Types, KindsKept, Outside, errs, refs, Kinds, Named
<1>7. MadeOnce' /\ Held'
  BY <1>1, <1>2, <1>3 DEF Inv, Types, MadeOnce, Held, errs, refs, Kinds, Named
<1>8. LastOne' /\ NoDangling'
  BY <1>1, <1>2, <1>3 DEF Inv, Types, LastOne, InSession, NoDangling, refs, Kinds, Named
<1> QED
  BY <1>4, <1>5, <1>6, <1>7, <1>8 DEF Inv

LEMMA UseInv ==
  ASSUME Inv, ~Again, NEW t \in Threads, Use(t)
  PROVE  Inv'
<1>1. /\ ~over /\ method[t] # Null /\ fault' = (method[t] \notin live)
      /\ UNCHANGED <<statics, errs, refs, pc, asked, method>>
  BY DEF Use, Active
<1>2. ~fault /\ ~fault'
  BY <1>1 DEF Inv, NoDangling
<1>3. Types'
  BY <1>1, <1>2 DEF Inv, Types, statics, errs, refs
<1>4. Counted'
  BY <1>1, CountKept DEF Inv, refs
<1>5. KindsKept' /\ Outside' /\ MadeOnce' /\ Held'
  BY <1>1 DEF Inv, KindsKept, Outside, MadeOnce, Held, statics, errs, refs
<1>6. LastOne' /\ NoDangling'
  BY <1>1, <1>2 DEF Inv, LastOne, InSession, NoDangling, statics, refs
<1> QED
  BY <1>3, <1>4, <1>5, <1>6 DEF Inv

\* The last one out is alone, and calls the handler.
LEMMA ReleaseInv ==
  ASSUME Inv, NEW t \in Threads, Release(t)
  PROVE  Inv'
<1> DEFINE next == IF funct_ref = 1 THEN "finishing" ELSE "out"
<1>1. /\ pc[t] = "in" /\ pc' = [pc EXCEPT ![t] = next]
      /\ funct_ref' = funct_ref - 1 /\ over' = (over \/ funct_ref = 1)
      /\ method' = [method EXCEPT ![t] = Null]
      /\ UNCHANGED <<statics, errs, engine, configured, sessions, asked, fault>>
  BY DEF Release, Enters
<1>2. engine = "bound" /\ ~over /\ t \in Inside
  BY <1>1 DEF Inv, Outside, LastOne, Inside, InSession
<1>3. over' = (funct_ref = 1) /\ next \in {"finishing", "out"}
  BY <1>1, <1>2 DEF Inv, Types
<1>4. /\ Inside' = Inside \ {t}
      /\ Cardinality(Inside') = Cardinality(Inside) - 1
      /\ Cardinality(Inside) = 1 => Inside' = {}
  <2>1. Inside' = Inside \ {t}
    BY <1>1, <1>3 DEF Inside, InSession, Inv, Types
  <2> QED
    BY <1>2, <2>1, GoesOut
<1>5. Cardinality(Inside) \in Nat /\ Cardinality(Inside) # 0
  BY <1>2, InsideFinite, FS_EmptySet
<1>6. funct_ref = 1 => ~configured /\ Inside' = {}
  BY <1>2, <1>4, <1>5 DEF Inv, Counted, Configuration
<1>7. Types'
  <2>1. over' \in BOOLEAN
    BY <1>3
  <2>2. pc' \in [Threads -> {"out", "in", "making", "finishing"}]
    BY <1>1, <1>3 DEF Inv, Types
  <2>3. method' \in [Threads -> Pointer]
    BY <1>1 DEF Inv, Types, Pointer
  <2> QED
    BY <1>1, <2>1, <2>2, <2>3 DEF Inv, Types, statics, errs
<1>8. Counted'
  BY <1>1, <1>4, <1>5 DEF Inv, Counted, Configuration
<1>9. KindsKept' /\ Outside' /\ MadeOnce' /\ Held'
  BY <1>1, <1>2, <1>3 DEF Inv, Types, KindsKept, Outside, MadeOnce, Held, statics, errs
<1>10. LastOne'
  <2>1. \A u \in Threads : pc[u] # "finishing"
    BY <1>2 DEF Inv, LastOne
  <2>2. CASE funct_ref = 1
    <3>1. \A u \in Threads : ~InSession(u)'
      BY <1>6, <2>2 DEF Inside
    <3>2. \A u \in Threads : pc'[u] = "finishing" <=> u = t
      BY <1>1, <2>1, <2>2 DEF Inv, Types
    <3>3. over' /\ ~configured' /\ \A k \in Named : static'[k] \in live'
      BY <1>1, <1>2, <1>3, <1>6, <2>2 DEF Inv, Held, statics
    <3> QED
      BY <3>1, <3>2, <3>3 DEF LastOne
  <2>3. CASE funct_ref # 1
    BY <1>1, <1>3, <2>1, <2>3 DEF Inv, Types, LastOne
  <2> QED
    BY <2>2, <2>3
<1>11. NoDangling'
  BY <1>1, <1>2 DEF Inv, Types, NoDangling, statics
<1> QED
  BY <1>7, <1>8, <1>9, <1>10, <1>11 DEF Inv

\* The handler finds both methods, and leaves public key methods only.
LEMMA FinishedTypes ==
  ASSUME Inv, Finished, \A k \in Named : static[k] \in live
  PROVE  /\ live' \in SUBSET Address /\ fault' = fault
         /\ DSTU_error_init' \in {0, 1} /\ strings' \in BOOLEAN
         /\ UNCHANGED <<static, made, table>>
         /\ live' = live \ {static[k] : k \in Named}
         /\ engine \notin {"none", "refused"} => \A a \in live' : a[2] = "pmeth"
<1>1. fault' = fault
  BY DEF Finished, Inv, Types
<1>2. DSTU_error_init' \in {0, 1} /\ strings' \in BOOLEAN
  BY DEF Finished, ERR_unload_DSTU_strings, Inv, Types
<1> QED
  BY <1>1, <1>2 DEF Finished, Inv, Types, MadeOnce

LEMMA FinishInv ==
  ASSUME Inv, NEW t \in Threads, Finish(t)
  PROVE  Inv'
<1>1. /\ pc[t] = "finishing" /\ pc' = [pc EXCEPT ![t] = "out"]
      /\ Finished /\ UNCHANGED <<refs, asked, method>>
  BY DEF Finish, Enters
<1>2. /\ engine = "bound" /\ over /\ \A k \in Named : static[k] \in live
      /\ \A u \in Threads : pc[u] = "finishing" => u = t
  BY <1>1 DEF Inv, Outside, LastOne
<1>3. /\ live' \in SUBSET Address /\ fault' = fault
      /\ DSTU_error_init' \in {0, 1} /\ strings' \in BOOLEAN
      /\ UNCHANGED <<static, made, table>>
      /\ live' = live \ {static[k] : k \in Named}
      /\ \A a \in live' : a[2] = "pmeth"
  BY <1>1, <1>2, FinishedTypes
<1>4. Types'
  BY <1>1, <1>3 DEF Inv, Types, refs
<1>5. Counted'
  <2>1. Inside' = Inside
    BY <1>1 DEF Inside, InSession, Inv, Types
  <2> QED
    BY <1>1, <2>1 DEF Inv, Counted, Configuration, refs
<1>6. KindsKept' /\ Outside' /\ MadeOnce'
  BY <1>1, <1>2, <1>3 DEF Inv, Types, KindsKept, Outside, MadeOnce, refs
<1>7. Held'
  BY <1>1, <1>2, <1>3 DEF Inv, Held, KindsKept, refs, Kinds, Named
<1>8. LastOne'
  BY <1>1, <1>2, <1>3 DEF Inv, Types, LastOne, InSession, refs
<1>9. NoDangling'
  BY <1>1, <1>2, <1>3 DEF Inv, NoDangling, refs
<1> QED
  BY <1>4, <1>5, <1>6, <1>7, <1>8, <1>9 DEF Inv

LEMMA UnloadInv ==
  ASSUME Inv, Unload
  PROVE  Inv'
<1>1. /\ engine = "bound" /\ \A t \in Threads : pc[t] = "out"
      /\ engine' = "exiting" /\ funct_ref' = 0 /\ over' = (over \/ configured)
      /\ method' = [t \in Threads |-> Null]
      /\ UNCHANGED <<configured, sessions, pc, asked>>
  BY DEF Unload, Quiet
<1>2. /\ live' \in SUBSET Address /\ fault' = fault /\ live' \subseteq live
      /\ DSTU_error_init' \in {0, 1} /\ strings' \in BOOLEAN
      /\ UNCHANGED <<static, made, table>>
      /\ over' => \A a \in live' : a[2] = "pmeth"
  <2>1. CASE configured
    <3>1. Finished /\ \A k \in Named : static[k] \in live
      BY <1>1, <2>1 DEF Unload, Inv, LastOne, Held
    <3> QED
      BY <1>1, <3>1, FinishedTypes
  <2>2. CASE ~configured
    <3>1. UNCHANGED <<statics, errs, fault>> /\ over' = over
      BY <1>1, <2>2 DEF Unload, Inv, Types
    <3> QED
      BY <1>1, <3>1 DEF Inv, Types, LastOne, statics, errs
  <2> QED
    BY <2>1, <2>2
<1>3. Types'
  <2>1. method' \in [Threads -> Pointer] /\ over' \in BOOLEAN
    BY <1>1 DEF Pointer
  <2> QED
    BY <1>1, <1>2, <2>1 DEF Inv, Types
<1>4. Counted'
  <2>1. Inside' = {}
    BY <1>1 DEF Inside, InSession
  <2> QED
    BY <1>1, <2>1, FS_EmptySet DEF Counted, Configuration
<1>5. KindsKept' /\ Outside' /\ MadeOnce' /\ Held'
  BY <1>1, <1>2 DEF Inv, KindsKept, Outside, MadeOnce, Held
<1>6. LastOne' /\ NoDangling'
  BY <1>1, <1>2 DEF Inv, LastOne, NoDangling
<1> QED
  BY <1>3, <1>4, <1>5, <1>6 DEF Inv

LEMMA DestroyInv ==
  ASSUME Inv, Destroy
  PROVE  Inv'
<1>1. /\ engine = "exiting" /\ engine' = "destroyed" /\ live' = live \ {static["pmeth"]}
      /\ UNCHANGED <<static, made, table, errs, configured, funct_ref, sessions, over,
                     pc, asked, method, fault>>
  BY DEF Destroy
<1>2. Types'
  BY <1>1 DEF Inv, Types, errs
<1>3. Counted'
  <2>1. Inside' = Inside
    BY <1>1 DEF Inside, InSession
  <2> QED
    BY <1>1, <2>1 DEF Inv, Counted, Configuration
<1>4. KindsKept' /\ Outside' /\ MadeOnce' /\ Held'
  BY <1>1 DEF Inv, KindsKept, Outside, MadeOnce, Held
<1>5. LastOne' /\ NoDangling'
  BY <1>1 DEF Inv, Outside, LastOne, NoDangling
<1> QED
  BY <1>2, <1>3, <1>4, <1>5 DEF Inv

LEMMA StutterInv ==
  ASSUME Inv, UNCHANGED vars
  PROVE  Inv'
<1>1. UNCHANGED <<static, made, live, table, DSTU_error_init, strings, engine, configured,
                  funct_ref, sessions, over, pc, asked, method, fault>>
  BY DEF vars, statics, errs, refs
<1>2. Types' /\ Counted'
  BY <1>1, CountKept DEF Inv, Types
<1>3. KindsKept' /\ Outside' /\ MadeOnce' /\ Held'
  BY <1>1 DEF Inv, KindsKept, Outside, MadeOnce, Held
<1>4. LastOne' /\ NoDangling'
  BY <1>1 DEF Inv, LastOne, InSession, NoDangling
<1> QED
  BY <1>2, <1>3, <1>4 DEF Inv

LEMMA NextInv ==
  ASSUME Inv, ~Again, [Next]_vars
  PROVE  Inv'
<1>1. CASE Bind \/ BindFails
  BY <1>1, BindInv
<1>2. ASSUME NEW t \in Threads,
             Start(t) \/ Cached(t) \/ Missing(t) \/ Make(t) \/ ByName(t) \/ Use(t)
               \/ Release(t) \/ Finish(t)
      PROVE  Inv'
  BY <1>2, StartInv, CachedInv, MissingInv, MakeInv, ByNameInv, UseInv, ReleaseInv, FinishInv
<1>3. CASE Unload \/ Destroy
  BY <1>3, UnloadInv, DestroyInv
<1>4. CASE UNCHANGED vars
  BY <1>4, StutterInv
<1> QED
  BY <1>1, <1>2, <1>3, <1>4 DEF Next

-----------------------------------------------------------------------------
(* Theorems                                                                *)

LEMMA Always == ASSUME ~Again PROVE Spec => []Inv
<1>1. Init => Inv
  BY InitInv
<1>2. Inv /\ [Next]_vars => Inv'
  BY NextInv
<1> QED
  BY <1>1, <1>2, PTL DEF Spec

\* The references that OpenSSL counts are those of the sessions and of the
\* configuration, however the threads interleave (dstu_engine_init and
\* dstu_engine_finish, engine/dstu.c).
THEOREM TypeCorrect == ASSUME ~Again PROVE Spec => []TypeOK
<1>1. Inv => TypeOK
  BY TypeOKIs DEF Inv, Counted
<1> QED
  BY <1>1, Always, PTL

\* No thread uses a method that is freed, and none is freed twice, though the
\* callbacks of engine/dstu.c look for methods and make them without a lock and
\* though the handler runs without OpenSSL's.
THEOREM NothingDangles == ASSUME ~Again PROVE Spec => []NoDangling
<1>1. Inv => NoDangling
  BY DEF Inv
<1> QED
  BY <1>1, Always, PTL

\* dstu_engine_finish frees every digest and every cipher that was made.
THEOREM AllFreed == ASSUME ~Again PROVE Spec => []MethodsFreed
<1>1. Inv => MethodsFreed
  BY DEF Inv, LastOne, Outside, MethodsFreed
<1> QED
  BY <1>1, Always, PTL

\* A thread that holds a functional reference has the digest, the cipher and
\* the error strings.
THEOREM AlwaysUsable == ASSUME ~Again PROVE Spec => []UsableWhenHeld
<1>1. Inv => UsableWhenHeld
  BY DEF Inv, Outside, LastOne, Held, InSession, UsableWhenHeld
<1> QED
  BY <1>1, Always, PTL
=============================================================================
