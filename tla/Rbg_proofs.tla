----------------------------- MODULE Rbg_proofs -----------------------------
(* Proofs about Rbg, for any number of threads and calls of any length.    *)
EXTENDS Rbg, TLAPS

(***************************************************************************)
(* Control: where threads are, and what that says of the lock.             *)
(***************************************************************************)

\* The lock is created before it is used, and freed after its last use.
LockLife ==
  \A t \in Threads :
    /\ pc[t] \notin {"idle", "once"} => lock \in {"live", "null"}
    /\ pc[t] = "free" => lock = "live" /\ holder = NoThread

\* The cleanup runs alone.
Cleaner ==
  \A t \in Threads :
    /\ pc[t] # "idle" /\ op[t] = "cleanup" =>
         stopping /\ \A u \in Threads : u # t => pc[u] = "idle"
    /\ pc[t] # "idle" /\ op[t] # "cleanup" => ~stopping
    /\ pc[t] \in {"wipe", "free"} => op[t] = "cleanup"
    /\ pc[t] \in {"check", "seed", "install"} => op[t] # "cleanup"
    /\ pc[t] \in {"read", "write"} => op[t] = "bytes"
    /\ pc[t] \in {"unlock", "free"} /\ op[t] = "cleanup" => gen = ZeroState /\ initialized = 0

Freed ==
  lock = "freed" => /\ stopping /\ holder = NoThread /\ \A t \in Threads : pc[t] = "idle"
                    /\ gen = ZeroState /\ initialized = 0

Owner == lock # "null" => \A t \in Threads : pc[t] \in Critical => holder = t

\* A bit is being drawn only while bits are missing.
Wanted == \A t \in Threads : pc[t] = "write" => left[t] > 0

Control    == Wanted /\ LockLife /\ Cleaner /\ Freed /\ Owner
ControlInv == TypeOK /\ Control

(***************************************************************************)
(* Data: what the states of the generator and the histories have in        *)
(* common, unless the lock could not be allocated.                         *)
(***************************************************************************)

\* The only seed is installed, or about to be, or the cleanup has begun.
Seeding ==
  /\ seeds <= 1 /\ gen.seed <= seeds
  /\ initialized = 1 => gen.seed = 1
  /\ initialized = 0 => gen.seed = 0
  /\ seeds = 1 => initialized = 1 \/ stopping \/ \E t \in Threads : pc[t] = "install"
  /\ \A t \in Threads :
       /\ pc[t] = "seed" => initialized = 0
       /\ pc[t] = "install" => initialized = 0 /\ seed[t] = 1 /\ seeds = 1
       /\ pc[t] \in {"read", "write"} /\ rv[t] = 1 => initialized = 1

Below(g, h) == g.seed < h.seed \/ (g.seed = h.seed /\ g.pos < h.pos)

\* Every state a bit came from is behind the generator, until it is wiped.
IssuedBehind ==
  \/ stopping /\ gen = ZeroState
  \/ \A n \in 1 .. Len(issued) : Below(issued[n], gen)

\* A thread inside dstu_rbg_get_bit has the current state in hand, and one
\* that has drawn bits is at the state after its last one.
Drawing ==
  \A t \in Threads :
    /\ pc[t] = "write" => x[t] = gen
    /\ pc[t] \in {"once", "lock", "check", "seed", "install"} /\ op[t] = "bytes" => drew[t] = <<>>
    /\ pc[t] \in {"read", "write"} /\ Len(drew[t]) > 0 => gen = Succ(drew[t][Len(drew[t])])

Data    == Seeding /\ IssuedBehind /\ Drawing /\ SuccessIsSeeded /\ NoStateReused /\ CallsAreAtomic
DataInv == lock # "null" => Data

RbgInv == ControlInv /\ DataInv

-----------------------------------------------------------------------------
LEMMA InitControl == Init => ControlInv
<1> SUFFICES ASSUME Init PROVE ControlInv
  OBVIOUS
<1>1. TypeOK
  <2>1. ZeroState \in State /\ <<>> \in Seq(State)
    BY DEF State, ZeroState
  <2>2. drew \in [Threads -> Seq(State)] /\ issued \in Seq(State) /\ x \in [Threads -> State]
    BY <2>1 DEF Init
  <2>3. /\ pc \in [Threads -> Locations] /\ op \in [Threads -> {"bytes", "status", "cleanup"}]
        /\ left \in [Threads -> Nat] /\ rv \in [Threads -> {0, 1}] /\ seed \in [Threads -> Nat]
    BY DEF Init, Locations
  <2> QED
    BY <2>1, <2>2, <2>3 DEF Init, TypeOK
<1>2. Wanted /\ LockLife /\ Cleaner /\ Freed /\ Owner
  BY DEF Init, Wanted, LockLife, Cleaner, Freed, Owner, Critical
<1> QED
  BY <1>1, <1>2 DEF ControlInv, Control

(* Every step is one of these: a call is made, or a thread goes on.          *)
LEMMA NextCases ==
  ASSUME Next
  PROVE  \E t \in Threads :
           \/ \E o \in {"bytes", "status"}, n \in Nat : Call(t, o, n)
           \/ CallCleanup(t)
           \/ Step(t)
<1> PICK t \in Threads : CallBytes(t) \/ CallStatus(t) \/ CallCleanup(t) \/ Step(t)
  BY DEF Next
<1>1. CASE CallBytes(t)
  <2>1. PICK n \in 0 .. MaxBits : Call(t, "bytes", n)
    BY <1>1 DEF CallBytes
  <2>2. n \in Nat
    BY BoundAssumption
  <2> QED
    BY <2>1, <2>2
<1>2. CASE CallStatus(t)
  BY <1>2 DEF CallStatus
<1> QED
  BY <1>1, <1>2

LEMMA NextType == TypeOK /\ Wanted /\ [Next]_vars => TypeOK'
<1> SUFFICES ASSUME TypeOK, Wanted, [Next]_vars PROVE TypeOK'
  OBVIOUS
<1> USE DEF TypeOK, Goto, Locations, State, ZeroState, local, history
<1>1. ASSUME NEW t \in Threads, NEW o \in {"bytes", "status"}, NEW n \in Nat, Call(t, o, n)
      PROVE  TypeOK'
  BY <1>1, SMTT(30) DEF Call
<1>2. ASSUME NEW t \in Threads, CallCleanup(t) PROVE TypeOK'
  BY <1>2 DEF CallCleanup
<1>3. ASSUME NEW t \in Threads, RunOnce(t) PROVE TypeOK'
  BY <1>3, LockAssumption DEF RunOnce
<1>4. ASSUME NEW t \in Threads, Lock(t) PROVE TypeOK'
  BY <1>4 DEF Lock, Enter
<1>5. ASSUME NEW t \in Threads, NoLock(t) PROVE TypeOK'
  BY <1>5 DEF NoLock, Enter
<1>6. ASSUME NEW t \in Threads, Unlock(t) PROVE TypeOK'
  BY <1>6 DEF Unlock
<1>7. ASSUME NEW t \in Threads, UnlockNull(t) PROVE TypeOK'
  BY <1>7 DEF UnlockNull
<1>8. ASSUME NEW t \in Threads, Ready(t) PROVE TypeOK'
  BY <1>8 DEF Ready
<1>9. ASSUME NEW t \in Threads, StatusBad(t) PROVE TypeOK'
  BY <1>9 DEF StatusBad, Proceed
<1>10. ASSUME NEW t \in Threads, StatusGood(t) PROVE TypeOK'
  BY <1>10 DEF StatusGood, Proceed
<1>11. ASSUME NEW t \in Threads, SeedFails(t) PROVE TypeOK'
  BY <1>11 DEF SeedFails, Proceed
<1>12. ASSUME NEW t \in Threads, SeedGot(t) PROVE TypeOK'
  BY <1>12, SMTT(30) DEF SeedGot
<1>13. ASSUME NEW t \in Threads, Install(t) PROVE TypeOK'
  BY <1>13 DEF Install, Proceed
<1>14. ASSUME NEW t \in Threads, ReadState(t) PROVE TypeOK'
  BY <1>14 DEF ReadState
<1>15. ASSUME NEW t \in Threads, WriteState(t) PROVE TypeOK'
  <2>1. x[t] \in State /\ Succ(x[t]) \in State /\ left[t] \in Nat /\ left[t] > 0
    BY <1>15, SMTT(30) DEF WriteState, Succ, Wanted
  <2>2. left[t] - 1 \in Nat
    BY <2>1
  <2>3. gen' \in State /\ issued' \in Seq(State) /\ left' \in [Threads -> Nat]
    BY <1>15, <2>1, <2>2 DEF WriteState
  <2>4. drew' \in [Threads -> Seq(State)]
    BY <1>15, <2>1 DEF WriteState
  <2> QED
    BY <1>15, <2>3, <2>4 DEF WriteState
<1>16. ASSUME NEW t \in Threads, Filled(t) PROVE TypeOK'
  BY <1>16 DEF Filled
<1>17. ASSUME NEW t \in Threads, Wipe(t) PROVE TypeOK'
  BY <1>17 DEF Wipe
<1>18. ASSUME NEW t \in Threads, Free(t) PROVE TypeOK'
  BY <1>18 DEF Free
<1>19. CASE UNCHANGED vars
  BY <1>19 DEF vars
<1>20. CASE Next
  <2>0. PICK t \in Threads : \/ \E o \in {"bytes", "status"}, n \in Nat : Call(t, o, n)
                             \/ CallCleanup(t)
                             \/ Step(t)
    BY <1>20, NextCases
  <2>1. CASE Step(t)
    BY ONLY <2>1, <1>3, <1>4, <1>5, <1>6, <1>7, <1>8, <1>9, <1>10, <1>11, <1>12, <1>13,
            <1>14, <1>15, <1>16, <1>17, <1>18, t \in Threads DEF Step
  <2> QED
    BY ONLY <2>0, <2>1, <1>1, <1>2, t \in Threads
<1> QED
  BY <1>19, <1>20

LEMMA NextControl == ControlInv /\ [Next]_vars => ControlInv'
<1> SUFFICES ASSUME ControlInv, [Next]_vars PROVE Control'
  BY NextType DEF ControlInv, Control
<1> USE ThreadAssumption
    DEF ControlInv, Control, TypeOK, Wanted, LockLife, Cleaner, Freed, Owner, Critical,
        Goto, Locations, local, history
<1>1. ASSUME NEW t \in Threads, NEW o \in {"bytes", "status"}, NEW n \in Nat, Call(t, o, n)
      PROVE  Control'
  BY <1>1 DEF Call
<1>2. ASSUME NEW t \in Threads, CallCleanup(t) PROVE Control'
  BY <1>2 DEF CallCleanup
<1>3. ASSUME NEW t \in Threads, RunOnce(t) PROVE Control'
  BY <1>3, LockAssumption DEF RunOnce
<1>4. ASSUME NEW t \in Threads, Lock(t) PROVE Control'
  BY <1>4 DEF Lock, Enter
<1>5. ASSUME NEW t \in Threads, NoLock(t) PROVE Control'
  BY <1>5 DEF NoLock, Enter
<1>6. ASSUME NEW t \in Threads, Unlock(t) PROVE Control'
  BY <1>6 DEF Unlock
<1>7. ASSUME NEW t \in Threads, UnlockNull(t) PROVE Control'
  BY <1>7 DEF UnlockNull
<1>8. ASSUME NEW t \in Threads, Ready(t) PROVE Control'
  BY <1>8 DEF Ready
<1>9. ASSUME NEW t \in Threads, StatusBad(t) PROVE Control'
  BY <1>9 DEF StatusBad, Proceed
<1>10. ASSUME NEW t \in Threads, StatusGood(t) PROVE Control'
  BY <1>10 DEF StatusGood, Proceed
<1>11. ASSUME NEW t \in Threads, SeedFails(t) PROVE Control'
  BY <1>11 DEF SeedFails, Proceed
<1>12. ASSUME NEW t \in Threads, SeedGot(t) PROVE Control'
  BY <1>12 DEF SeedGot
<1>13. ASSUME NEW t \in Threads, Install(t) PROVE Control'
  BY <1>13 DEF Install, Proceed
<1>14. ASSUME NEW t \in Threads, ReadState(t) PROVE Control'
  BY <1>14 DEF ReadState
<1>15. ASSUME NEW t \in Threads, WriteState(t) PROVE Control'
  BY <1>15 DEF WriteState, Succ
<1>16. ASSUME NEW t \in Threads, Filled(t) PROVE Control'
  BY <1>16 DEF Filled
<1>17. ASSUME NEW t \in Threads, Wipe(t) PROVE Control'
  BY <1>17 DEF Wipe
<1>18. ASSUME NEW t \in Threads, Free(t) PROVE Control'
  BY <1>18 DEF Free
<1>19. CASE UNCHANGED vars
  BY <1>19 DEF vars
<1>20. CASE Next
  <2>0. PICK t \in Threads : \/ \E o \in {"bytes", "status"}, n \in Nat : Call(t, o, n)
                             \/ CallCleanup(t)
                             \/ Step(t)
    BY <1>20, NextCases
  <2>1. CASE Step(t)
    BY ONLY <2>1, <1>3, <1>4, <1>5, <1>6, <1>7, <1>8, <1>9, <1>10, <1>11, <1>12, <1>13,
            <1>14, <1>15, <1>16, <1>17, <1>18, t \in Threads DEF Step
  <2> QED
    BY ONLY <2>0, <2>1, <1>1, <1>2, t \in Threads
<1> QED
  BY <1>19, <1>20

LEMMA InitData == Init => DataInv
<1> SUFFICES ASSUME Init PROVE Data
  BY DEF DataInv
<1> QED
  BY DEF Init, ZeroState, Data, Seeding, IssuedBehind, Drawing, SuccessIsSeeded, NoStateReused, CallsAreAtomic

LEMMA Element ==
  ASSUME NEW S, NEW q \in Seq(S), NEW n \in 1 .. Len(q)
  PROVE  q[n] \in S
OBVIOUS

LEMMA Appended ==
  ASSUME NEW S, NEW q \in Seq(S), NEW e \in S
  PROVE  /\ Len(Append(q, e)) = Len(q) + 1 /\ Append(q, e)[Len(q) + 1] = e
         /\ \A n \in 1 .. Len(q) : Append(q, e)[n] = q[n]
OBVIOUS

LEMMA NextData == RbgInv /\ [Next]_vars => DataInv'
<1> SUFFICES ASSUME RbgInv, [Next]_vars, lock' # "null"
             PROVE  Data'
  BY DEF DataInv, Data
<1> USE ThreadAssumption
    DEF RbgInv, DataInv, Data, Seeding, IssuedBehind, Drawing, SuccessIsSeeded, NoStateReused, CallsAreAtomic,
        ControlInv, Control, TypeOK, State, ZeroState, Wanted, LockLife, Cleaner, Freed, Owner, Critical,
        Goto, Locations, local, history
<1>1. ASSUME NEW t \in Threads, NEW o \in {"bytes", "status"}, NEW n \in Nat, Call(t, o, n)
      PROVE  Data'
  <2>1. drew'[t] = <<>> /\ \A u \in Threads \ {t} : drew'[u] = drew[u]
    BY <1>1 DEF Call
  <2>2. Seeding' /\ IssuedBehind'
    BY <1>1, SMTT(30) DEF Call
  <2>5. NoStateReused'
    BY <1>1, SMTT(30) DEF Call
  <2>3. Drawing'
    BY <1>1, <2>1 DEF Call
  <2>4. SuccessIsSeeded' /\ CallsAreAtomic'
    <3>1. lock' = lock /\ \A u \in Threads \ {t} : op'[u] = op[u] /\ rv'[u] = rv[u]
      BY <1>1 DEF Call
    <3>2. Len(drew'[t]) = 0
      BY <2>1
    <3>0. lock # "null" /\ SuccessIsSeeded /\ CallsAreAtomic
      BY <3>1
    <3>3. ASSUME NEW u \in Threads, op'[u] = "bytes", rv'[u] = 1
          PROVE  \A m \in 1 .. Len(drew'[u]) : drew'[u][m].seed # 0
      BY ONLY <2>1, <3>0, <3>1, <3>2, <3>3, u \in Threads DEF SuccessIsSeeded
    <3>4. ASSUME NEW u \in Threads
          PROVE  \A m \in 1 .. Len(drew'[u]) - 1 : drew'[u][m + 1] = Succ(drew'[u][m])
      BY ONLY <2>1, <3>0, <3>1, <3>2, u \in Threads DEF CallsAreAtomic
    <3> QED
      BY <3>3, <3>4
  <2> QED
    BY <2>5, <2>2, <2>3, <2>4
<1>2. ASSUME NEW t \in Threads, CallCleanup(t) PROVE Data'
  BY <1>2 DEF CallCleanup
<1>3. ASSUME NEW t \in Threads, RunOnce(t) PROVE Data'
  BY <1>3, LockAssumption DEF RunOnce
<1>4. ASSUME NEW t \in Threads, Lock(t) PROVE Data'
  BY <1>4 DEF Lock, Enter
<1>5. ASSUME NEW t \in Threads, NoLock(t) PROVE Data'
  BY <1>5 DEF NoLock, Enter
<1>6. ASSUME NEW t \in Threads, Unlock(t) PROVE Data'
  BY <1>6 DEF Unlock
<1>7. ASSUME NEW t \in Threads, UnlockNull(t) PROVE Data'
  BY <1>7 DEF UnlockNull
<1>8. ASSUME NEW t \in Threads, Ready(t) PROVE Data'
  <2>1. Len(drew[t]) = 0
    BY <1>8 DEF Ready
  <2>2. Seeding' /\ IssuedBehind' /\ NoStateReused' /\ SuccessIsSeeded' /\ CallsAreAtomic'
    BY <1>8, SMTT(30) DEF Ready
  <2>3. Drawing'
    BY <1>8, <2>1 DEF Ready
  <2> QED
    BY <2>2, <2>3
<1>9. ASSUME NEW t \in Threads, StatusBad(t) PROVE Data'
  BY <1>9 DEF StatusBad, Proceed
<1>10. ASSUME NEW t \in Threads, StatusGood(t) PROVE Data'
  BY <1>10 DEF StatusGood, Proceed
<1>11. ASSUME NEW t \in Threads, SeedFails(t) PROVE Data'
  BY <1>11 DEF SeedFails, Proceed
<1>12. ASSUME NEW t \in Threads, SeedGot(t) PROVE Data'
  BY <1>12 DEF SeedGot
<1>13. ASSUME NEW t \in Threads, Install(t) PROVE Data'
  <2>1. /\ gen' = [seed |-> 1, pos |-> 0] /\ initialized' = 1 /\ gen.seed = 0 /\ seeds = 1
        /\ op[t] = "bytes" => drew[t] = <<>>
    BY <1>13 DEF Install
  <2>2. Seeding'
    BY <1>13, <2>1 DEF Install, Proceed
  <2>3. IssuedBehind'
    <3>1. ASSUME NEW n \in 1 .. Len(issued) PROVE Below(issued[n], gen')
      <4>1. issued[n] \in State /\ gen \in State
        BY Element
      <4>2. ~stopping /\ lock # "null" /\ IssuedBehind
        BY <1>13 DEF Install
      <4>3. Below(issued[n], gen)
        BY ONLY <4>2, n \in 1 .. Len(issued) DEF IssuedBehind
      <4> QED
        BY ONLY <2>1, <4>1, <4>3 DEF Below, State
    <3>2. issued' = issued
      BY <1>13 DEF Install
    <3> QED
      BY <3>1, <3>2
  <2>4. Drawing'
    BY <1>13, <2>1 DEF Install, Proceed
  <2>5. SuccessIsSeeded' /\ NoStateReused' /\ CallsAreAtomic'
    BY <1>13, SMTT(30) DEF Install
  <2> QED
    BY <2>2, <2>3, <2>4, <2>5
<1>14. ASSUME NEW t \in Threads, ReadState(t) PROVE Data'
  BY <1>14 DEF ReadState
<1>15. ASSUME NEW t \in Threads, WriteState(t) PROVE Data'
  <2>1. /\ lock # "null" /\ ~stopping /\ x[t] = gen /\ op[t] = "bytes"
        /\ \A u \in Threads \ {t} : pc[u] \notin Critical
    BY <1>15 DEF WriteState
  <2>2. /\ gen' = Succ(gen) /\ issued' = Append(issued, gen)
        /\ drew' = [drew EXCEPT ![t] = Append(@, gen)]
    BY <1>15, <2>1 DEF WriteState
  <2>3. Seeding'
    BY <1>15, <2>1, <2>2 DEF WriteState, Succ
  <2>4. IssuedBehind'
    <3>1. ASSUME NEW n \in 1 .. Len(issued) PROVE Below(issued[n], Succ(gen))
      <4>1. issued[n] \in State /\ gen \in State
        BY Element
      <4>2. Below(issued[n], gen)
        BY <2>1
      <4> QED
        BY ONLY <4>1, <4>2 DEF Below, Succ, State
    <3>2. Below(gen, Succ(gen))
      BY DEF Below, Succ
    <3>3. ASSUME NEW n \in 1 .. Len(issued') PROVE Below(issued'[n], gen')
      BY ONLY <2>2, <3>1, <3>2, issued \in Seq(State), gen \in State, n \in 1 .. Len(issued'), Appended
    <3> QED
      BY <3>3
  <2>5. NoStateReused'
    <3>1. ASSUME NEW n \in 1 .. Len(issued) PROVE issued[n] # gen
      BY <2>1, SMTT(30) DEF Below
    <3>2. NoStateReused /\ issued \in Seq(State) /\ gen \in State
      OBVIOUS
    <3>3. /\ Len(issued') = Len(issued) + 1 /\ issued'[Len(issued) + 1] = gen
          /\ \A n \in 1 .. Len(issued) : issued'[n] = issued[n]
      BY ONLY <2>2, <3>2, Appended
    <3>4. ASSUME NEW m \in 1 .. Len(issued'), NEW n \in 1 .. Len(issued'), issued'[m] = issued'[n]
          PROVE  m = n
      BY ONLY <2>1, <3>1, <3>2, <3>3, <3>4, m \in 1 .. Len(issued'), n \in 1 .. Len(issued'),
              Len(issued) \in Nat, SMTT(30) DEF NoStateReused
    <3> QED
      BY <3>4
  <2>6. Drawing'
    BY <1>15, <2>1, <2>2, SMTT(30) DEF WriteState
  <2>7. SuccessIsSeeded'
    BY <1>15, <2>1, <2>2 DEF WriteState
  <2>8. CallsAreAtomic'
    <3>0. lock # "null" /\ CallsAreAtomic
      BY <2>1
    <3>1. ASSUME NEW u \in Threads \ {t} PROVE drew'[u] = drew[u]
      BY <2>2
    <3>2. ASSUME NEW n \in 1 .. Len(drew'[t]) - 1
          PROVE  drew'[t][n + 1] = Succ(drew'[t][n])
      <4>1. drew[t] \in Seq(State) /\ gen \in State /\ drew'[t] = Append(drew[t], gen)
        BY <2>2
      <4>2. /\ Len(drew'[t]) = Len(drew[t]) + 1 /\ drew'[t][Len(drew[t]) + 1] = gen
            /\ \A m \in 1 .. Len(drew[t]) : drew'[t][m] = drew[t][m]
        BY ONLY <4>1, Appended
      <4>3. Len(drew[t]) > 0 => gen = Succ(drew[t][Len(drew[t])])
        BY <1>15, <2>1 DEF WriteState
      <4>4. Len(drew[t]) \in Nat /\ n \in 1 .. Len(drew[t])
        BY ONLY <4>1, <4>2, n \in 1 .. Len(drew'[t]) - 1
      <4>5. CASE n = Len(drew[t])
        BY ONLY <4>2, <4>3, <4>4, <4>5
      <4>6. CASE n # Len(drew[t])
        <5>1. n \in 1 .. Len(drew[t]) - 1 /\ n + 1 \in 1 .. Len(drew[t])
          BY ONLY <4>4, <4>6
        <5>2. drew[t][n + 1] = Succ(drew[t][n])
          BY ONLY <3>0, <5>1, t \in Threads DEF CallsAreAtomic
        <5> QED
          BY ONLY <4>2, <4>4, <5>1, <5>2
      <4> QED
        BY <4>5, <4>6
    <3> QED
      BY ONLY <3>0, <3>1, <3>2 DEF CallsAreAtomic
  <2> QED
    BY <2>3, <2>4, <2>5, <2>6, <2>7, <2>8
<1>16. ASSUME NEW t \in Threads, Filled(t) PROVE Data'
  BY <1>16 DEF Filled
<1>17. ASSUME NEW t \in Threads, Wipe(t) PROVE Data'
  BY <1>17, SMTT(30) DEF Wipe
<1>18. ASSUME NEW t \in Threads, Free(t) PROVE Data'
  BY <1>18 DEF Free
<1>19. CASE UNCHANGED vars
  BY <1>19 DEF vars
<1>20. CASE Next
  <2>0. PICK t \in Threads : \/ \E o \in {"bytes", "status"}, n \in Nat : Call(t, o, n)
                             \/ CallCleanup(t)
                             \/ Step(t)
    BY <1>20, NextCases
  <2>1. CASE Step(t)
    BY ONLY <2>1, <1>3, <1>4, <1>5, <1>6, <1>7, <1>8, <1>9, <1>10, <1>11, <1>12, <1>13,
            <1>14, <1>15, <1>16, <1>17, <1>18, t \in Threads DEF Step
  <2> QED
    BY ONLY <2>0, <2>1, <1>1, <1>2, t \in Threads
<1> QED
  BY <1>19, <1>20

-----------------------------------------------------------------------------
LEMMA Invariant == Spec => []RbgInv
<1>1. Init => RbgInv
  BY InitControl, InitData DEF RbgInv
<1>2. RbgInv /\ [Next]_vars => RbgInv'
  BY NextControl, NextData DEF RbgInv
<1> QED
  BY <1>1, <1>2, PTL DEF Spec

\* The variables of the generator and of its callers keep their types.
THEOREM TypeCorrect == Spec => []TypeOK
<1>1. RbgInv => TypeOK
  BY DEF RbgInv, ControlInv
<1> QED
  BY <1>1, Invariant, PTL

\* dstu_lock ... dstu_unlock keeps all other threads out, if there is a lock.
THEOREM Exclusion == Spec => []MutualExclusion
<1>1. RbgInv => MutualExclusion
  BY DEF RbgInv, ControlInv, Control, Owner, MutualExclusion
<1> QED
  BY <1>1, Invariant, PTL

\* dstu_rbg_bytes returns 1 only for bits of a seeded generator.
THEOREM SuccessSeeded == Spec => []SuccessIsSeeded
<1>1. RbgInv => SuccessIsSeeded
  BY DEF RbgInv, DataInv, Data, SuccessIsSeeded
<1> QED
  BY <1>1, Invariant, PTL

\* No two bits come from one state of the generator.
THEOREM NoReuse == Spec => []NoStateReused
<1>1. RbgInv => NoStateReused
  BY DEF RbgInv, DataInv, Data, NoStateReused
<1> QED
  BY <1>1, Invariant, PTL

\* The bits of one call come from consecutive states.
THEOREM Atomicity == Spec => []CallsAreAtomic
<1>1. RbgInv => CallsAreAtomic
  BY DEF RbgInv, DataInv, Data, CallsAreAtomic
<1> QED
  BY <1>1, Invariant, PTL

\* dstu_rbg_init runs to its end at most once.
THEOREM SeedOnce == Spec => []SeededOnce
<1>1. RbgInv => SeededOnce
  BY DEF RbgInv, DataInv, Data, Seeding, SeededOnce
<1> QED
  BY <1>1, Invariant, PTL

\* dstu_rbg_cleanup frees a lock nobody holds, of a generator that is wiped.
THEOREM QuietFree == Spec => []FreedWhenQuiet
<1>1. RbgInv => FreedWhenQuiet
  BY DEF RbgInv, ControlInv, Control, Freed, FreedWhenQuiet
<1> QED
  BY <1>1, Invariant, PTL
=============================================================================
