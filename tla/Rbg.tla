-------------------------------- MODULE Rbg --------------------------------
(***************************************************************************)
(* The DSTU random bit generator of engine/rbg.c, shared by all threads of *)
(* the process once the engine is the default RAND method.                 *)
(*                                                                         *)
(* The generator (cryptor, I, s) is one static object, seeded on first use *)
(* from OpenSSL's own generator, which may be out of entropy.  Every entry *)
(* point takes one lock, which is created on first use by                  *)
(* CRYPTO_THREAD_run_once.  The result of dstu_lock is never looked at: if *)
(* the lock could not be allocated a caller runs unlocked, and unlocking   *)
(* the NULL lock kills the process.                                        *)
(*                                                                         *)
(* A state of the generator is the number of its seed and the number of    *)
(* bits drawn since; seed 0 is the all-zero state of the static variables. *)
(* dstu_rbg_get_bit reads the state and writes the next one: two steps.    *)
(***************************************************************************)
EXTENDS Integers, Sequences, FiniteSets

CONSTANTS
  Threads,       (* threads that call the generator                        *)
  NoThread,      (* nobody holds the lock                                  *)
  LockOutcomes,  (* what CRYPTO_THREAD_lock_new may yield: "live", "null"  *)
  MaxCalls,      (* bound: calls made by all threads together              *)
  MaxBits        (* bound: bits drawn by one call                          *)

ASSUME ThreadAssumption == NoThread \notin Threads
ASSUME LockAssumption   == LockOutcomes \subseteq {"live", "null"}
ASSUME BoundAssumption  == MaxCalls \in Nat /\ MaxBits \in Nat

VARIABLES
  lock,          (* dstu_rand_lock: "none" before run_once, "null", "live", "freed" *)
  holder,        (* the thread that holds the lock                         *)
  initialized,   (* the generator is seeded                                *)
  gen,           (* I, s, cryptor                                          *)
  pc,            (* where each thread is; "idle" outside of a call         *)
  op,            (* "bytes", "status" or "cleanup"                         *)
  left,          (* bits the call has still to draw                        *)
  rv,            (* the result of the call                                 *)
  seed,          (* the seed a thread got from RAND_OpenSSL                *)
  x,             (* the state a thread read in dstu_rbg_get_bit            *)
  seeds,         (* seeds RAND_OpenSSL has given out                       *)
  alive,         (* the process has not crashed                            *)
  stopping,      (* OPENSSL_cleanup has been called                        *)
  calls,         (* calls made so far                                      *)
  drew,          (* history: the states each thread's last call drew from  *)
  issued         (* history: all states bits were drawn from, in order     *)

local   == <<op, left, rv, seed, x>>
history == <<drew, issued>>
vars == <<lock, holder, initialized, gen, pc, local, seeds, alive, stopping, calls, history>>

State     == [seed : Nat, pos : Nat]
ZeroState == [seed |-> 0, pos |-> 0]
Succ(g)   == [seed |-> g.seed, pos |-> g.pos + 1]

Init ==
  /\ lock = "none" /\ holder = NoThread
  /\ initialized = 0 /\ gen = ZeroState
  /\ pc = [t \in Threads |-> "idle"] /\ op = [t \in Threads |-> "status"]
  /\ left = [t \in Threads |-> 0] /\ rv = [t \in Threads |-> 0]
  /\ seed = [t \in Threads |-> 0] /\ x = [t \in Threads |-> ZeroState]
  /\ seeds = 0 /\ alive = TRUE /\ stopping = FALSE /\ calls = 0
  /\ drew = [t \in Threads |-> <<>>] /\ issued = <<>>

Goto(t, from, to) ==
  /\ alive /\ pc[t] = from
  /\ pc' = [pc EXCEPT ![t] = to]

-----------------------------------------------------------------------------
(* Entering and leaving: dstu_lock, dstu_unlock.                           *)

Call(t, o, n) ==
  /\ Goto(t, "idle", "once")
  /\ ~stopping /\ calls < MaxCalls
  /\ calls' = calls + 1
  /\ op' = [op EXCEPT ![t] = o] /\ left' = [left EXCEPT ![t] = n]
  /\ rv' = [rv EXCEPT ![t] = 1] /\ drew' = [drew EXCEPT ![t] = <<>>]
  /\ UNCHANGED <<lock, holder, initialized, gen, seed, x, seeds, alive, stopping, issued>>

\* RAND_bytes, or RAND_priv_bytes from gost_key.
CallBytes(t)  == \E n \in 0 .. MaxBits : Call(t, "bytes", n)
CallStatus(t) == Call(t, "status", 0)

\* OpenSSL calls the cleanup from OPENSSL_cleanup: no other thread is in the
\* library any more, and none enters it later.
CallCleanup(t) ==
  /\ Goto(t, "idle", "once")
  /\ ~stopping /\ \A u \in Threads : pc[u] = "idle"
  /\ stopping' = TRUE
  /\ op' = [op EXCEPT ![t] = "cleanup"]
  /\ UNCHANGED <<lock, holder, initialized, gen, left, rv, seed, x, seeds, alive, calls, history>>

RunOnce(t) ==
  /\ Goto(t, "once", "lock")
  /\ IF lock = "none" THEN lock' \in LockOutcomes ELSE UNCHANGED lock
  /\ UNCHANGED <<holder, initialized, gen, local, seeds, alive, stopping, calls, history>>

Enter(t) == IF op[t] = "cleanup" THEN "wipe" ELSE "check"

\* Mutant: the lock is taken whoever holds it.
LockUnguarded(t) ==
  /\ Goto(t, "lock", Enter(t))
  /\ lock = "live"
  /\ holder' = t
  /\ UNCHANGED <<lock, initialized, gen, local, seeds, alive, stopping, calls, history>>

Lock(t) ==
  /\ Goto(t, "lock", Enter(t))
  /\ lock = "live" /\ holder = NoThread
  /\ holder' = t
  /\ UNCHANGED <<lock, initialized, gen, local, seeds, alive, stopping, calls, history>>

\* dstu_lock returns 0 and nobody looks.
NoLock(t) ==
  /\ Goto(t, "lock", Enter(t))
  /\ lock = "null"
  /\ UNCHANGED <<lock, holder, initialized, gen, local, seeds, alive, stopping, calls, history>>

Unlock(t) ==
  /\ lock = "live"
  /\ Goto(t, "unlock", IF op[t] = "cleanup" THEN "free" ELSE "idle")
  /\ holder' = NoThread
  /\ UNCHANGED <<lock, initialized, gen, local, seeds, alive, stopping, calls, history>>

UnlockNull(t) ==
  /\ lock = "null"
  /\ Goto(t, "unlock", "unlock")
  /\ alive' = FALSE
  /\ UNCHANGED <<lock, holder, initialized, gen, local, seeds, stopping, calls, history>>

-----------------------------------------------------------------------------
(* dstu_rbg_status_nolock and dstu_rbg_init                                *)

\* Where a call goes on once the generator has been looked at.
Proceed(t) == IF op[t] = "bytes" THEN "read" ELSE "unlock"

\* A seeded generator is not looked at again by dstu_rbg_bytes.
Ready(t) ==
  /\ Goto(t, "check", "read")
  /\ op[t] = "bytes" /\ initialized = 1
  /\ UNCHANGED <<lock, holder, initialized, gen, local, seeds, alive, stopping, calls, history>>

\* RAND_OpenSSL()->status(): no entropy, a generator to seed, or nothing to do.
StatusBad(t) ==
  /\ Goto(t, "check", Proceed(t))
  /\ op[t] = "status" \/ initialized = 0
  /\ rv' = [rv EXCEPT ![t] = 0]
  /\ UNCHANGED <<lock, holder, initialized, gen, op, left, seed, x, seeds, alive, stopping, calls, history>>

StatusGood(t) ==
  /\ op[t] = "status" \/ initialized = 0
  /\ Goto(t, "check", IF initialized = 0 THEN "seed" ELSE Proceed(t))
  /\ UNCHANGED <<lock, holder, initialized, gen, local, seeds, alive, stopping, calls, history>>

\* Mutant: the failure to seed is not reported.
SeedFailsQuietly(t) ==
  /\ Goto(t, "seed", Proceed(t))
  /\ UNCHANGED <<lock, holder, initialized, gen, local, seeds, alive, stopping, calls, history>>

\* RAND_OpenSSL()->bytes() fails: dstu_rbg_init returns 0, but dstu_rbg_bytes
\* goes on to fill the buffer.
SeedFails(t) ==
  /\ Goto(t, "seed", Proceed(t))
  /\ rv' = [rv EXCEPT ![t] = 0]
  /\ UNCHANGED <<lock, holder, initialized, gen, op, left, seed, x, seeds, alive, stopping, calls, history>>

SeedGot(t) ==
  /\ Goto(t, "seed", "install")
  /\ seeds' = seeds + 1 /\ seed' = [seed EXCEPT ![t] = seeds + 1]
  /\ UNCHANGED <<lock, holder, initialized, gen, op, left, rv, x, alive, stopping, calls, history>>

\* Mutant: the generator is seeded, but not marked as seeded.
InstallUnmarked(t) ==
  /\ Goto(t, "install", Proceed(t))
  /\ gen' = [seed |-> seed[t], pos |-> 0]
  /\ UNCHANGED <<lock, holder, initialized, local, seeds, alive, stopping, calls, history>>

\* Mutant: the key is set with gost_key, which asks the generator for a mask.
InstallMasked(t) ==
  /\ Goto(t, "install", "lock")
  /\ gen' = [seed |-> seed[t], pos |-> 0] /\ initialized' = 1
  /\ UNCHANGED <<lock, holder, local, seeds, alive, stopping, calls, history>>

\* The key is set with gost_key_nomask, which draws no random bits: gost_key
\* would come back here for its mask, with the lock held.
Install(t) ==
  /\ Goto(t, "install", Proceed(t))
  /\ gen' = [seed |-> seed[t], pos |-> 0] /\ initialized' = 1
  /\ UNCHANGED <<lock, holder, local, seeds, alive, stopping, calls, history>>

-----------------------------------------------------------------------------
(* The loop of dstu_rbg_bytes and dstu_rbg_get_bit                         *)

\* Mutant: the loop draws a bit before it looks how many are left.
ReadStateFirst(t) ==
  /\ Goto(t, "read", "write")
  /\ x' = [x EXCEPT ![t] = gen]
  /\ UNCHANGED <<lock, holder, initialized, gen, op, left, rv, seed, seeds, alive, stopping, calls, history>>

ReadState(t) ==
  /\ left[t] > 0
  /\ Goto(t, "read", "write")
  /\ x' = [x EXCEPT ![t] = gen]
  /\ UNCHANGED <<lock, holder, initialized, gen, op, left, rv, seed, seeds, alive, stopping, calls, history>>

WriteState(t) ==
  /\ Goto(t, "write", "read")
  /\ gen' = Succ(x[t])
  /\ left' = [left EXCEPT ![t] = @ - 1]
  /\ drew' = [drew EXCEPT ![t] = Append(@, x[t])]
  /\ issued' = Append(issued, x[t])
  /\ UNCHANGED <<lock, holder, initialized, op, rv, seed, x, seeds, alive, stopping, calls>>

Filled(t) ==
  /\ left[t] = 0
  /\ Goto(t, "read", "unlock")
  /\ UNCHANGED <<lock, holder, initialized, gen, local, seeds, alive, stopping, calls, history>>

-----------------------------------------------------------------------------
(* dstu_rbg_cleanup                                                        *)

\* Mutant: the cleanup frees the lock only.
WipeNothing(t) ==
  /\ Goto(t, "wipe", "unlock")
  /\ UNCHANGED <<lock, holder, initialized, gen, local, seeds, alive, stopping, calls, history>>

Wipe(t) ==
  /\ Goto(t, "wipe", "unlock")
  /\ gen' = ZeroState /\ initialized' = 0
  /\ UNCHANGED <<lock, holder, local, seeds, alive, stopping, calls, history>>

Free(t) ==
  /\ Goto(t, "free", "idle")
  /\ lock' = "freed"
  /\ UNCHANGED <<holder, initialized, gen, local, seeds, alive, stopping, calls, history>>

-----------------------------------------------------------------------------
\* What a thread does once it is inside a call.
Step(t) ==
  \/ RunOnce(t)
  \/ Lock(t)
  \/ NoLock(t)
  \/ Unlock(t)
  \/ UnlockNull(t)
  \/ Ready(t)
  \/ StatusBad(t)
  \/ StatusGood(t)
  \/ SeedFails(t)
  \/ SeedGot(t)
  \/ Install(t)
  \/ ReadState(t)
  \/ WriteState(t)
  \/ Filled(t)
  \/ Wipe(t)
  \/ Free(t)

Next ==
  \E t \in Threads : CallBytes(t) \/ CallStatus(t) \/ CallCleanup(t) \/ Step(t)

Spec == Init /\ [][Next]_vars

\* A thread that can take a step inside a call eventually does.  Nobody is
\* promised the lock ahead of the others: weak fairness is enough because the
\* other threads make finitely many calls.
FairSpec == Spec /\ \A t \in Threads : WF_vars(Step(t))

-----------------------------------------------------------------------------
(* Properties                                                              *)

Locations == {"idle", "once", "lock", "check", "seed", "install", "read",
              "write", "wipe", "unlock", "free"}

\* Locations between dstu_lock and dstu_unlock.
Critical == {"check", "seed", "install", "read", "write", "wipe", "unlock"}

TypeOK ==
  /\ lock \in {"none", "live", "null", "freed"}
  /\ holder \in Threads \cup {NoThread}
  /\ initialized \in {0, 1} /\ gen \in State
  /\ pc \in [Threads -> Locations]
  /\ op \in [Threads -> {"bytes", "status", "cleanup"}]
  /\ left \in [Threads -> Nat] /\ rv \in [Threads -> {0, 1}]
  /\ seed \in [Threads -> Nat] /\ x \in [Threads -> State]
  /\ seeds \in Nat /\ alive \in BOOLEAN /\ stopping \in BOOLEAN /\ calls \in Nat
  /\ drew \in [Threads -> Seq(State)] /\ issued \in Seq(State)

\* Unless the lock could not be allocated, no two threads are inside the
\* generator at once.
MutualExclusion ==
  lock # "null" =>
    \A t, u \in Threads : pc[t] \in Critical /\ pc[u] \in Critical => t = u

\* A call that reports success drew every bit from a seeded generator,
\* whoever seeded it and whatever failed before.
SuccessIsSeeded ==
  lock # "null" =>
    \A t \in Threads : op[t] = "bytes" /\ rv[t] = 1 =>
      \A n \in 1 .. Len(drew[t]) : drew[t][n].seed # 0

\* No state of the generator yields two bits, in whichever threads.
NoStateReused ==
  lock # "null" =>
    \A m, n \in 1 .. Len(issued) : issued[m] = issued[n] => m = n

\* The bits of one call come from consecutive states: no other thread draws
\* from the generator, seeds it or wipes it in between.
CallsAreAtomic ==
  lock # "null" =>
    \A t \in Threads : \A n \in 1 .. Len(drew[t]) - 1 :
      drew[t][n + 1] = Succ(drew[t][n])

\* Two threads that find the generator unseeded do not both seed it.
SeededOnce == lock # "null" => seeds <= 1

\* dstu_rbg_cleanup frees the lock when nobody can be using it, and nothing
\* of the generator is left then.
FreedWhenQuiet ==
  lock = "freed" => /\ holder = NoThread /\ \A t \in Threads : pc[t] = "idle"
                    /\ gen = ZeroState /\ initialized = 0

\* Every call returns, or the process is dead: no caller waits for the lock
\* for ever, and no holder waits for it either.
EveryCallReturns ==
  \A t \in Threads : pc[t] # "idle" ~> (pc[t] = "idle" \/ ~alive)
=============================================================================
