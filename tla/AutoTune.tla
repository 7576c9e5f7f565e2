------------------------------ MODULE AutoTune -------------------------------
(***************************************************************************)
(* How max_connections is derived from the machine (src/config_auto.rs):   *)
(* compute_auto takes the least of three caps, in saturating u64           *)
(* arithmetic, and resolve lets a fixed value override it.  The largest    *)
(* u64 and the literals are constants, so that small machines meet every   *)
(* cap.                                                                    *)
(***************************************************************************)
EXTENDS Integers

CONSTANTS MaxU64,     \* the largest u64
          PER_CORE_MBPS, PER_USER_KBPS, PER_SESSION_KB, MEM_BUDGET_PCT,
          FD_RESERVE_DEFAULT, FD_PER_SESSION,
          Kilo, Cent  \* the literals 1000 and 100

ASSUME AutoTuneAssumption ==
    /\ {MaxU64, PER_CORE_MBPS, PER_USER_KBPS, PER_SESSION_KB, MEM_BUDGET_PCT,
        FD_PER_SESSION, Kilo, Cent} \subseteq Nat \ {0}
    /\ FD_RESERVE_DEFAULT \in Nat

Least(a, b) == IF a < b THEN a ELSE b
Greatest(a, b) == IF a < b THEN b ELSE a
saturating_mul(a, b) == Least(a * b, MaxU64)
saturating_sub(a, b) == Greatest(a - b, 0)

CpuCap(cpus) ==
    saturating_mul(saturating_mul(Greatest(cpus, 1), PER_CORE_MBPS), Kilo) \div PER_USER_KBPS

MemCap(total_mem_kb) ==
    (saturating_mul(total_mem_kb, MEM_BUDGET_PCT) \div Cent) \div PER_SESSION_KB

\* At most a quarter of a small limit is reserved.
FdReserve(nofile_soft) == Least(FD_RESERVE_DEFAULT, nofile_soft \div 4)

\* Faulty variant: nothing is reserved.
FdCapUnreserved(nofile_soft) == nofile_soft \div FD_PER_SESSION

FdCap(nofile_soft) ==
    saturating_sub(nofile_soft, FdReserve(nofile_soft)) \div FD_PER_SESSION

\* The automatic limit: at least one session is admitted.
compute_auto(cpus, total_mem_kb, nofile_soft) ==
    Greatest(Least(Least(CpuCap(cpus), MemCap(total_mem_kb)), FdCap(nofile_soft)), 1)

\* What resolve returns for a spec: 0 stands for Auto, a fixed number is not 0.
Resolved(spec, auto) == IF spec = 0 THEN auto ELSE spec
=============================================================================
