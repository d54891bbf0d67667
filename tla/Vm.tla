--------------------------------- MODULE Vm ---------------------------------
(***************************************************************************)
(* Virtual memory: the page table of sections, the identity mappings, the  *)
(* MMU turned on and off, changes of permissions, and the abort handler    *)
(* that maps what is missing.  The processor (external) may walk the table *)
(* and keep the translation at any moment the MMU is on.                   *)
(*                                                                         *)
(* A section has OneMB = 2 words, so that an address may be unaligned.     *)
(* The three device sections are one.  Sections are strongly ordered: the  *)
(* caches hold nothing, and a store to the table is seen by a later walk.  *)
(***************************************************************************)
EXTENDS Naturals

CONSTANTS
    VmAccess,     \* addresses the program reads and writes
    VmPerms,      \* permissions it gives to sections
    VmMapped      \* sections it maps itself while the MMU is off

VARIABLES
    vpt,          \* the page table: section -> first level descriptor
    tlb,          \* translations the processor holds
    cp15,         \* MMU enabled, TTBR0 set, domains that are checked
    mem,          \* physical memory
    written,      \* history: the last value stored at an address
    vpc,          \* where the program is
    call,         \* arguments of the routine that runs
    access,       \* the access under way, or the last one
    proc_pt       \* proc.pt has been set

vm_vars == <<vpt, tlb, cp15, mem, written, vpc, call, access, proc_pt>>

OneMB == 2
dom_id == 1
Code == 0
Heap == 1
Below == 2        \* the section below the stack, at first unmapped
Stack == 3
Free == 4
IntStack == 5
Gpio == 6
Section == 0 .. 6
VmAddr == 0 .. 7 * OneMB - 1

\* mmu_map_section does not invalidate the TLB: the sections that the program
\* maps are none of those whose permissions it changes.
ASSUME VmAssumption ==
    VmAccess \subseteq VmAddr /\ VmPerms \subseteq 0 .. 3 /\ VmMapped \subseteq Section \ {Below, Stack}

AP_no_access == 0
AP_rd_only == 2
AP_rw == 3

mmu_sec_num(a) == a \div OneMB
mod_pow2(a) == a % OneMB = 0

fld_mk == [tag |-> 2, base |-> 0, AP |-> 0, domain |-> 0]
Unmapped == [fld_mk EXCEPT !.tag = 0]
fld_check_valid(f) == f.tag = 2

-----------------------------------------------------------------------------
(* Page tables. *)

mmu_pt_init == [s \in Section |-> Unmapped]
fld_set_base_addr(f, addr) == [f EXCEPT !.base = addr \div OneMB]

mmu_map_section(pt, va, pa, dom) ==
    [pt EXCEPT ![mmu_sec_num(va)] =
        fld_set_base_addr([@ EXCEPT !.tag = 2, !.AP = AP_rw, !.domain = dom], pa)]

IdentityMap(pt, s) == mmu_map_section(pt, s * OneMB, s * OneMB, dom_id)

\* The table that vm_ident_mmu_init allocates and fills.
IdentityTable ==
    [s \in Section |-> IF s \in {Code, Heap, Gpio, Stack, IntStack} THEN
                           IdentityMap(mmu_pt_init, s)[s] ELSE Unmapped]

-----------------------------------------------------------------------------
(* Accesses.  The program is privileged: only AP_no_access denies it. *)

None == [tag |-> 0]
NoTlb == [s \in Section |-> None]

Entry(s) == IF tlb[s] # None THEN tlb[s] ELSE vpt[s]
XlateFault(s) == cp15.on /\ ~fld_check_valid(Entry(s))
PermFault(s) == cp15.on /\ fld_check_valid(Entry(s)) /\ Entry(s).AP = AP_no_access
DomainFault(s) == cp15.on /\ fld_check_valid(Entry(s)) /\ Entry(s).domain \notin cp15.dac
Reach(s) == ~XlateFault(s) /\ ~DomainFault(s) /\ ~PermFault(s)
Physical(a) == IF cp15.on THEN Entry(mmu_sec_num(a)).base * OneMB + (a % OneMB) ELSE a

\* What the page table says of an access to address a.
Denied(a) == cp15.on /\ (vpt[mmu_sec_num(a)].tag = 0 \/ vpt[mmu_sec_num(a)].AP = AP_no_access)

\* The processor walks the table.  Only the sections whose descriptors change
\* are followed: the others are the same in the table and in the TLB.
Walk(s) ==
    /\ cp15.on /\ vpc \notin {"lost", "halted"} /\ tlb[s] = None /\ fld_check_valid(vpt[s])
    /\ tlb' = [tlb EXCEPT ![s] = vpt[s]]
    /\ UNCHANGED <<vpt, cp15, mem, written, vpc, call, access, proc_pt>>

-----------------------------------------------------------------------------
(* Setting up. *)

\* Translations of an earlier program may be left at a restart.
VmInit ==
    /\ vpt = mmu_pt_init
    /\ \E s \in {Code, Stack} : \E f \in {None, [fld_mk EXCEPT !.base = Free]} :
           tlb = [NoTlb EXCEPT ![s] = f]
    /\ cp15 = [on |-> FALSE, ttbr |-> FALSE, dac |-> {}]
    /\ mem = [a \in VmAddr |-> 0] /\ written = mem
    /\ vpc = "mmu_init" /\ proc_pt = FALSE
    /\ \E start_p \in BOOLEAN : call = [sec |-> 0, n |-> 0, perm |-> 0, ret |-> IF start_p THEN "on" ELSE "run"]
    /\ access = [a |-> 0, v |-> 0, faults |-> 0, denied |-> FALSE]

mmu_reset(t) == NoTlb

mmu_init ==
    /\ vpc = "mmu_init" /\ tlb' = mmu_reset(tlb) /\ vpc' = "ident"
    /\ UNCHANGED <<vpt, cp15, mem, written, call, access, proc_pt>>

domain_access_ctrl_set(doms) == cp15' = [cp15 EXCEPT !.dac = doms]

vm_ident_mmu_init ==
    /\ vpc = "ident"
    /\ vpt' = IdentityTable
    /\ domain_access_ctrl_set({dom_id})
    /\ vpc' = IF call.ret = "on" THEN "on" ELSE "return"
    /\ UNCHANGED <<tlb, mem, written, call, access, proc_pt>>

\* vm_ident_mmu_init returns, with the MMU on or off, and its caller sets
\* proc.pt: up to here a fault finds no table.
InitReturns ==
    /\ vpc = "return" /\ proc_pt' = TRUE
    /\ vpc' = IF Reach(Code) /\ Reach(Stack) THEN "run" ELSE "lost"
    /\ UNCHANGED <<vpt, tlb, cp15, mem, written, call, access>>

VmGoto(l) == vpc' = l /\ UNCHANGED <<mem, written, access, proc_pt>>

set_procid_ttbr0 ==
    /\ vpc = "on" /\ cp15' = [cp15 EXCEPT !.ttbr = TRUE] /\ VmGoto("enable")
    /\ UNCHANGED <<vpt, tlb, call>>

\* mmu_enable_set_asm invalidates the instruction cache and the branch
\* predictor, not the TLB.
mmu_enable ==
    /\ vpc = "enable" /\ cp15' = [cp15 EXCEPT !.on = TRUE]
    /\ VmGoto(IF proc_pt THEN "run" ELSE "return")
    /\ UNCHANGED <<vpt, tlb, call>>

\* mmu_disable_set_asm invalidates the TLB, then writes the control register.
mmu_disable ==
    /\ vpc = "off" /\ tlb' = NoTlb /\ VmGoto("disable")
    /\ UNCHANGED <<vpt, cp15, call>>

mmu_disable_set ==
    /\ vpc = "disable" /\ cp15' = [cp15 EXCEPT !.on = FALSE] /\ VmGoto(call.ret)
    /\ UNCHANGED <<vpt, tlb, call>>

-----------------------------------------------------------------------------
(* Permissions. *)

\* mmu_lookup_section: the first section must be mapped, or the program stops.
mmu_lookup_section(va) == mod_pow2(va) /\ fld_check_valid(vpt[mmu_sec_num(va)])

MProtect(va, nsec, perm, ret) ==
    LET base == va - (va % OneMB)
    IN  /\ call' = [sec |-> mmu_sec_num(base), n |-> nsec, perm |-> perm, ret |-> ret]
        /\ VmGoto(IF mmu_lookup_section(base) THEN "ptes" ELSE "halted")
        /\ UNCHANGED <<vpt, tlb, cp15>>

\* Mutant: the TLB is invalidated before the last descriptor is written.
SyncsFirst ==
    /\ vpc = "ptes"
    /\ vpt' = [vpt EXCEPT ![call.sec].AP = call.perm]
    /\ call' = [call EXCEPT !.sec = @ + 1, !.n = @ - 1]
    /\ VmGoto(IF call.n > 1 THEN "ptes" ELSE call.ret)
    /\ UNCHANGED <<tlb, cp15>>

\* One iteration of the loop of mmu_mprotect.
mmu_mprotect ==
    /\ vpc = "ptes"
    /\ vpt' = [vpt EXCEPT ![call.sec].AP = call.perm]
    /\ call' = [call EXCEPT !.sec = @ + 1, !.n = @ - 1]
    /\ VmGoto(IF call.n > 1 THEN "ptes" ELSE "sync")
    /\ UNCHANGED <<tlb, cp15>>

mmu_sync_pte_mods ==
    /\ vpc = "sync" /\ tlb' = NoTlb /\ VmGoto(call.ret)
    /\ UNCHANGED <<vpt, cp15, call>>

-----------------------------------------------------------------------------
(* The program. *)

Access(a, v) ==
    /\ vpc = "run" /\ vpc' = "access"
    /\ access' = [a |-> a, v |-> v, faults |-> 0, denied |-> Denied(a)]
    /\ UNCHANGED <<vpt, tlb, cp15, mem, written, call, proc_pt>>

\* The store is done, or the abort handler called, if what it needs is there.
Store ==
    LET s == mmu_sec_num(access.a)
    IN  /\ vpc = "access" /\ UNCHANGED <<vpt, tlb, cp15, call, proc_pt>>
        /\ \/ /\ Reach(s) /\ vpc' = "run"
              /\ mem' = [mem EXCEPT ![Physical(access.a)] = access.v]
              /\ written' = [written EXCEPT ![access.a] = access.v]
              /\ UNCHANGED access
           \/ /\ ~Reach(s)
              /\ vpc' = IF proc_pt /\ \A h \in {IntStack, Heap, Gpio} : Reach(h)
                        THEN "abort" ELSE "lost"
              /\ access' = [access EXCEPT !.faults = @ + 1] /\ UNCHANGED <<mem, written>>

\* A domain fault changes nothing: the access is tried again.
data_abort_vector_vm ==
    LET base == access.a - (access.a % OneMB)
        s == mmu_sec_num(access.a)
    IN  /\ vpc = "abort"
        /\ \/ /\ XlateFault(s)
              /\ vpt' = mmu_map_section(vpt, base, base, dom_id) /\ VmGoto("access")
              /\ UNCHANGED <<tlb, cp15, call>>
           \/ PermFault(s) /\ ~DomainFault(s) /\ MProtect(base, 1, AP_rw, "access")

UserMProtect(n, perm) == vpc = "run" /\ MProtect(Below * OneMB + 1, n, perm, "run")

MapSection(s) ==
    /\ vpc = "run" /\ ~cp15.on
    /\ vpt' = IdentityMap(vpt, s) /\ VmGoto("run") /\ UNCHANGED <<tlb, cp15, call>>

vm_ident_mmu_on ==
    /\ vpc = "run" /\ ~cp15.on /\ VmGoto("on") /\ UNCHANGED <<vpt, tlb, cp15, call>>

\* The MMU is turned off by the program, or by reboot_callout at its end.
vm_ident_mmu_off(ret) ==
    /\ vpc = "run" /\ cp15.on /\ call' = [call EXCEPT !.ret = ret] /\ VmGoto("off")
    /\ UNCHANGED <<vpt, tlb, cp15>>

reboot_callout ==
    \/ vm_ident_mmu_off("halted")
    \/ /\ vpc = "run" /\ ~cp15.on /\ VmGoto("halted") /\ UNCHANGED <<vpt, tlb, cp15, call>>

VmRoutine ==
    \/ mmu_init \/ vm_ident_mmu_init \/ InitReturns \/ set_procid_ttbr0 \/ mmu_enable
    \/ mmu_disable \/ mmu_disable_set \/ mmu_mprotect \/ mmu_sync_pte_mods
    \/ Store \/ data_abort_vector_vm

VmNext ==
    \/ VmRoutine \/ \E s \in {Below, Stack, Free} : Walk(s)
    \/ \E a \in VmAccess, v \in 0 .. 1 : Access(a, v)
    \/ \E n \in 1 .. 2, perm \in VmPerms : UserMProtect(n, perm)
    \/ \E s \in VmMapped : MapSection(s)
    \/ vm_ident_mmu_on \/ vm_ident_mmu_off("run") \/ reboot_callout

VmSpec == VmInit /\ [][VmNext]_vm_vars /\ WF_vm_vars(VmRoutine)

-----------------------------------------------------------------------------
(* Properties. *)

\* Whenever the program runs with the MMU on, every translation that the
\* processor holds is the one in the page table, whatever it walked inside
\* mmu_mprotect, between the invalidation and the end of mmu_disable, or before
\* the restart.
TlbCoherent ==
    vpc = "run" /\ cp15.on => \A s \in Section : tlb[s] \in {None, vpt[s]}

\* What the program stored at an address is there, with the MMU on or off: the
\* sections it started with and those that data_abort_vector_vm maps are the
\* identity.
ViewKept == \A a \in VmAccess : mem[a] = written[a]

\* An access faults once if the page table denied it when it began, and not at
\* all otherwise: the handler's repair is seen by the access that is repeated.
FaultsAsTable ==
    vpc = "run" => access.faults = IF access.denied THEN 1 ELSE 0

\* The program never faults where the fault cannot be handled: before proc.pt
\* is set, or with the handler's own stack, heap or devices unmapped.
NeverLost == vpc # "lost"

\* The program sees memory as the page table in force says, whatever the
\* processor kept or walked while the table changed: no stale translation, no
\* other contents, and the faults the table demands and can handle.
SeesItsTable == TlbCoherent /\ ViewKept /\ FaultsAsTable /\ NeverLost

\* Every access is done: the handler does not return to a fault for ever.
AccessDone == vpc = "access" ~> vpc = "run"

\* A section that is marked read-only is not changed.  It does not hold: the
\* program is privileged, and AP_rd_only only denies user mode.
ReadOnlyKept ==
    [][\A a \in VmAccess : cp15.on /\ vpt[mmu_sec_num(a)].AP = AP_rd_only => mem'[a] = mem[a]]_vm_vars
=============================================================================
