-------------------------------- MODULE Emmc --------------------------------
(***************************************************************************)
(* The SD card driver (emmc.c) behind pi_sd_init, pi_sd_read and           *)
(* pi_sd_write.  The driver polls the interrupt flags of the controller,   *)
(* with a timeout on every wait, and clears them by writing them.  The     *)
(* controller and the card work meanwhile and are external: a command may  *)
(* be answered, answered late, fail or get no answer, and so may data.  A  *)
(* command written while another one is on the line is ignored.            *)
(***************************************************************************)
EXTENDS Naturals, Sequences, FiniteSets

CONSTANTS
    Sectors,      \* number of sectors of the card
    EmmcTries,    \* tries of emmc_card_reset in emmc_init (10 in the code)
    EmmcFaults,   \* bound: errors of controller and card
    EmmcLate,     \* bound: timeouts of the driver that come before an answer
    EmmcReqs      \* bound: calls of pi_sd_read and pi_sd_write

VARIABLES
    card,         \* the kind of card, its relative address, the last command was CMD55
    disk,         \* the sectors of the card
    host,         \* the controller: the command, the next sector, blocks left, a block in its buffer
    flags,        \* int_flags
    resp,         \* response[]: the command answered and what the driver tests of it
    dev,          \* device: sdhc, block_size, rca, last_error, last_response, transfer_blocks; v2_card
    epc, step,    \* where emmc_issue_command is, and for whom
    intr, blk,    \* intr_val; the block that is transferred
    ok,           \* result of emmc_issue_command
    tries, retry, \* emmc_init, do_data_command
    req, buf,     \* the request and its buffer
    shadow,       \* history: the sectors as the requests so far leave them
    faults,       \* errors so far
    silent        \* waits that timed out before the controller was done

emmc_vars == <<card, disk, host, flags, resp, dev, epc, step, intr, blk, ok, tries, retry, req, buf, shadow, faults, silent>>
emmc_hw == <<card, disk, host, flags, resp>>
emmc_call == <<intr, blk, ok>>
emmc_hist == <<shadow, faults, silent>>

Sector == 0 .. Sectors - 1
Kinds == {"v1", "v2", "sdhc"}
CmdErrors == {"CTO", "CRC"}          \* command timeout (bit 16), any other
DataErrors == {"DTO", "DCRC"}        \* data timeout (bit 20), any other
Errors == CmdErrors \cup DataErrors  \* 0xFFFF0000
Retries == 3
Reads == {"CTReadBlock", "CTReadMultiple", "CTSendSCR"}
Writes == {"CTWriteBlock", "CTWriteMultiple"}
Tested == {"CTSendIfCond", "CTSendRelativeAddr", "CTSelectCard"}

\* The table of commands: which ones transfer data, which way, or leave the card busy.
is_data(c) == c \in Reads \cup Writes
wrIrpt(c) == IF c \in Reads THEN "RR" ELSE "WR"
HasTransferComplete(c) == is_data(c) \/ c = "CTSelectCard"

Idle == [cmd |-> "none", hcs |-> FALSE, rca |-> 0, next |-> 0, left |-> 0, phase |-> "idle", slot |-> FALSE]

EmmcInit ==
    /\ card \in [kind : Kinds, rca : {0}, app : {FALSE}]
    /\ disk = [s \in Sector |-> 0] /\ shadow = disk
    /\ host = Idle /\ flags = {} /\ resp = [of |-> "none"]
    /\ dev = [sdhc |-> FALSE, block_size |-> 0, rca |-> 0, last_error |-> {}, blocks |-> 0,
              v2 |-> FALSE, response |-> [of |-> "none"]]
    /\ epc = "reset" /\ step = "reset" /\ intr = {} /\ blk = 0 /\ ok = TRUE
    /\ tries = 0 /\ retry = 0 /\ req = [op |-> "none", w |-> 0] /\ buf = <<>>
    /\ faults = 0 /\ silent = 0

-----------------------------------------------------------------------------
(* The controller and the card. *)

\* A card answers the commands that its version knows and that carry its address.
Answers ==
    CASE host.cmd = "CTSendIfCond" -> card.kind # "v1"
      [] host.cmd = "CTIOSetOpCond" -> FALSE
      [] host.cmd = "CTApp" -> host.rca = card.rca
      [] OTHER -> TRUE

\* The answers to the operating conditions: a card of high capacity is not ready
\* for a host that does not support it.
OcrAnswers ==
    [of : {"CTOcrCheck"}, good : {TRUE}, ccs : {host.hcs /\ card.kind = "sdhc"},
     ready : IF card.kind = "sdhc" /\ ~host.hcs THEN {FALSE} ELSE BOOLEAN]

EmmcFault(n) == /\ faults + n <= EmmcFaults /\ faults' = faults + n

\* The command is answered; good: the answer is the one the driver wants.
CommandComplete ==
    /\ host.phase = "cmd" /\ Answers
    /\ \E good \in BOOLEAN :
          /\ EmmcFault(IF good THEN 0 ELSE 1) /\ (~good => host.cmd \in Tested)
          /\ resp' \in IF host.cmd = "CTOcrCheck" THEN OcrAnswers
                       ELSE [of : {host.cmd}, good : {good}, ccs : {FALSE}, ready : {FALSE}]
    /\ flags' = flags \cup {"CC"}
    /\ card' = [card EXCEPT !.app = host.cmd = "CTApp",
                            !.rca = IF host.cmd = "CTGoIdle" THEN 0
                                    ELSE IF host.cmd = "CTSendRelativeAddr" THEN 1 ELSE @]
    /\ host' = [host EXCEPT !.phase = IF is_data(host.cmd) THEN "data"
                                      ELSE IF HasTransferComplete(host.cmd) THEN "busy" ELSE "idle"]
    /\ UNCHANGED <<disk, dev, epc, step, emmc_call, tries, retry, req, buf, shadow, silent>>

CommandError ==
    /\ host.phase = "cmd"
    /\ \E e \in CmdErrors :
          /\ EmmcFault(IF Answers THEN 1 ELSE 0) /\ (~Answers => e = "CTO")
          /\ flags' = flags \cup {e}
    /\ host' = Idle
    /\ UNCHANGED <<card, disk, resp, dev, epc, step, emmc_call, tries, retry, req, buf, shadow, silent>>

BlockReady ==
    /\ host.phase = "data" /\ host.left > 0 /\ ~host.slot
    /\ host' = [host EXCEPT !.slot = TRUE] /\ flags' = flags \cup {wrIrpt(host.cmd)}
    /\ UNCHANGED <<card, disk, resp, dev, epc, step, emmc_call, tries, retry, req, buf, emmc_hist>>

\* A card that is busy for long may also cause a data timeout.
TransferComplete ==
    /\ host.phase = "busy" \/ (host.phase = "data" /\ host.left = 0)
    /\ \E late \in BOOLEAN :
          /\ EmmcFault(IF late THEN 1 ELSE 0)
          /\ flags' = flags \cup {"TC"} \cup (IF late THEN {"DTO"} ELSE {})
    /\ host' = Idle
    /\ UNCHANGED <<card, disk, resp, dev, epc, step, emmc_call, tries, retry, req, buf, shadow, silent>>

\* The controller holds one block; what fails is the block behind it.
DataError ==
    /\ host.phase \in {"data", "busy"} /\ ~host.slot /\ EmmcFault(1)
    /\ \E e \in DataErrors : flags' = flags \cup {e}
    /\ host' = Idle
    /\ UNCHANGED <<card, disk, resp, dev, epc, step, emmc_call, tries, retry, req, buf, shadow, silent>>

\* The controller has something to do that does not depend on the driver.
Working == host.phase # "idle" /\ ~host.slot

Hardware == CommandComplete \/ CommandError \/ BlockReady \/ TransferComplete \/ DataError
-----------------------------------------------------------------------------
(* emmc_issue_command.  A wait ends with the flags it waits for or without. *)

Multiple(r) == r.n > 1

\* The command of a step: of emmc_card_reset, or of do_data_command.
CommandOf(s) ==
    CASE s = "go_idle" -> "CTGoIdle" [] s = "if_cond" -> "CTSendIfCond"
      [] s = "io_cond" -> "CTIOSetOpCond" [] s \in {"ocr_app", "hcs_app", "scr_app"} -> "CTApp"
      [] s \in {"ocr", "hcs"} -> "CTOcrCheck" [] s = "cid" -> "CTSendCide"
      [] s = "rca" -> "CTSendRelativeAddr" [] s = "select" -> "CTSelectCard"
      [] s = "block_len" -> "CTSetBlockLen" [] s = "scr" -> "CTSendSCR"
      [] s = "data" -> IF req.op = "write" THEN (IF Multiple(req) THEN "CTWriteMultiple" ELSE "CTWriteBlock")
                       ELSE (IF Multiple(req) THEN "CTReadMultiple" ELSE "CTReadBlock")

block_no(lba) == IF dev.sdhc THEN lba ELSE lba * 512

\* The sector a card takes an argument for.
SectorOf(arg) == IF card.kind = "sdhc" THEN arg ELSE arg \div 512

Issue ==
    /\ epc = "issue" /\ epc' = "wait_cmd"
    /\ host' = IF host.phase # "idle" THEN host
               ELSE [cmd |-> CommandOf(step), phase |-> "cmd", slot |-> FALSE, rca |-> dev.rca,
                     hcs |-> step = "hcs" /\ dev.v2,
                     next |-> IF step = "data" THEN SectorOf(block_no(req.lba)) ELSE 0,
                     left |-> IF CommandOf(step) \in {"CTReadMultiple", "CTWriteMultiple"} THEN dev.blocks ELSE 1]
    /\ UNCHANGED <<card, disk, flags, resp, dev, step, emmc_call, tries, retry, req, buf, emmc_hist>>

\* A timeout, with or without the controller still at work.
TimedOut == silent' = (IF Working THEN silent + 1 ELSE silent) /\ silent' <= EmmcLate

\* Returns true: one of the flags in mask is set, false: the wait has timed out.
wait_reg_mask(mask) ==
    \/ flags \cap mask # {} /\ UNCHANGED silent
    \/ flags \cap mask = {} /\ TimedOut

Wait(from, mask, to) ==
    /\ epc = from /\ wait_reg_mask(mask) /\ intr' = flags /\ epc' = to
    /\ UNCHANGED <<emmc_hw, dev, step, blk, ok, tries, retry, req, buf, shadow, faults>>

WaitCommand ==
    \/ flags \cap (Errors \cup {"CC"}) # {} /\ Wait("wait_cmd", Errors \cup {"CC"}, "clear_cmd")
    \/ /\ epc = "wait_cmd" /\ flags \cap (Errors \cup {"CC"}) = {} /\ TimedOut
       /\ ok' = FALSE /\ epc' = "ret"
       /\ UNCHANGED <<emmc_hw, dev, step, intr, blk, tries, retry, req, buf, shadow, faults>>

\* 0xFFFF0001 is cleared; an error that came since the read of the flags is lost.
ClearCommand ==
    /\ epc = "clear_cmd" /\ flags' = flags \ (Errors \cup {"CC"})
    /\ ok' = (intr \cap Errors = {})
    /\ IF ok' THEN /\ dev' = [dev EXCEPT !.response = resp] /\ blk' = 0
                   /\ epc' = IF is_data(CommandOf(step)) THEN "wait_data"
                             ELSE IF HasTransferComplete(CommandOf(step)) THEN "wait_done" ELSE "ret"
       ELSE /\ dev' = [dev EXCEPT !.last_error = intr \cap Errors]
            /\ epc' = "ret" /\ UNCHANGED blk
    /\ UNCHANGED <<card, disk, host, resp, step, intr, tries, retry, req, buf, emmc_hist>>

Ready == wrIrpt(CommandOf(step))
WaitData == blk < dev.blocks /\ Wait("wait_data", Errors \cup {Ready}, "clear_data")

\* The words of a block go through the data register.
MoveBlock ==
    /\ host' = IF host.slot THEN [host EXCEPT !.slot = FALSE, !.left = @ - 1, !.next = @ + 1] ELSE host
    /\ disk' = IF host.slot /\ host.cmd \in Writes THEN [disk EXCEPT ![host.next] = req.w] ELSE disk
    /\ buf' = IF step = "data" /\ req.op = "read" /\ host.slot
              THEN [buf EXCEPT ![blk + 1] = <<disk[host.next]>>] ELSE buf

\* One round of do_data_transfer, whose result nobody looks at.
do_data_transfer ==
    /\ epc = "clear_data" /\ flags' = flags \ {Ready}
    /\ IF intr \cap (Errors \cup {Ready}) = {Ready}
       THEN MoveBlock /\ blk' = blk + 1 /\ epc' = "wait_data" /\ UNCHANGED dev
       ELSE /\ dev' = [dev EXCEPT !.last_error = intr \cap Errors] /\ epc' = "wait_done"
            /\ UNCHANGED <<host, disk, buf, blk>>
    /\ UNCHANGED <<card, resp, step, intr, ok, tries, retry, req, emmc_hist>>

WaitDone ==
    \/ epc = "wait_done" /\ Wait("wait_done", Errors \cup {"TC"}, "clear_done")
    \/ epc = "wait_data" /\ blk = dev.blocks /\ Wait("wait_data", Errors \cup {"TC"}, "clear_done")

\* Mutant: the flags at the end are not looked at.
DoneUnchecked ==
    /\ epc = "clear_done" /\ flags' = flags \ (Errors \cup {"TC"}) /\ epc' = "ret"
    /\ ok' = TRUE
    /\ UNCHANGED <<card, disk, host, resp, dev, step, intr, blk, tries, retry, req, buf, emmc_hist>>

\* A transfer that is complete counts as done although there was a data timeout.
ClearDone ==
    /\ epc = "clear_done" /\ flags' = flags \ (Errors \cup {"TC"}) /\ epc' = "ret"
    /\ ok' = (intr \cap (Errors \cup {"TC"}) \in {{"TC"}, {"TC", "DTO"}})
    /\ dev' = IF ok' THEN dev ELSE [dev EXCEPT !.last_error = intr \cap Errors]
    /\ UNCHANGED <<card, disk, host, resp, step, intr, blk, tries, retry, req, buf, emmc_hist>>

emmc_issue_command ==
    Issue \/ WaitCommand \/ ClearCommand \/ WaitData \/ do_data_transfer \/ WaitDone \/ ClearDone
-----------------------------------------------------------------------------
(* The clock, in units of 10 MHz. *)

TARGET_RATE == 5      \* SD_CLOCK_HIGH
HighBit(x) == CHOOSE b \in 0 .. 29 : 2 ^ b <= x /\ x < 2 ^ (b + 1)

\* The bits of the divider: rounded up to a power of two, 31 for none.
DividerBits(t) == IF t = 0 THEN 31 ELSE HighBit(t) + (IF t = 2 ^ HighBit(t) THEN 0 ELSE 1)

\* The divider as control[1] has it, ten bits in two fields.
get_clock_divider(base_clock) ==
    LET t == IF TARGET_RATE > base_clock THEN 1
             ELSE IF base_clock % TARGET_RATE # 0 THEN 0 ELSE base_clock \div TARGET_RATE
        b == DividerBits(t)
        div == IF b = 0 THEN 0 ELSE IF b > 10 THEN 1023 ELSE 2 ^ (b - 1)
    IN  (div % 256) * 256 + ((div \div 256) % 4) * 64

\* What the controller makes of it: twice the number of base clocks in a cycle, 0 for one.
ClockCycles(reg) ==
    LET n == (reg \div 256) + 256 * ((reg \div 64) % 4) IN IF n = 0 THEN 1 ELSE 2 * n

-----------------------------------------------------------------------------
(* emmc_init. *)

\* A register does not become what it should.
Unanswered == silent' = silent + 1 /\ silent' <= EmmcLate

GoOn(s) == step' = s /\ epc' = "issue" /\ UNCHANGED tries

\* The next try of emmc_init, or panic in pi_sd_init.
ResetFails ==
    /\ step' = "reset" /\ tries' = tries + 1
    /\ epc' = IF tries' < EmmcTries THEN "reset" ELSE "panic"

\* The wait for a stable clock succeeds or times out.
emmc_setup_clock(stable) == IF stable THEN UNCHANGED silent ELSE Unanswered

\* The host is reset and the clock set up, either of which may time out.
emmc_card_reset ==
    /\ epc = "reset" /\ host' = Idle
    /\ \/ /\ emmc_setup_clock(TRUE) /\ GoOn("go_idle") /\ flags' = {}
          /\ dev' = [dev EXCEPT !.blocks = 0, !.block_size = 0]
       \/ /\ emmc_setup_clock(FALSE) /\ ResetFails /\ UNCHANGED <<dev, flags>>
    /\ UNCHANGED <<card, disk, resp, emmc_call, retry, req, buf, shadow, faults>>

\* A command of emmc_card_reset returns, and only the driver's state changes.
Returned(s) ==
    /\ epc = "ret" /\ step = s
    /\ UNCHANGED <<card, disk, resp, emmc_call, retry, req, buf, shadow, faults>>

\* The command line is reset and the timeout cleared; the former may time out.
reset_command == host' = IF host.phase = "cmd" THEN Idle ELSE host

Simple(s, next) ==
    /\ Returned(s) /\ UNCHANGED <<host, flags, dev, silent>>
    /\ IF ok THEN GoOn(next) ELSE ResetFails

\* The caller goes on whatever the result; any failure makes it a card of version 1.
check_v2_card ==
    /\ Returned("if_cond") /\ GoOn("io_cond")
    /\ dev' = [dev EXCEPT !.v2 = ok /\ dev.response.good]
    /\ IF ~ok /\ "CTO" \in dev.last_error
       THEN \/ reset_command /\ flags' = flags \ {"CTO"} /\ UNCHANGED silent
            \/ Unanswered /\ UNCHANGED <<host, flags>>
       ELSE UNCHANGED <<host, flags, silent>>

\* last_error is not reset when the wait for the command times out.
check_usable_card ==
    /\ Returned("io_cond") /\ UNCHANGED dev
    /\ CASE ok \/ dev.last_error = {} -> GoOn("ocr_app") /\ UNCHANGED <<host, flags, silent>>
         [] ~ok /\ "CTO" \in dev.last_error ->
               \/ GoOn("ocr_app") /\ reset_command /\ flags' = flags \ {"CTO"} /\ UNCHANGED silent
               \/ ResetFails /\ Unanswered /\ UNCHANGED <<host, flags>>
         [] OTHER -> ResetFails /\ UNCHANGED <<host, flags, silent>>

\* Mutant: a failure is taken for a card without operating conditions.
OcrUnchecked ==
    \E p \in {<<"ocr_app", "ocr">>, <<"ocr", "hcs_app">>} :
        Returned(p[1]) /\ GoOn(p[2]) /\ UNCHANGED <<host, flags, dev, silent>>

\* CMD55, then the command itself; the first failure is final.
check_ocr == Simple("ocr_app", "ocr") \/ Simple("ocr", "hcs_app")

\* Until the card is ready.
check_sdhc_support ==
    \/ Simple("hcs_app", "hcs")
    \/ /\ Returned("hcs") /\ UNCHANGED <<host, flags, silent>>
       /\ CASE ~ok -> ResetFails /\ UNCHANGED dev
            [] ok /\ ~dev.response.ready -> GoOn("hcs_app") /\ UNCHANGED dev
            [] OTHER -> GoOn("cid") /\ dev' = [dev EXCEPT !.sdhc = dev.response.ccs]

\* The address is kept although the answer is refused.
check_rca ==
    \/ Simple("cid", "rca")
    \/ /\ Returned("rca") /\ UNCHANGED <<host, flags, silent>>
       /\ dev' = IF ok THEN [dev EXCEPT !.rca = 1] ELSE dev
       /\ IF ok /\ dev.response.good THEN GoOn("select") ELSE ResetFails

select_card ==
    /\ Returned("select") /\ UNCHANGED <<host, flags, silent>>
    /\ IF ok /\ dev.response.good THEN GoOn(IF dev.sdhc THEN "scr_app" ELSE "block_len") ELSE ResetFails
    /\ dev' = IF ok /\ dev.response.good /\ dev.sdhc THEN [dev EXCEPT !.block_size = 8, !.blocks = 1] ELSE dev

\* The configuration register is read as one block of 8 bytes.
set_scr ==
    \/ /\ Returned("block_len") /\ UNCHANGED <<host, flags, silent>>
       /\ IF ok THEN GoOn("scr_app") ELSE ResetFails
       /\ dev' = IF ok THEN [dev EXCEPT !.block_size = 8, !.blocks = 1] ELSE dev
    \/ Simple("scr_app", "scr")
    \/ /\ Returned("scr") /\ UNCHANGED <<host, silent>>
       /\ IF ok THEN /\ epc' = "idle" /\ flags' = {} /\ dev' = [dev EXCEPT !.block_size = 512]
                     /\ UNCHANGED <<step, tries>>
          ELSE ResetFails /\ UNCHANGED <<flags, dev>>

CardReset ==
    \/ emmc_card_reset \/ Simple("go_idle", "if_cond") \/ check_v2_card \/ check_usable_card
    \/ check_ocr \/ check_sdhc_support \/ check_rca \/ select_card \/ set_scr

-----------------------------------------------------------------------------
(* pi_sd_read and pi_sd_write. *)

\* The blocks to transfer are counted in sectors of 512 bytes, which is asserted.
Request(op, lba, n) ==
    /\ epc = "idle" /\ req.w < EmmcReqs /\ lba + n <= Sectors
    /\ req' = [op |-> op, lba |-> lba, n |-> n, since |-> faults, w |-> req.w + 1]
    /\ shadow' = IF op = "write" THEN [s \in Sector |-> IF s \in lba .. lba + n - 1 THEN req'.w ELSE shadow[s]]
                 ELSE shadow
    /\ dev' = [dev EXCEPT !.blocks = n] /\ retry' = 0 /\ buf' = [i \in 1 .. n |-> <<>>]
    /\ step' = "data" /\ epc' = IF dev.block_size = 512 THEN "issue" ELSE "panic"
    /\ UNCHANGED <<emmc_hw, emmc_call, tries, faults, silent>>

pi_sd_read == \E lba \in Sector, n \in 1 .. 2 : Request("read", lba, n)
pi_sd_write == \E lba \in Sector, n \in 1 .. 2 : Request("write", lba, n)

\* Mutant: a failed command is repeated for ever.
RepeatsForEver ==
    /\ epc = "ret" /\ step = "data"
    /\ epc' = (IF ok THEN "idle" ELSE "issue") /\ UNCHANGED retry
    /\ UNCHANGED <<emmc_hw, dev, step, emmc_call, tries, req, buf, emmc_hist>>

\* A failed command is repeated; after the last one pi_sd_read and pi_sd_write panic.
do_data_command ==
    /\ epc = "ret" /\ step = "data"
    /\ IF ok THEN epc' = "idle" /\ UNCHANGED retry
       ELSE retry' = retry + 1 /\ epc' = IF retry' < Retries THEN "issue" ELSE "panic"
    /\ UNCHANGED <<emmc_hw, dev, step, emmc_call, tries, req, buf, emmc_hist>>

EmmcDriver == emmc_issue_command \/ CardReset \/ do_data_command
EmmcNext == Hardware \/ EmmcDriver \/ pi_sd_read \/ pi_sd_write

EmmcSpec == EmmcInit /\ [][EmmcNext]_emmc_vars /\ WF_emmc_vars(EmmcDriver) /\ WF_emmc_vars(Hardware)

-----------------------------------------------------------------------------
(* Properties. *)

\* ReadsRight for errors and late answers together.  It does not hold: a late
\* completion is taken for that of the next request, whose data error is cleared
\* unseen, and the request counts as done without its data.
ReadsRightAlways ==
    epc = "idle" /\ req.op = "read" => \A i \in 1 .. req.n : buf[i] = <<disk[req.lba + i - 1]>>

\* Reported errors alone, or one late answer alone.
OneKindOfFault == silent = 0 \/ (faults = 0 /\ silent = 1)

\* A read that returns has filled its buffer with the sectors asked for, one
\* after the other, whatever failed, or came late and was repeated, on the way,
\* and although the result of do_data_transfer is ignored.
ReadsRight == OneKindOfFault => ReadsRightAlways

\* A write that returns has changed all its sectors, and at no time is a sector
\* changed that was not to be written.
WritesRight ==
    /\ OneKindOfFault /\ epc = "idle" => disk = shadow
    /\ \A s \in Sector : disk[s] # shadow[s] => req.op = "write" /\ s \in req.lba .. req.lba + req.n - 1

\* Data errors, timeouts and repeated commands never show in the data.
DataRight == ReadsRight /\ WritesRight

\* An answer that is tested is the answer to the command it is tested for, also
\* after one command has timed out and is answered late; two of them may leave
\* the driver one answer behind.
ResponseIsOwn ==
    silent <= 1 /\ epc = "ret" /\ ok /\ step \in {"if_cond", "hcs", "rca", "select"}
        => dev.response.of = CommandOf(step)

\* While controller and card do not fail, every kind of card is set up in the
\* first try and no request panics; the assertion on the block size holds always.
WorksWithoutFault ==
    /\ faults = 0 /\ silent = 0 => tries = 0 /\ epc # "panic"
    /\ epc = "idle" => dev.block_size = 512

\* Reported errors are masked by retries: a request is given up only after as
\* many errors as it may be tried.
GivesUpLate == epc = "panic" /\ step = "data" /\ silent = 0 => faults - req.since >= Retries

\* Faults are masked as far as the retries reach: none is made up, no answer is
\* taken for that of another command, and nothing is given up early.
FaultsMasked == ResponseIsOwn /\ WorksWithoutFault /\ GivesUpLate

\* A request ends, whatever the controller does: every wait has a timeout.
RequestEnds == (step = "data" /\ epc # "idle") ~> (epc \in {"idle", "panic"})

\* A card of high capacity is asked for its operating conditions as one; else it
\* is never ready and check_sdhc_support waits for ever.  It does not hold: when
\* the answer to SEND_IF_COND is disturbed, the card is taken for version 1.
AskedForCapacity == step = "hcs" /\ card.kind = "sdhc" => dev.v2

\* emmc_init survives one reported error.  It does not hold: a try that fails
\* after check_rca leaves device.rca, with which the reset card is not addressed.
InitRetries == epc = "panic" /\ step = "reset" /\ silent = 0 => faults > 1
=============================================================================
