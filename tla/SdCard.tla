------------------------------- MODULE SdCard -------------------------------
(***************************************************************************)
(* The SD card driver, src/src/filesystem/block_interface.c: bringing a    *)
(* card up, and moving blocks.  The card is outside: it takes a command in *)
(* some of the states of the SD protocol and is silent in the others.      *)
(* Every command may also be lost, or taken without an answer getting      *)
(* through, and every wait may time out.                                   *)
(***************************************************************************)
EXTENDS Integers, Sequences

CONSTANTS
    Tries,          \* attempts to make the card ready (1000 in the code)
    SectorSize,     \* units of address in a block, on a standard capacity card
    MaxLba,         \* blocks are 0..MaxLba (a bound)
    MaxCount        \* longest transfer, in blocks (a bound)

ASSUME CardAssumption ==
    /\ Tries \in Nat \ {0} /\ SectorSize \in Nat \ {0, 1}
    /\ MaxLba \in Nat /\ MaxCount \in Nat

VARIABLES
    card,       \* the card: its state, kind and block length
    stage,      \* the step the driver is at
    timeout,    \* attempts left, -1 once the counter has wrapped
    isSdhc,     \* is_sdhc
    request,    \* the transfer under way, or the last one
    moved,      \* the blocks the card moved for it
    result      \* what it returned: "none", "done" or "error"

sdvars == <<card, stage, timeout, isSdhc, request, moved, result>>

NoRequest == [write |-> FALSE, lba |-> 0, count |-> 0]

CardInit ==
    /\ card \in [state : {"off"}, sdhc : BOOLEAN, blocks512 : BOOLEAN]
    /\ stage = "reset"
    /\ timeout = Tries
    /\ isSdhc = FALSE
    /\ request = NoRequest
    /\ moved = <<>>
    /\ result = "none"

----------------------------------------------------------------------------
(* The card *)

(* The states in which it takes a command, and the state it goes to.       *)
After == [
    CMD0   |-> [s \in {"off", "idle", "ready", "ident", "stby", "tran", "data", "rcv"} |-> "idle"],
    CMD8   |-> [s \in {"idle"} |-> s],
    CMD55  |-> [s \in {"idle", "stby", "tran", "data", "rcv"} |-> s],
    ACMD41 |-> [s \in {"idle"} |-> s],
    CMD2   |-> [s \in {"ready"} |-> "ident"],
    CMD3   |-> [s \in {"ident", "stby"} |-> "stby"],
    CMD7   |-> [s \in {"stby"} |-> "tran"],
    CMD16  |-> [s \in {"tran"} |-> s],
    CMD18  |-> [s \in {"tran"} |-> "data"],
    CMD25  |-> [s \in {"tran"} |-> "rcv"],
    CMD12  |-> [s \in {"data", "rcv"} |-> "tran"]]

Takes(cmd) == card.state \in DOMAIN After[cmd]
Taken(cmd) == [card EXCEPT !.state = After[cmd][card.state],
                           !.blocks512 = @ \/ cmd = "CMD16"]

(* send_cmd returns 0. *)
Sent(cmd) == Takes(cmd) /\ card' = Taken(cmd)

(* It returns -1; the card may have taken the command.                     *)
NotSent(cmd) == card' = card \/ Sent(cmd)

----------------------------------------------------------------------------
(* sd_init *)

(* The steps that only send a command, and the next step.                  *)
Steps == [cmd0 |-> [cmd |-> "CMD0", next |-> "cmd8"],
          cmd8 |-> [cmd |-> "CMD8", next |-> "try"],
          cmd2 |-> [cmd |-> "CMD2", next |-> "cmd3"],
          cmd3 |-> [cmd |-> "CMD3", next |-> "cmd7"],
          cmd7 |-> [cmd |-> "CMD7", next |-> "busy"],
          cmd16 |-> [cmd |-> "CMD16", next |-> "fast"]]

Reset ==
    /\ stage = "reset"
    /\ stage' \in {"clock", "failed"}
    /\ UNCHANGED <<card, timeout, isSdhc, request, moved, result>>

IdentificationClock ==
    /\ stage = "clock"
    /\ stage' \in {"cmd0", "failed"}
    /\ UNCHANGED <<card, timeout, isSdhc, request, moved, result>>

Command ==
    /\ stage \in DOMAIN Steps
    /\ \/ Sent(Steps[stage].cmd) /\ stage' = Steps[stage].next
       \/ NotSent(Steps[stage].cmd) /\ stage' = "failed"
    /\ UNCHANGED <<timeout, isSdhc, request, moved, result>>

(* while (timeout--): when no attempt is left the counter wraps, so that   *)
(* the check behind the loop passes.                                       *)
Try ==
    /\ stage = "try"
    /\ IF timeout = 0
       THEN timeout' = -1 /\ stage' = "check" /\ UNCHANGED card
       ELSE /\ timeout' = timeout - 1
            /\ \/ Sent("CMD55") /\ stage' = "acmd41"
               \/ NotSent("CMD55") /\ stage' = "try"
    /\ UNCHANGED <<isSdhc, request, moved, result>>

(* The card says whether it is ready, and of which kind it is.  When that  *)
(* answer is lost nobody asks again: a card that is ready takes no CMD55,  *)
(* and the loop goes on until its counter wraps.                           *)
BecomesReady == Takes("ACMD41") /\ card' = [card EXCEPT !.state = "ready"]

Acmd41 ==
    /\ stage = "acmd41"
    /\ \/ /\ NotSent("ACMD41") \/ Sent("ACMD41") \/ BecomesReady
          /\ stage' = "try" /\ UNCHANGED isSdhc
       \/ BecomesReady /\ isSdhc' = card.sdhc /\ stage' = "check"
    /\ UNCHANGED <<timeout, request, moved, result>>

Check ==
    /\ stage = "check"
    /\ stage' = IF timeout = 0 THEN "failed" ELSE "cmd2"
    /\ UNCHANGED <<card, timeout, isSdhc, request, moved, result>>

(* The card is selected and no longer busy.                                *)
Busy ==
    /\ stage = "busy"
    /\ stage' \in {"failed", IF isSdhc THEN "fast" ELSE "cmd16"}
    /\ UNCHANGED <<card, timeout, isSdhc, request, moved, result>>

TransferClock ==
    /\ stage = "fast"
    /\ stage' \in {"up", "failed"}
    /\ UNCHANGED <<card, timeout, isSdhc, request, moved, result>>

----------------------------------------------------------------------------
(* block_read_multi and block_write_multi *)

Addr(lba) == IF isSdhc THEN lba ELSE lba * SectorSize

(* The block that a card finds at an address.                              *)
BlockAt(addr) == IF card.sdhc THEN addr ELSE addr \div SectorSize

TransferCommand(write) == IF write THEN "CMD25" ELSE "CMD18"

Ends(how) == result' = how /\ stage' = "up"

Begin ==
    /\ stage = "up"
    /\ \E write \in BOOLEAN, lba \in 0..MaxLba, count \in 1..MaxCount :
         /\ request' = [write |-> write, lba |-> lba, count |-> count]
         /\ \/ Sent(TransferCommand(write)) /\ stage' = "blocks" /\ result' = "none"
            \/ NotSent(TransferCommand(write)) /\ Ends("error")
    /\ moved' = <<>>
    /\ UNCHANGED <<timeout, isSdhc>>

(* A block that times out stops the transfer: the controller is reset, the *)
(* card is not.                                                            *)
Block ==
    /\ stage = "blocks" /\ Len(moved) < request.count
    /\ \/ moved' = Append(moved, BlockAt(Addr(request.lba)) + Len(moved))
          /\ UNCHANGED <<stage, result>>
       \/ Ends("error") /\ UNCHANGED moved
    /\ UNCHANGED <<card, timeout, isSdhc, request>>

DataDoneWithoutStop ==
    /\ stage = "blocks" /\ Len(moved) = request.count
    /\ Ends("done") \/ Ends("error")
    /\ UNCHANGED <<card, timeout, isSdhc, request, moved>>

(* INT_DATA_DONE, or not. *)
DataDone ==
    /\ stage = "blocks" /\ Len(moved) = request.count
    /\ \/ stage' = "cmd12" /\ UNCHANGED result
       \/ Ends("error")
    /\ UNCHANGED <<card, timeout, isSdhc, request, moved>>

Stop ==
    /\ stage = "cmd12"
    /\ \/ Sent("CMD12") /\ Ends("done")
       \/ NotSent("CMD12") /\ Ends("error")
    /\ UNCHANGED <<timeout, isSdhc, request, moved>>

SdInit == Reset \/ IdentificationClock \/ Command \/ Try \/ Acmd41 \/ Check
            \/ Busy \/ TransferClock
BlockTransfer == Begin \/ Block \/ DataDone \/ Stop

CardNext == SdInit \/ BlockTransfer

CardSpec == CardInit /\ [][CardNext]_sdvars

----------------------------------------------------------------------------
(* Properties *)

(* The loop of sd_init ended with the card's answer.  When it ran out of   *)
(* attempts instead, and the card became ready while its answer was lost,  *)
(* sd_init passes with is_sdhc = 0, and a card of high capacity is then    *)
(* addressed in bytes: of such a card the driver promises nothing below.   *)
KnowsTheCard == timeout # -1 \/ ~card.sdhc

(* A driver that is up has a selected card that takes transfers, in blocks *)
(* of 512 bytes, and after an answer knows of which kind it is: also after *)
(* each transfer that is not reported as failed.  (After an error the card *)
(* may be left in the middle of a transfer, which nothing ends: CMD12 only *)
(* follows a success.)                                                     *)
UpMeansReady ==
    stage = "up" /\ result # "error" =>
        /\ card.state = "tran"
        /\ KnowsTheCard => isSdhc = card.sdhc
        /\ ~card.sdhc => card.blocks512

(* A transfer that is reported as done moved the blocks asked for, all of  *)
(* them and in order.                                                      *)
DoneMeansMoved ==
    result = "done" /\ KnowsTheCard =>
        moved = [i \in 1..request.count |-> request.lba + i - 1]

(* The driver knows the state of the card, and moves the blocks it was     *)
(* asked to move, except from a card of high capacity whose answer sd_init *)
(* never got (block_interface.c:383-404).                                  *)
CardIsServed == UpMeansReady /\ DoneMeansMoved
=============================================================================
