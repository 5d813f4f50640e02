---------------------------- MODULE DriverProofs ----------------------------
(***************************************************************************)
(* What the drivers promise, for every value of their constants: the SD    *)
(* card is served in whole blocks and in the units its kind counts in, the *)
(* USB devices that are polled are the ones they are taken for, keys       *)
(* arrive, and the screen shows what was drawn.                            *)
(***************************************************************************)
EXTENDS SdCard, Usb, Screen, FiniteSetTheorems, SequenceLemmas

(***************************************************************************)
(* The SD card: what the driver knows of the card at each stage.           *)
(***************************************************************************)
CardStates == {"off", "idle", "ready", "ident", "stby", "tran", "data", "rcv"}

Addressing == {"cmd3", "cmd7", "busy", "cmd16", "fast"}
Serving    == {"up", "blocks", "cmd12"}

CardTypeOK ==
  /\ card \in [state : CardStates, sdhc : BOOLEAN, blocks512 : BOOLEAN]
  /\ stage \in {"reset", "clock", "cmd0", "cmd8", "try", "acmd41", "check", "cmd2", "failed"}
                 \cup Addressing \cup Serving
  /\ timeout \in Int /\ isSdhc \in BOOLEAN
  /\ request \in [write : BOOLEAN, lba : Nat, count : Nat]
  /\ moved \in Seq(Int) /\ Len(moved) \in Nat
  /\ result \in {"none", "done", "error"}

(* The state the card is in at each stage, and the kind the driver takes it *)
(* for from the moment the card has told.                                  *)
StateIsKnown ==
  /\ stage \in {"reset", "clock", "cmd0"} => card.state = "off"
  /\ stage \in {"cmd8", "acmd41"} => card.state = "idle"
  /\ stage = "try" => card.state \in {"idle", "ready"}
  /\ stage \in {"check", "cmd2"} => card.state \in {"idle", "ready"}
  /\ stage = "cmd3" => card.state = "ident"
  /\ stage = "cmd7" => card.state = "stby"
  /\ stage \in {"busy", "cmd16", "fast"} => card.state = "tran"
  /\ stage \in {"blocks", "cmd12"} =>
       card.state = IF request.write THEN "rcv" ELSE "data"
  /\ stage = "up" /\ result # "error" => card.state = "tran"

KindIsKnown ==
  /\ stage \in {"reset", "clock", "cmd0", "cmd8", "try", "acmd41"} => ~isSdhc
  /\ stage \in {"check", "cmd2"} \cup Addressing \cup Serving =>
       (KnowsTheCard => isSdhc = card.sdhc)
  /\ stage \in {"fast"} \cup Serving => card.sdhc \/ card.blocks512

(* What was moved is the beginning of what was asked for, if the kind of   *)
(* the card is known.                                                      *)
MovedInOrder ==
  /\ stage \notin Serving => result = "none" /\ moved = <<>>
  /\ stage \in Serving =>
       /\ Len(moved) <= request.count
       /\ KnowsTheCard => \A i \in 1..Len(moved) : moved[i] = request.lba + i - 1
  /\ stage = "cmd12" \/ result = "done" => Len(moved) = request.count
  /\ stage = "blocks" => result = "none"

CardInv == CardTypeOK /\ StateIsKnown /\ KindIsKnown /\ MovedInOrder

(* Where a command that the card takes leads it.                           *)
LEMMA CommandTaken ==
    ASSUME NEW cmd \in DOMAIN After, CardTypeOK, Sent(cmd)
    PROVE  /\ card.state \in DOMAIN After[cmd]
           /\ card'.state = After[cmd][card.state]
           /\ card'.sdhc = card.sdhc
           /\ card'.blocks512 = (card.blocks512 \/ cmd = "CMD16")
           /\ card' \in [state : CardStates, sdhc : BOOLEAN, blocks512 : BOOLEAN]
<1>1. card' = [card EXCEPT !.state = After[cmd][card.state],
                           !.blocks512 = card.blocks512 \/ cmd = "CMD16"]
  BY DEF Sent, Taken
<1>2. card.state \in DOMAIN After[cmd]
  BY DEF Sent, Takes
<1>3. After[cmd][card.state] \in CardStates
  BY <1>2 DEF After, CardStates, CardTypeOK
<1> QED BY <1>1, <1>2, <1>3 DEF CardTypeOK

LEMMA CommandNotTaken ==
    ASSUME NEW cmd \in DOMAIN After, CardTypeOK, NotSent(cmd)
    PROVE  /\ card' \in [state : CardStates, sdhc : BOOLEAN, blocks512 : BOOLEAN]
           /\ card'.sdhc = card.sdhc
           /\ card.blocks512 => card'.blocks512
           /\ \/ card' = card
              \/ /\ card.state \in DOMAIN After[cmd]
                 /\ card'.state = After[cmd][card.state]
<1>1. CASE card' = card
  BY <1>1 DEF CardTypeOK
<1>2. CASE Sent(cmd)
  BY <1>2, CommandTaken
<1> QED BY <1>1, <1>2 DEF NotSent

LEMMA InitCardInv == CardInit => CardInv
<1> SUFFICES ASSUME CardInit PROVE CardInv
  OBVIOUS
<1> USE DEF CardInit
<1>1. /\ card \in [state : CardStates, sdhc : BOOLEAN, blocks512 : BOOLEAN]
      /\ card.state = "off"
  BY DEF CardStates
<1>2. request \in [write : BOOLEAN, lba : Nat, count : Nat]
  BY DEF NoRequest
<1>3. moved \in Seq(Int) /\ Len(moved) = 0
  OBVIOUS
<1>4. /\ stage = "reset" /\ timeout \in Int /\ isSdhc = FALSE /\ result = "none"
      /\ moved = <<>>
  BY CardAssumption
<1> HIDE DEF CardInit
<1>6. CardTypeOK
  BY <1>1, <1>2, <1>3, <1>4 DEF CardTypeOK
<1>5. StateIsKnown /\ KindIsKnown /\ MovedInOrder
  BY <1>1, <1>3, <1>4 DEF StateIsKnown, KindIsKnown, MovedInOrder, Addressing, Serving
<1> QED BY <1>5, <1>6 DEF CardInv

(* A block the card is asked for by address is the block itself.           *)
LEMMA BlockFound ==
    ASSUME NEW lba \in Nat, isSdhc = card.sdhc, card.sdhc \in BOOLEAN
    PROVE  BlockAt(Addr(lba)) = lba
<1>1. CASE card.sdhc
  BY <1>1 DEF BlockAt, Addr
<1>2. CASE ~card.sdhc
  <2>1. ASSUME NEW a \in Nat, NEW b \in Nat \ {0}
        PROVE  (a * b) \div b = a
    OBVIOUS
  <2> QED BY <1>2, <2>1, CardAssumption DEF BlockAt, Addr
<1> QED BY <1>1, <1>2

(* An address is that of some block, the right one or not.                 *)
LEMMA AddressIsABlock ==
    ASSUME NEW lba \in Nat
    PROVE  BlockAt(Addr(lba)) \in Int
<1>1. ASSUME NEW a \in Nat, NEW b \in Nat \ {0}
      PROVE  a * b \in Int /\ a \div b \in Int /\ (a * b) \div b = a
  OBVIOUS
<1>2. Addr(lba) = lba \/ Addr(lba) = lba * SectorSize
  BY DEF Addr
<1> QED BY <1>1, <1>2, CardAssumption DEF BlockAt

LEMMA NextCardInv == CardInv /\ [CardNext]_sdvars => CardInv'
<1> SUFFICES ASSUME CardInv, [CardNext]_sdvars
             PROVE  CardInv'
  OBVIOUS
<1> USE DEF CardInv, KnowsTheCard
<1>1. CASE Reset \/ IdentificationClock \/ TransferClock
  <2>1. /\ UNCHANGED <<card, timeout, isSdhc, request, moved, result>>
        /\ \/ stage = "reset" /\ stage' \in {"clock", "failed"}
           \/ stage = "clock" /\ stage' \in {"cmd0", "failed"}
           \/ stage = "fast" /\ stage' \in {"up", "failed"}
    BY <1>1 DEF Reset, IdentificationClock, TransferClock
  <2>2. CardTypeOK'
    BY <2>1 DEF CardTypeOK, Serving
  <2>3. StateIsKnown'
    BY <2>1 DEF StateIsKnown
  <2>4. KindIsKnown'
    BY <2>1 DEF KindIsKnown, Addressing, Serving
  <2>5. MovedInOrder'
    BY <2>1 DEF CardTypeOK, MovedInOrder, Serving
  <2> QED BY <2>2, <2>3, <2>4, <2>5
<1>2. CASE Command
  <2>1. /\ stage \in DOMAIN Steps
        /\ UNCHANGED <<timeout, isSdhc, request, moved, result>>
        /\ result = "none" /\ moved = <<>>
    BY <1>2 DEF Command, MovedInOrder, Serving, Steps
  <2>2. CASE NotSent(Steps[stage].cmd) /\ stage' = "failed"
    <3>1. Steps[stage].cmd \in DOMAIN After
      BY <2>1 DEF Steps, After
    <3>2. CardTypeOK'
      BY <2>1, <2>2, <3>1, CommandNotTaken DEF CardTypeOK
    <3> QED BY <2>1, <2>2, <3>2 DEF StateIsKnown, KindIsKnown, MovedInOrder, Addressing, Serving
  <2>3. CASE Sent(Steps[stage].cmd) /\ stage' = Steps[stage].next
    <3>1. Steps[stage].cmd \in DOMAIN After
      BY <2>1 DEF Steps, After
    <3>2. /\ card' \in [state : CardStates, sdhc : BOOLEAN, blocks512 : BOOLEAN]
          /\ card.state \in DOMAIN After[Steps[stage].cmd]
          /\ card'.state = After[Steps[stage].cmd][card.state]
          /\ card'.sdhc = card.sdhc
          /\ card'.blocks512 = (card.blocks512 \/ Steps[stage].cmd = "CMD16")
      BY <2>3, <3>1, CommandTaken
    <3>3. CardTypeOK'
      BY <2>1, <2>3, <3>2 DEF CardTypeOK, Steps, Addressing, Serving
    <3>4. StateIsKnown'
      BY <2>1, <2>3, <3>2 DEF StateIsKnown, Steps, After
    <3>5. KindIsKnown' /\ MovedInOrder'
      BY <2>1, <2>3, <3>2 DEF KindIsKnown, StateIsKnown, MovedInOrder, Steps, After, Addressing, Serving
    <3> QED BY <3>3, <3>4, <3>5
  <2> QED BY <1>2, <2>2, <2>3 DEF Command
<1>3. CASE Try
  <2>1. /\ stage = "try" /\ UNCHANGED <<isSdhc, request, moved, result>>
        /\ timeout \in Int /\ timeout' \in Int /\ isSdhc = FALSE
        /\ \/ card' = card /\ stage' = "check" /\ timeout' = -1
           \/ Sent("CMD55") /\ stage' = "acmd41"
           \/ NotSent("CMD55") /\ stage' = "try"
    BY <1>3 DEF Try, CardTypeOK, KindIsKnown
  <2>2. /\ "CMD55" \in DOMAIN After
        /\ "ready" \notin DOMAIN After["CMD55"] /\ After["CMD55"]["idle"] = "idle"
    BY DEF After
  <2>3. /\ card' \in [state : CardStates, sdhc : BOOLEAN, blocks512 : BOOLEAN]
        /\ card'.sdhc = card.sdhc
        /\ card'.state \in {"idle", "ready"}
        /\ stage' = "acmd41" => card'.state = "idle"
    <3>1. card.state \in {"idle", "ready"}
      BY <2>1 DEF StateIsKnown
    <3>2. CASE card' = card /\ stage' = "check"
      BY <3>1, <3>2 DEF CardTypeOK
    <3>3. CASE Sent("CMD55")
      BY <2>2, <3>1, <3>3, CommandTaken
    <3>4. CASE NotSent("CMD55") /\ stage' = "try"
      BY <2>2, <3>1, <3>4, CommandNotTaken
    <3> QED BY <2>1, <3>2, <3>3, <3>4
  <2>4. stage' \in {"check", "acmd41", "try"}
    BY <2>1
  <2>5. CardTypeOK'
    BY <2>1, <2>3, <2>4 DEF CardTypeOK
  <2>6. StateIsKnown' /\ MovedInOrder'
    BY <2>1, <2>3, <2>4 DEF StateIsKnown, MovedInOrder, Serving
  <2>7. KindIsKnown'
    <3>1. stage' = "check" => timeout' = -1
      BY <2>1
    <3>2. card'.sdhc \in BOOLEAN /\ isSdhc' = FALSE
      BY <2>1, <2>3
    <3> QED BY <2>1, <2>4, <3>1, <3>2 DEF KindIsKnown, KnowsTheCard, Addressing, Serving
  <2> QED BY <2>5, <2>6, <2>7
<1>4. CASE Acmd41
  <2>1. /\ stage = "acmd41" /\ card.state = "idle" /\ ~isSdhc
        /\ UNCHANGED <<timeout, request, moved, result>>
        /\ result = "none" /\ moved = <<>>
    BY <1>4 DEF Acmd41, StateIsKnown, KindIsKnown, MovedInOrder, Serving
  <2>2. ASSUME BecomesReady
        PROVE  /\ card' \in [state : CardStates, sdhc : BOOLEAN, blocks512 : BOOLEAN]
               /\ card'.sdhc = card.sdhc /\ card'.state = "ready"
    BY <2>2 DEF BecomesReady, CardTypeOK, CardStates
  <2>3. CASE BecomesReady /\ isSdhc' = card.sdhc /\ stage' = "check"
    <3>1. CardTypeOK'
      BY <2>1, <2>2, <2>3 DEF CardTypeOK
    <3> QED BY <2>1, <2>2, <2>3, <3>1
            DEF StateIsKnown, KindIsKnown, MovedInOrder, Addressing, Serving
  <2>4. CASE /\ NotSent("ACMD41") \/ Sent("ACMD41") \/ BecomesReady
             /\ stage' = "try" /\ UNCHANGED isSdhc
    <3>1. "ACMD41" \in DOMAIN After /\ After["ACMD41"]["idle"] = "idle"
      BY DEF After
    <3>2. /\ card' \in [state : CardStates, sdhc : BOOLEAN, blocks512 : BOOLEAN]
          /\ card'.state \in {"idle", "ready"}
      BY <2>1, <2>2, <2>4, <3>1, CommandTaken, CommandNotTaken DEF CardTypeOK
    <3>3. CardTypeOK'
      BY <2>1, <2>4, <3>2 DEF CardTypeOK
    <3> QED BY <2>1, <2>4, <3>2, <3>3
            DEF StateIsKnown, KindIsKnown, MovedInOrder, Addressing, Serving
  <2> QED BY <1>4, <2>3, <2>4 DEF Acmd41
<1>5. CASE Check \/ Busy
  <2>1. /\ UNCHANGED <<card, timeout, isSdhc, request, moved, result>>
        /\ \/ stage = "check" /\ stage' \in {"failed", "cmd2"}
           \/ stage = "busy" /\ stage' \in {"failed", "cmd16"}
           \/ stage = "busy" /\ isSdhc /\ stage' = "fast"
    BY <1>5 DEF Check, Busy
  <2>2. CardTypeOK'
    BY <2>1 DEF CardTypeOK, Addressing
  <2>3. StateIsKnown'
    BY <2>1 DEF StateIsKnown
  <2>4. KindIsKnown' /\ MovedInOrder'
    BY <2>1 DEF KindIsKnown, MovedInOrder, Addressing, Serving
  <2> QED BY <2>2, <2>3, <2>4
<1>6. CASE Begin
  <2>1. /\ stage = "up" /\ moved' = <<>> /\ UNCHANGED <<timeout, isSdhc>>
        /\ KnowsTheCard => isSdhc = card.sdhc
        /\ card.sdhc \/ card.blocks512
    BY <1>6 DEF Begin, KindIsKnown, Serving
  <2>2. PICK write \in BOOLEAN, lba \in 0..MaxLba, count \in 1..MaxCount :
          /\ request' = [write |-> write, lba |-> lba, count |-> count]
          /\ \/ Sent(TransferCommand(write)) /\ stage' = "blocks" /\ result' = "none"
             \/ NotSent(TransferCommand(write)) /\ Ends("error")
    BY <1>6 DEF Begin
  <2>3. request' \in [write : BOOLEAN, lba : Nat, count : Nat] /\ request'.write = write
    BY <2>2, CardAssumption
  <2>4. /\ TransferCommand(write) \in DOMAIN After
        /\ DOMAIN After[TransferCommand(write)] = {"tran"}
        /\ After[TransferCommand(write)]["tran"] = IF write THEN "rcv" ELSE "data"
        /\ TransferCommand(write) # "CMD16"
    BY DEF TransferCommand, After
  <2>5. moved' \in Seq(Int) /\ Len(moved') = 0
    BY <2>1
  <2>6. CASE Sent(TransferCommand(write)) /\ stage' = "blocks" /\ result' = "none"
    <3>1. /\ card' \in [state : CardStates, sdhc : BOOLEAN, blocks512 : BOOLEAN]
          /\ card'.state = IF write THEN "rcv" ELSE "data"
          /\ card'.sdhc = card.sdhc /\ card'.blocks512 = card.blocks512
      BY <2>4, <2>6, CommandTaken DEF CardTypeOK
    <3>2. CardTypeOK'
      BY <2>1, <2>3, <2>5, <2>6, <3>1 DEF CardTypeOK, Serving
    <3>3. StateIsKnown' /\ KindIsKnown'
      BY <2>1, <2>3, <2>6, <3>1 DEF StateIsKnown, KindIsKnown, Addressing, Serving
    <3>4. MovedInOrder'
      BY <2>3, <2>5, <2>6 DEF MovedInOrder, Serving
    <3> QED BY <3>2, <3>3, <3>4
  <2>7. CASE NotSent(TransferCommand(write)) /\ Ends("error")
    <3>1. /\ card' \in [state : CardStates, sdhc : BOOLEAN, blocks512 : BOOLEAN]
          /\ card'.sdhc = card.sdhc /\ (card.blocks512 => card'.blocks512)
      BY <2>4, <2>7, CommandNotTaken
    <3>2. CardTypeOK'
      BY <2>1, <2>3, <2>5, <2>7, <3>1 DEF CardTypeOK, Serving, Ends
    <3>3. StateIsKnown' /\ KindIsKnown'
      BY <2>1, <2>3, <2>7, <3>1 DEF StateIsKnown, KindIsKnown, Addressing, Serving, Ends
    <3>4. MovedInOrder'
      BY <2>3, <2>5, <2>7 DEF MovedInOrder, Serving, Ends
    <3> QED BY <3>2, <3>3, <3>4
  <2> QED BY <2>2, <2>6, <2>7
<1>7. CASE Block
  <2>1. /\ stage = "blocks" /\ Len(moved) < request.count /\ result = "none"
        /\ UNCHANGED <<card, timeout, isSdhc, request>>
        /\ request.lba \in Nat /\ request.count \in Nat /\ Len(moved) \in Nat
        /\ KnowsTheCard => isSdhc = card.sdhc
        /\ card.sdhc \in BOOLEAN
    BY <1>7 DEF Block, CardTypeOK, KindIsKnown, MovedInOrder, Serving
  <2>2. CASE Ends("error") /\ UNCHANGED moved
    BY <2>1, <2>2
       DEF Ends, CardTypeOK, StateIsKnown, KindIsKnown, MovedInOrder, Addressing, Serving
  <2>3. CASE /\ moved' = Append(moved, BlockAt(Addr(request.lba)) + Len(moved))
             /\ UNCHANGED <<stage, result>>
    <3> DEFINE block == BlockAt(Addr(request.lba))
    <3>1. block \in Int
      BY <2>1, AddressIsABlock
    <3>6. KnowsTheCard => block = request.lba
      BY <2>1, BlockFound
    <3> HIDE DEF block
    <3>2. moved' = Append(moved, block + Len(moved))
      BY <2>3 DEF block
    <3>5. /\ moved' \in Seq(Int) /\ Len(moved') = Len(moved) + 1
          /\ KnowsTheCard => \A i \in 1..Len(moved') :
               moved'[i] = IF i <= Len(moved) THEN moved[i] ELSE request.lba + Len(moved)
      BY <2>1, <3>1, <3>2, <3>6 DEF CardTypeOK
    <3>3. CardTypeOK'
      BY <2>1, <2>3, <3>5 DEF CardTypeOK
    <3>4. MovedInOrder'
      BY <2>1, <2>3, <3>5 DEF MovedInOrder, Serving
    <3> QED BY <2>1, <2>3, <3>3, <3>4 DEF StateIsKnown, KindIsKnown
  <2> QED BY <1>7, <2>2, <2>3 DEF Block
<1>8. CASE DataDone
  <2>1. /\ stage = "blocks" /\ Len(moved) = request.count /\ result = "none"
        /\ UNCHANGED <<card, timeout, isSdhc, request, moved>>
        /\ \/ stage' = "cmd12" /\ UNCHANGED result
           \/ stage' = "up" /\ result' = "error"
    BY <1>8 DEF DataDone, MovedInOrder, Ends
  <2>2. CardTypeOK'
    BY <2>1 DEF CardTypeOK, Serving
  <2>3. StateIsKnown' /\ KindIsKnown' /\ MovedInOrder'
    BY <2>1 DEF StateIsKnown, KindIsKnown, MovedInOrder, Addressing, Serving
  <2> QED BY <2>2, <2>3
<1>9. CASE Stop
  <2>1. /\ stage = "cmd12" /\ stage' = "up" /\ result' \in {"done", "error"}
        /\ UNCHANGED <<timeout, isSdhc, request, moved>>
        /\ Sent("CMD12") \/ (NotSent("CMD12") /\ result' = "error")
    BY <1>9 DEF Stop, Ends
  <2>2. "CMD12" \in DOMAIN After
    BY DEF After
  <2>3. /\ card' \in [state : CardStates, sdhc : BOOLEAN, blocks512 : BOOLEAN]
        /\ card'.sdhc = card.sdhc /\ (card.blocks512 => card'.blocks512)
        /\ result' = "done" => card'.state = "tran"
    <3>1. CASE Sent("CMD12")
      BY <2>2, <3>1, CommandTaken DEF After
    <3>2. CASE NotSent("CMD12") /\ result' = "error"
      BY <2>2, <3>2, CommandNotTaken
    <3> QED BY <2>1, <3>1, <3>2
  <2>4. CardTypeOK'
    BY <2>1, <2>3 DEF CardTypeOK, Serving
  <2>5. StateIsKnown' /\ KindIsKnown'
    BY <2>1, <2>3 DEF StateIsKnown, KindIsKnown, Addressing, Serving
  <2>6. MovedInOrder'
    BY <2>1, <2>3 DEF MovedInOrder, Serving
  <2> QED BY <2>4, <2>5, <2>6
<1>10. CASE UNCHANGED sdvars
  BY <1>10 DEF sdvars, CardTypeOK, StateIsKnown, KindIsKnown, MovedInOrder
<1> QED
  BY <1>1, <1>2, <1>3, <1>4, <1>5, <1>6, <1>7, <1>8, <1>9, <1>10
     DEF CardNext, SdInit, BlockTransfer

(* The type of the driver's state.                                         *)
THEOREM CardTypeCorrect == CardSpec => []CardTypeOK
<1>1. CardSpec => []CardInv
  BY InitCardInv, NextCardInv, PTL DEF CardSpec
<1>2. CardInv => CardTypeOK
  BY DEF CardInv
<1> QED BY <1>1, <1>2, PTL

(* sd_init leaves a card that takes transfers, in blocks of 512 bytes, and *)
(* block_read_multi and block_write_multi report as done only what moved   *)
(* whole and in order, of the blocks asked for unless the card has high    *)
(* capacity and its answer to ACMD41 was lost.                             *)
THEOREM CardServed == CardSpec => []CardIsServed
<1>1. CardSpec => []CardInv
  BY InitCardInv, NextCardInv, PTL DEF CardSpec
<1>2. CardInv => CardIsServed
  <2> SUFFICES ASSUME CardInv PROVE CardIsServed
    OBVIOUS
  <2>1. UpMeansReady
    BY DEF CardInv, UpMeansReady, StateIsKnown, KindIsKnown, Addressing, Serving
  <2>2. DoneMeansMoved
    <3> SUFFICES ASSUME result = "done", KnowsTheCard
                 PROVE  moved = [i \in 1..request.count |-> request.lba + i - 1]
      BY DEF DoneMeansMoved
    <3>1. /\ moved \in Seq(Int) /\ Len(moved) = request.count
          /\ \A i \in 1..Len(moved) : moved[i] = request.lba + i - 1
      BY DEF CardInv, CardTypeOK, MovedInOrder
    <3> QED BY <3>1
  <2> QED BY <2>1, <2>2 DEF CardIsServed
<1> QED BY <1>1, <1>2, PTL

-----------------------------------------------------------------------------
(***************************************************************************)
(* The USB bus: ports are reset in order, each once, and the address that  *)
(* is reserved for a port is above all those given before.                 *)
(***************************************************************************)
Addressed == {"class", "config", "set_config"}

UsbTypeOK ==
  /\ wired \subseteq Ports /\ address \in [Ports -> Nat]
  /\ step \in {"root_reset", "port_reset", "describe", "address", "done"} \cup Addressed
  /\ port \in Ports /\ dev_addr \in Nat /\ next_addr \in Nat \ {0}
  /\ mouse \in Nat /\ keyboard \in Nat

PortsInOrder ==
  /\ \A p \in wired : p <= port
  /\ step = "root_reset" => wired = {} /\ port = Root
  /\ step = "port_reset" => port # Root /\ \A p \in wired : p < port
  /\ step = "address" => dev_addr = 0
  /\ step \in Addressed => dev_addr = next_addr
  /\ port = Root /\ step # "done" => next_addr = 1

(* The highest address that has been given out.                            *)
Highest == IF step \in Addressed \cup {"done"} THEN next_addr ELSE next_addr - 1

AddressesBelow == \A p \in wired : address[p] <= Highest

(* What is taken for a device of a kind is one, at an address of its own.  *)
TakenFor(a, kind) ==
  a = None \/ (a # 0 /\ a <= Highest /\ (a \in shared \/ \A p \in Listening(a) : plugged[p] = kind))

Numbered == Unique /\ TakenFor(mouse, "mouse") /\ TakenFor(keyboard, "keyboard")

UsbInv == UsbTypeOK /\ PortsInOrder /\ AddressesBelow /\ Numbered

LEMMA InitUsbInv == UsbInit => UsbInv
<1> SUFFICES ASSUME UsbInit PROVE UsbInv
  OBVIOUS
<1>1. /\ wired = {} /\ step = "root_reset" /\ port = Root /\ dev_addr = 0 /\ next_addr = 1
      /\ mouse = None /\ keyboard = None
      /\ address \in [Ports -> Nat]
  BY DEF UsbInit
<1>5. port \in Ports /\ None \in Nat
  BY <1>1, HubAssumption DEF Ports, Root, None
<1>2. UsbTypeOK
  BY <1>1, <1>5 DEF UsbTypeOK
<1>3. PortsInOrder /\ AddressesBelow
  BY <1>1 DEF PortsInOrder, AddressesBelow, Addressed
<1>4. Numbered
  BY <1>1 DEF Numbered, Unique, TakenFor
<1> QED BY <1>2, <1>3, <1>4 DEF UsbInv

(* What usb_hub_enumerate_ports does next keeps the ports in order and the *)
(* addresses below the one that is reserved then.                          *)
LEMMA LeftPort ==
    ASSUME UsbInv, step \notin {"root_reset", "done"}, LeavePort,
           UNCHANGED <<wired, address, plugged, mouse, keyboard, shared>>,
           dev_addr' \in Nat
    PROVE  UsbInv'
<1> USE DEF UsbInv
<1>1. /\ step' \in {"port_reset", "done"} /\ port \in Ports /\ port' \in Ports
      /\ step' = "port_reset" => port' = port + 1 /\ port # Root
      /\ step' = "done" => port' = port
      /\ next_addr' \in Nat \ {0} /\ next_addr' >= next_addr
      /\ port # Root => next_addr' = next_addr + 1
  BY HubAssumption DEF LeavePort, Leave, UsbTypeOK, Ports, Root
<1>2. UsbTypeOK'
  BY <1>1 DEF UsbTypeOK
<1>3. PortsInOrder'
  BY <1>1 DEF UsbTypeOK, PortsInOrder, Addressed, Ports, Root
<1>4. Highest \in Int /\ Highest' \in Int /\ Highest <= Highest'
  <2>1. next_addr \in Nat /\ Highest \in Int /\ Highest <= next_addr
    BY DEF UsbTypeOK, Highest
  <2>2. CASE step' = "done"
    BY <1>1, <2>1, <2>2 DEF Highest
  <2>3. CASE step' = "port_reset"
    BY <1>1, <2>1, <2>3 DEF Highest, Addressed
  <2> QED BY <1>1, <2>2, <2>3
<1>5. AddressesBelow'
  BY <1>4 DEF UsbTypeOK, AddressesBelow
<1>6. Numbered'
  BY <1>4 DEF UsbTypeOK, Numbered, Unique, TakenFor, Listening
<1> QED BY <1>2, <1>3, <1>5, <1>6

LEMMA NextUsbInv == UsbInv /\ [UsbNext]_uvars => UsbInv'
<1> SUFFICES ASSUME UsbInv, [UsbNext]_uvars
             PROVE  UsbInv'
  OBVIOUS
<1> USE DEF UsbInv
<1>1. CASE ResetRoot
  <2>1. /\ wired = {} /\ port = Root /\ next_addr = 1 /\ step = "root_reset"
        /\ UNCHANGED <<plugged, port, dev_addr, next_addr, mouse, keyboard, shared>>
        /\ \/ Answers(Root) /\ step' = "describe"
           \/ step' = "done" /\ UNCHANGED <<wired, address>>
    BY <1>1 DEF ResetRoot, driver, PortsInOrder
  <2>2. UsbTypeOK'
    BY <2>1 DEF Answers, UsbTypeOK, Ports, Root
  <2>3. \A p \in wired' : p = Root /\ address'[p] = 0
    BY <2>1 DEF Answers, UsbTypeOK, Ports, Root
  <2>4. PortsInOrder'
    BY <2>1, <2>3 DEF PortsInOrder, Root, Addressed
  <2>5. Highest \in Int /\ Highest' \in Int /\ Highest <= Highest'
    BY <2>1 DEF UsbTypeOK, Highest, Addressed
  <2>6. AddressesBelow'
    BY <2>1, <2>3 DEF AddressesBelow, Highest
  <2>7. Numbered'
    BY <2>1, <2>3, <2>5 DEF Numbered, Unique, TakenFor, Listening, UsbTypeOK
  <2> QED BY <2>2, <2>4, <2>6, <2>7
<1>2. CASE ResetPort
  <2>1. /\ step = "port_reset" /\ port # Root /\ \A p \in wired : p < port
        /\ port \in Ports /\ port \notin wired
        /\ UNCHANGED <<plugged, dev_addr, next_addr, mouse, keyboard, shared>>
    BY <1>2 DEF ResetPort, PortsInOrder, UsbTypeOK, Ports, Root
  <2>2. \/ step' = "describe" /\ port' = port /\ Answers(port)
        \/ /\ step' \in {"port_reset", "done"}
           /\ Answers(port) \/ UNCHANGED <<wired, address>>
           /\ step' = "port_reset" => port' = port + 1
           /\ step' = "done" => port' = port
           /\ port' \in Ports
    BY <1>2, <2>1, HubAssumption DEF ResetPort, Leave, Ports, Root
  <2>3. /\ wired' \subseteq wired \cup {port}
        /\ address' \in [Ports -> Nat]
        /\ \A p \in wired : address'[p] = address[p]
        /\ port \in wired' => address'[port] = 0
    BY <2>1, <2>2 DEF Answers, UsbTypeOK
  <2>4. UsbTypeOK'
    BY <2>1, <2>2, <2>3 DEF UsbTypeOK
  <2>5. PortsInOrder'
    <3>1. port \in Int /\ port >= 1 /\ \A p \in wired' : p \in Int /\ p <= port
      BY <2>1, <2>3, HubAssumption DEF UsbTypeOK, Ports, Root
    <3> QED BY <2>1, <2>2, <2>3, <3>1 DEF PortsInOrder, Root, Addressed
  <2>6. Highest \in Int /\ Highest' \in Int /\ Highest <= Highest'
    BY <2>1, <2>2 DEF UsbTypeOK, Highest, Addressed
  <2>7. AddressesBelow'
    <3>1. ASSUME NEW p \in wired' PROVE address'[p] <= Highest'
      <4>1. CASE p = port
        BY <2>1, <2>2, <2>3, <4>1 DEF UsbTypeOK, Highest, Addressed
      <4>2. CASE p # port
        BY <2>3, <2>6, <4>2 DEF UsbTypeOK, AddressesBelow
      <4> QED BY <4>1, <4>2
    <3> QED BY <3>1 DEF AddressesBelow
  <2>8. Unique'
    BY <2>1, <2>3 DEF Numbered, Unique
  <2>9. ASSUME NEW a \in Nat, NEW kind, TakenFor(a, kind)
        PROVE  TakenFor(a, kind)'
    <3>1. a # 0 => Listening(a)' \subseteq Listening(a)
      BY <2>3 DEF Listening
    <3> QED BY <2>1, <2>6, <2>9, <3>1 DEF TakenFor
  <2> QED BY <2>1, <2>4, <2>5, <2>7, <2>8, <2>9 DEF Numbered, UsbTypeOK, TakenFor, Listening
<1>3. CASE DescribeZero
  <2>1. CASE Fail
    BY <1>3, <2>1, LeftPort DEF DescribeZero, Fail, GiveUp, device, UsbTypeOK
  <2>2. CASE /\ step' = "address" /\ dev_addr' = 0
             /\ UNCHANGED <<port, next_addr, device_class, buf, mouse, keyboard, shared>>
    <3>1. step = "describe" /\ UNCHANGED <<plugged, wired, address>>
      BY <1>3 DEF DescribeZero, device
    <3>2. UsbTypeOK' /\ PortsInOrder'
      BY <2>2, <3>1 DEF UsbTypeOK, PortsInOrder, Addressed
    <3>3. Highest \in Int /\ Highest' \in Int /\ Highest <= Highest'
      BY <2>2, <3>1 DEF UsbTypeOK, Highest, Addressed
    <3>4. AddressesBelow'
      BY <3>1, <3>3 DEF AddressesBelow, UsbTypeOK
    <3>5. Numbered'
      BY <2>2, <3>1, <3>3 DEF Numbered, Unique, TakenFor, Listening, UsbTypeOK
    <3> QED BY <3>2, <3>4, <3>5
  <2> QED BY <1>3, <2>1, <2>2 DEF DescribeZero
<1>4. CASE SetAddress
  <2>1. /\ step = "address" /\ dev_addr = 0
        /\ UNCHANGED <<plugged, wired, device_class, buf, mouse, keyboard>>
    BY <1>4 DEF SetAddress, PortsInOrder
  <2>2. PICK taken \in SUBSET Listening(0) :
          /\ address' = [p \in Ports |-> IF p \in taken THEN next_addr ELSE address[p]]
          /\ \/ taken # {} /\ step' = "class" /\ dev_addr' = next_addr
                /\ UNCHANGED <<port, next_addr>>
             \/ GiveUp /\ UNCHANGED dev_addr
          /\ shared' = IF \E p, q \in taken : p # q THEN shared \cup {next_addr} ELSE shared
    BY <1>4, <2>1 DEF SetAddress
  <2>3. \/ step' = "class" /\ dev_addr' = next_addr /\ port' = port /\ next_addr' = next_addr
        \/ /\ step' \in {"port_reset", "done"} /\ port' \in Ports /\ dev_addr' = dev_addr
           /\ step' = "port_reset" => port' = port + 1 /\ port # Root
           /\ step' = "done" => port' = port
           /\ next_addr' \in Nat \ {0} /\ next_addr' >= next_addr
           /\ port # Root => next_addr' = next_addr + 1
    BY <2>2, HubAssumption DEF GiveUp, LeavePort, Leave, UsbTypeOK, Ports, Root
  <2>4. UsbTypeOK'
    BY <2>1, <2>2, <2>3 DEF UsbTypeOK, Addressed
  <2>5. \A p \in wired : p \in Ports /\ p \in Nat /\ p <= port /\ address[p] \in Nat
                        /\ address[p] < next_addr
    BY <2>1, HubAssumption
       DEF UsbTypeOK, PortsInOrder, AddressesBelow, Highest, Ports, Root, Addressed
  <2>6. PortsInOrder'
    BY <2>1, <2>3, <2>5, HubAssumption DEF PortsInOrder, UsbTypeOK, Ports, Root, Addressed
  <2>7. next_addr <= Highest' /\ Highest \in Int /\ Highest' \in Int /\ Highest <= Highest'
    BY <2>1, <2>3 DEF UsbTypeOK, Highest, Addressed
  <2>8. \A p \in wired : address'[p] = IF p \in taken THEN next_addr ELSE address[p]
    BY <2>2, <2>5
  <2>9. AddressesBelow'
    BY <2>1, <2>5, <2>7, <2>8 DEF AddressesBelow
  <2>10. Unique'
    <3>1. ASSUME NEW p \in wired, NEW q \in wired, address'[p] = address'[q],
                 address'[p] \notin shared' \cup {0}
          PROVE  p = q
      <4>1. CASE p \in taken
        BY <2>2, <2>5, <2>8, <3>1, <4>1
      <4>2. CASE p \notin taken
        <5>1. q \notin taken
          BY <2>5, <2>8, <3>1, <4>2
        <5> QED BY <2>2, <2>8, <3>1, <4>2, <5>1 DEF Numbered, Unique
      <4> QED BY <4>1, <4>2
    <3> QED BY <2>1, <3>1 DEF Unique
  <2>11. ASSUME NEW a \in Nat, NEW kind, TakenFor(a, kind)
         PROVE  TakenFor(a, kind)'
    <3>1. CASE a = None
      BY <3>1 DEF TakenFor, None
    <3>2. CASE a # None
      <4>1. a # 0 /\ a <= Highest /\ (a \in shared \/ \A p \in Listening(a) : plugged[p] = kind)
        BY <2>11, <3>2 DEF TakenFor
      <4>2. a < next_addr
        BY <2>1, <4>1 DEF UsbTypeOK, Highest, Addressed
      <4>3. Listening(a)' \subseteq Listening(a)
        BY <2>1, <2>5, <2>8, <4>2 DEF Listening, UsbTypeOK
      <4>4. a \in shared => a \in shared'
        BY <2>2
      <4> QED BY <2>1, <2>7, <4>1, <4>3, <4>4 DEF TakenFor
    <3> QED BY <3>1, <3>2
  <2>12. mouse' = mouse /\ keyboard' = keyboard /\ mouse \in Nat /\ keyboard \in Nat
    BY <2>1 DEF UsbTypeOK
  <2>13. TakenFor(mouse, "mouse")' /\ TakenFor(keyboard, "keyboard")'
    BY <2>1, <2>11, <2>12 DEF Numbered, TakenFor, Listening
  <2> QED BY <2>4, <2>6, <2>9, <2>10, <2>13 DEF Numbered
<1>5. CASE DescribeDevice
  <2>1. CASE Fail
    BY <1>5, <2>1, LeftPort DEF DescribeDevice, Fail, GiveUp, device, UsbTypeOK
  <2>2. CASE /\ step' = "config"
             /\ UNCHANGED <<port, dev_addr, next_addr, buf, mouse, keyboard, shared>>
    <3>1. step = "class" /\ UNCHANGED <<plugged, wired, address>>
      BY <1>5 DEF DescribeDevice, device
    <3>2. UsbTypeOK' /\ PortsInOrder'
      BY <2>2, <3>1 DEF UsbTypeOK, PortsInOrder, Addressed
    <3>3. Highest \in Int /\ Highest' \in Int /\ Highest <= Highest'
      BY <2>2, <3>1 DEF UsbTypeOK, Highest, Addressed
    <3>4. AddressesBelow'
      BY <3>1, <3>3 DEF AddressesBelow, UsbTypeOK
    <3>5. Numbered'
      BY <2>2, <3>1, <3>3 DEF Numbered, Unique, TakenFor, Listening, UsbTypeOK
    <3> QED BY <3>2, <3>4, <3>5
  <2> QED BY <1>5, <2>1, <2>2 DEF DescribeDevice
<1>6. CASE ReadConfig
  <2>1. CASE Fail
    BY <1>6, <2>1, LeftPort DEF ReadConfig, Fail, GiveUp, device, UsbTypeOK
  <2>2. ASSUME NEW p \in Listening(dev_addr),
               buf' = plugged[p], ParseConfig, step' = "set_config",
               UNCHANGED <<port, dev_addr, next_addr, device_class, shared>>
        PROVE  UsbInv'
    <3>1. /\ step = "config" /\ UNCHANGED <<plugged, wired, address>>
          /\ dev_addr = next_addr /\ next_addr # 0 /\ p \in wired /\ address[p] = dev_addr
      BY <1>6 DEF ReadConfig, device, PortsInOrder, UsbTypeOK, Listening, Addressed
    <3>2. UsbTypeOK'
      BY <2>2, <3>1 DEF ParseConfig, UsbTypeOK, Addressed
    <3>3. PortsInOrder'
      BY <2>2, <3>1 DEF PortsInOrder, Addressed
    <3>4. next_addr' <= Highest' /\ Highest \in Int /\ Highest' \in Int /\ Highest <= Highest'
      BY <2>2, <3>1 DEF Highest, UsbTypeOK, Addressed
    <3>5. AddressesBelow' /\ Unique'
      BY <2>2, <3>1, <3>4 DEF AddressesBelow, Numbered, Unique, UsbTypeOK
    <3>6. ASSUME NEW a \in Nat, NEW kind, TakenFor(a, kind)
          PROVE  TakenFor(a, kind)'
      BY <2>2, <3>1, <3>4, <3>6 DEF TakenFor, Listening
    <3>7. TakenFor(dev_addr, plugged[p])'
      <4>1. dev_addr \in shared \/ Listening(dev_addr) = {p}
        BY <3>1 DEF Numbered, Unique, Listening
      <4> QED BY <2>2, <3>1, <3>4, <4>1 DEF TakenFor, Listening
    <3>8. TakenFor(mouse, "mouse")' /\ TakenFor(keyboard, "keyboard")'
      BY <2>2, <3>1, <3>6, <3>7 DEF Numbered, ParseConfig, UsbTypeOK, TakenFor, Listening
    <3> QED BY <3>2, <3>3, <3>5, <3>8 DEF Numbered
  <2> QED BY <1>6, <2>1, <2>2 DEF ReadConfig
<1>7. CASE SetConfig
  <2>1. /\ step = "set_config"
        /\ LeaveDevice \/ GiveUp
        /\ UNCHANGED <<plugged, wired, address, dev_addr, mouse, keyboard, shared>>
    BY <1>7 DEF SetConfig, device
  <2>2. CASE LeavePort
    <3>1. dev_addr' \in Nat /\ step \notin {"root_reset", "done"}
      BY <2>1 DEF UsbTypeOK
    <3> QED BY <2>1, <2>2, <3>1, LeftPort
  <2>3. CASE port = Root /\ step' = "port_reset" /\ port' = 1 /\ next_addr' = 2
    <3>1. next_addr = 1 /\ \A p \in wired : p = Root
      BY <2>1, <2>3, HubAssumption DEF UsbTypeOK, PortsInOrder, Ports, Root
    <3>2. UsbTypeOK'
      BY <2>1, <2>3, HubAssumption DEF UsbTypeOK, Ports, Root
    <3>3. PortsInOrder'
      BY <2>1, <2>3, <3>1 DEF PortsInOrder, Root, Addressed
    <3>4. Highest \in Int /\ Highest' \in Int /\ Highest <= Highest'
      BY <2>1, <2>3, <3>1 DEF Highest, Addressed
    <3>5. AddressesBelow'
      BY <2>1, <3>4 DEF AddressesBelow, UsbTypeOK
    <3>6. Numbered'
      BY <2>1, <3>4 DEF Numbered, Unique, TakenFor, Listening, UsbTypeOK
    <3> QED BY <3>2, <3>3, <3>5, <3>6
  <2> QED BY <2>1, <2>2, <2>3 DEF LeaveDevice, GiveUp
<1>8. CASE \E p \in Ports : Unplug(p)
  <2>1. PICK p \in Ports : Unplug(p)
    BY <1>8
  <2>2. /\ wired' \subseteq wired /\ \A q \in wired' : plugged'[q] = plugged[q]
        /\ UNCHANGED <<address, step, port, dev_addr, next_addr, mouse, keyboard, shared>>
    BY <2>1 DEF Unplug, driver, UsbTypeOK
  <2>3. UsbTypeOK' /\ PortsInOrder'
    BY <2>2 DEF UsbTypeOK, PortsInOrder
  <2>4. AddressesBelow'
    BY <2>2 DEF AddressesBelow, Highest
  <2>5. Numbered'
    BY <2>2 DEF Numbered, Unique, TakenFor, Highest, Listening
  <2> QED BY <2>3, <2>4, <2>5
<1>9. CASE UsbDone \/ UNCHANGED uvars
  BY <1>9 DEF UsbDone, uvars, UsbTypeOK, PortsInOrder, AddressesBelow, Numbered, Unique,
              TakenFor, Highest, Listening
<1> QED
  BY <1>1, <1>2, <1>3, <1>4, <1>5, <1>6, <1>7, <1>8, <1>9 DEF UsbNext

(* An address is given to nobody twice, whatever transfer fails and        *)
(* whoever is pulled out, so that devices share one only when they took it *)
(* together, and what is polled at an address of its own is a mouse or a   *)
(* keyboard (usb_enumerate), for any number of ports and any devices.      *)
THEOREM BusKnown == UsbSpec => []BusIsKnown
<1>1. UsbSpec => []UsbInv
  BY InitUsbInv, NextUsbInv, PTL DEF UsbSpec
<1>2. UsbInv => BusIsKnown
  <2> SUFFICES ASSUME UsbInv PROVE BusIsKnown
    OBVIOUS
  <2>1. AddressIsFree
    BY DEF UsbInv, AddressIsFree, AddressesBelow, Highest, Listening, Addressed, UsbTypeOK
  <2>2. Unique /\ PolledIsThere
    BY DEF UsbInv, Numbered, TakenFor, PolledIsThere
  <2> QED BY <2>1, <2>2 DEF BusIsKnown
<1> QED BY <1>1, <1>2, PTL

-----------------------------------------------------------------------------
(***************************************************************************)
(* The screen: what lies under the cursor is known, at every step of a     *)
(* poll that moves it.                                                     *)
(***************************************************************************)
PixelColors == Colors \cup Bar \cup {Clear, Red}

ScreenTypeOK ==
  /\ fb \in [Pixels -> PixelColors]
  /\ bar \in Bar /\ topbar_previous \in Bar
  /\ surface \in [Procs -> [AppPixels -> Colors \cup {Clear}]]
  /\ snapshot \in [Procs -> [AppPixels -> Colors \cup {Clear}]]
  /\ open \subseteq Procs /\ last_updated_proc \in Procs \cup {NoProc}
  /\ x \in Int /\ saved \in [1..CursorSize -> PixelColors]
  /\ last_pixel_saved \in BOOLEAN /\ cut \in BOOLEAN /\ spoilt \in BOOLEAN
  /\ reused \in BOOLEAN /\ draws \in Nat
  /\ poll \in {"none", "restore", "move", "clamp", "paint"} \X (0..CursorSize)

(* The cursor lies on the screen, except until it is clamped.              *)
CursorOnScreen ==
  /\ poll[1] # "clamp" => x \in 0..(Width - CursorSize)
  /\ poll[1] = "none" => poll[2] = 0
  /\ poll[1] \in {"restore", "paint"} => poll[2] \in 1..CursorSize
  /\ poll[1] = "restore" => last_pixel_saved

(* The pixels that hold the cursor, what the last update showed at a pixel *)
(* (nothing yet below the top bar before the first one), and what is       *)
(* behind the cursor.                                                      *)
Covered ==
  {q \in Pixels : /\ q >= x /\ q < x + CursorSize
                  /\ \/ poll[1] = "none" /\ last_pixel_saved
                     \/ poll[1] = "restore" /\ q >= x + poll[2] - 1
                     \/ poll[1] = "paint" /\ q < x + poll[2] - 1}

Shown(q) == IF q < Top THEN topbar_previous ELSE snapshot[last_updated_proc][q]

Behind(q) == IF q \in Covered THEN saved[q - x + 1] ELSE fb[q]

CursorIsRed == \A q \in Covered : fb[q] = Red

BehindIsShown ==
  ~spoilt =>
    /\ \A q \in Pixels : q < Top \/ last_updated_proc # NoProc => Behind(q) = Shown(q)
    /\ \A q \in Covered : Behind(q) # Clear

ScreenInv ==
  /\ ScreenTypeOK /\ CursorOnScreen
  /\ ~cut => CursorIsRed
  /\ ~cut /\ ~reused => BehindIsShown

LEMMA InitScreenInv == ScreenInit => ScreenInv
<1> SUFFICES ASSUME ScreenInit PROVE ScreenInv
  OBVIOUS
<1>1. /\ fb = [p \in Pixels |-> IF p < Top THEN "bar0" ELSE Clear]
      /\ bar = "bar0" /\ topbar_previous = "bar0"
      /\ surface = [p \in Procs |-> [q \in AppPixels |-> Clear]] /\ snapshot = surface
      /\ open = {} /\ last_updated_proc = NoProc
      /\ x = 0 /\ saved = [i \in 1..CursorSize |-> Clear]
      /\ last_pixel_saved = FALSE /\ last_pixel_saved \in BOOLEAN
      /\ poll = <<"none", 0>> /\ draws = 0
      /\ cut \in BOOLEAN /\ spoilt \in BOOLEAN /\ reused \in BOOLEAN
  BY DEF ScreenInit, NoPoll
<1>2. ScreenTypeOK
  <2>1. /\ poll \in {"none", "restore", "move", "clamp", "paint"} \X (0..CursorSize)
        /\ poll[1] = "none" /\ poll[2] = 0
    BY <1>1, ScreenAssumption
  <2>2. fb \in [Pixels -> PixelColors] /\ saved \in [1..CursorSize -> PixelColors]
    BY <1>1 DEF PixelColors, Bar
  <2>3. /\ surface \in [Procs -> [AppPixels -> Colors \cup {Clear}]]
        /\ snapshot \in [Procs -> [AppPixels -> Colors \cup {Clear}]]
    BY <1>1
  <2> QED BY <1>1, <2>1, <2>2, <2>3 DEF ScreenTypeOK, Bar
<1>3. Covered = {} /\ CursorOnScreen
  BY <1>1, ScreenAssumption DEF Covered, CursorOnScreen
<1>4. CursorIsRed /\ BehindIsShown
  BY <1>1, <1>3 DEF CursorIsRed, BehindIsShown, Behind, Shown, Pixels
<1> QED BY <1>2, <1>3, <1>4 DEF ScreenInv

(* Steps that leave the framebuffer and the cursor alone, and the picture  *)
(* the last update took unless its program was replaced.                   *)
LEMMA ScreenAlone ==
    ASSUME ScreenInv, ScreenTypeOK',
           UNCHANGED <<fb, topbar_previous, last_updated_proc, x, saved, last_pixel_saved,
                       poll, cut, spoilt>>,
           reused => reused',
           ~reused' /\ last_updated_proc # NoProc =>
             snapshot'[last_updated_proc] = snapshot[last_updated_proc]
    PROVE  ScreenInv'
<1>1. Covered' = Covered
  BY DEF Covered
<1>2. \A q : Behind(q)' = Behind(q)
  BY <1>1 DEF Behind
<1>3. CursorOnScreen'
  BY DEF ScreenInv, CursorOnScreen
<1>4. CursorIsRed => CursorIsRed'
  BY <1>1 DEF CursorIsRed
<1>5. ASSUME ~reused', BehindIsShown
      PROVE  BehindIsShown'
  <2>1. \A q : q < Top \/ last_updated_proc # NoProc => Shown(q)' = Shown(q)
    BY <1>5 DEF Shown
  <2> QED BY <1>1, <1>2, <1>5, <2>1 DEF BehindIsShown
<1> QED BY <1>3, <1>4, <1>5 DEF ScreenInv

(* The pixels of the cursor are those of g_mouse.last_pixel_color.         *)
LEMMA CoveredIndex ==
    ASSUME ScreenInv
    PROVE  /\ \A q \in Covered : q \in Pixels /\ q \in Int /\ q - x + 1 \in 1..CursorSize
           /\ poll[1] # "clamp" => \A i \in 1..CursorSize : x + i - 1 \in Pixels
BY ScreenAssumption DEF ScreenInv, ScreenTypeOK, CursorOnScreen, Covered, Pixels

LEMMA UpdateKeepsScreenInv ==
    ASSUME ScreenInv, NEW p \in Procs, Update(p)
    PROVE  ScreenInv'
<1> USE DEF ScreenInv
<1> DEFINE drawn == [q \in Pixels |-> IF q \in Copied(p) THEN surface[p][q] ELSE Topped(fb)[q]]
<1>1. /\ ~cut /\ ~reused
      /\ fb' = Redrawn(drawn)
      /\ cut' = (cut \/ poll # NoPoll)
      /\ spoilt' = (spoilt \/ (last_pixel_saved /\ \E q \in Cursor \cap Written(p) :
                                   drawn[q] # saved[q - x + 1]))
      /\ topbar_previous' = bar /\ snapshot' = [snapshot EXCEPT ![p] = surface[p]]
      /\ last_updated_proc' = p
      /\ UNCHANGED <<bar, surface, open, x, saved, last_pixel_saved, poll, reused, draws>>
  BY DEF Update, Followed, cursor
<1>2. \A q \in Pixels :
        /\ drawn[q] = IF q \in Copied(p) THEN surface[p][q]
                      ELSE IF q < Top /\ bar # topbar_previous THEN bar ELSE fb[q]
        /\ drawn[q] \in PixelColors
        /\ fb'[q] = IF last_pixel_saved /\ q \in Cursor THEN Red ELSE drawn[q]
  BY <1>1 DEF Topped, Redrawn, Copied, ScreenTypeOK, PixelColors
<1>3. fb' \in [Pixels -> PixelColors]
  BY <1>1, <1>2 DEF Redrawn, PixelColors
<1> HIDE DEF drawn
<1>4. ScreenTypeOK'
  BY <1>1, <1>3, ProcsAssumption DEF ScreenTypeOK
<1>5. CursorOnScreen'
  BY <1>1 DEF CursorOnScreen
<1>6. ASSUME ~cut'
      PROVE  CursorIsRed' /\ BehindIsShown'
  <2>1. poll = NoPoll /\ poll[1] = "none" /\ CursorIsRed /\ BehindIsShown
    <3>1. poll = NoPoll
      BY <1>1, <1>6
    <3> QED BY <1>1, <3>1 DEF NoPoll
  <2>2. Covered' = Covered /\ \A q \in Pixels : q \in Covered <=> last_pixel_saved /\ q \in Cursor
    BY <1>1, <2>1, ScreenAssumption DEF Covered, Cursor, ScreenTypeOK, Pixels
  <2>3. CursorIsRed'
    BY <1>2, <2>2, CoveredIndex DEF CursorIsRed
  <2>4. ASSUME ~spoilt', NEW q \in Pixels
        PROVE  /\ Behind(q)' = Shown(q)'
               /\ q \in Covered => Behind(q)' # Clear
    <3>1. ~spoilt /\ (q \in Covered /\ q \in Written(p) => drawn[q] = saved[q - x + 1])
      BY <1>1, <2>2, <2>4
    <3>2. Shown(q)' = IF q < Top THEN bar ELSE surface[p][q]
      BY <1>1 DEF Shown, ScreenTypeOK
    <3>3. q < Top \/ q \in AppPixels
      BY ScreenAssumption DEF Pixels, AppPixels
    <3>4. /\ q \notin Covered => Behind(q)' = drawn[q] /\ Behind(q) = fb[q]
          /\ q \in Covered => Behind(q)' = saved[q - x + 1] /\ Behind(q) = saved[q - x + 1]
      BY <1>1, <1>2, <2>2 DEF Behind
    <3>5. CASE q \in Written(p)
      <4>1. drawn[q] = Shown(q)'
        BY <1>2, <3>2, <3>3, <3>5, ScreenAssumption DEF Written, Copied, AppPixels, Pixels
      <4>2. q \in Covered => saved[q - x + 1] # Clear
        BY <2>1, <3>1, <3>4 DEF BehindIsShown
      <4>3. CASE q \in Covered
        BY <3>1, <3>4, <3>5, <4>1, <4>2, <4>3
      <4>4. CASE q \notin Covered
        BY <3>4, <4>1, <4>4
      <4> QED BY <4>3, <4>4
    <3>6. CASE q \notin Written(p)
      <4>1. drawn[q] = fb[q]
        BY <1>2, <3>6 DEF Written
      <4>2. Shown(q)' = Shown(q) /\ (q < Top \/ last_updated_proc # NoProc)
        BY <3>2, <3>3, <3>6, ProcsAssumption DEF Written, Copied, Shown
      <4> QED BY <2>1, <3>1, <3>4, <4>1, <4>2 DEF BehindIsShown
    <3> QED BY <3>5, <3>6
  <2>5. BehindIsShown'
    BY <2>2, <2>4, CoveredIndex DEF BehindIsShown
  <2> QED BY <2>3, <2>5
<1> QED BY <1>1, <1>4, <1>5, <1>6

LEMMA NextScreenInv == ScreenInv /\ [ScreenNext]_svars => ScreenInv'
<1> SUFFICES ASSUME ScreenInv, [ScreenNext]_svars
             PROVE  ScreenInv'
  OBVIOUS
<1>0. ScreenTypeOK /\ CursorOnScreen
  BY DEF ScreenInv
<1>1. ASSUME NEW p \in Procs, Create(p) PROVE ScreenInv'
  <2>1. /\ open' = open \cup {p} /\ reused' = (reused \/ last_updated_proc = p)
        /\ surface' = [surface EXCEPT ![p] = [q \in AppPixels |-> Clear]]
        /\ UNCHANGED <<fb, bar, topbar_previous, last_updated_proc, x, saved,
                       last_pixel_saved, poll, cut, spoilt, draws>>
    BY <1>1 DEF Create, cursor
  <2>2. PICK c \in Colors : snapshot' = [snapshot EXCEPT ![p] = [q \in AppPixels |-> c]]
    BY <1>1 DEF Create
  <2>3. /\ surface' \in [Procs -> [AppPixels -> Colors \cup {Clear}]]
        /\ snapshot' \in [Procs -> [AppPixels -> Colors \cup {Clear}]]
    BY <1>0, <2>1, <2>2 DEF ScreenTypeOK
  <2>4. ScreenTypeOK'
    BY <1>0, <2>1, <2>3 DEF ScreenTypeOK
  <2>5. ~reused' /\ last_updated_proc # NoProc =>
          snapshot'[last_updated_proc] = snapshot[last_updated_proc]
    BY <1>0, <2>1, <2>2 DEF ScreenTypeOK
  <2> QED BY <2>1, <2>4, <2>5, ScreenAlone
<1>2. ASSUME NEW p \in Procs, End(p) PROVE ScreenInv'
  <2>1. /\ open' = open \ {p}
        /\ UNCHANGED <<fb, bar, topbar_previous, surface, snapshot, last_updated_proc, x, saved,
                       last_pixel_saved, poll, cut, spoilt, reused, draws>>
    BY <1>2 DEF End, cursor
  <2>2. ScreenTypeOK'
    BY <1>0, <2>1 DEF ScreenTypeOK
  <2> QED BY <2>1, <2>2, ScreenAlone
<1>3. ASSUME NEW p \in Procs, Draw(p) PROVE ScreenInv'
  <2>1. /\ draws' = draws + 1
        /\ UNCHANGED <<fb, bar, topbar_previous, snapshot, open, last_updated_proc, x, saved,
                       last_pixel_saved, poll, cut, spoilt, reused>>
    BY <1>3 DEF Draw, cursor
  <2>2. surface' \in [Procs -> [AppPixels -> Colors \cup {Clear}]]
    BY <1>0, <1>3 DEF Draw, ScreenTypeOK
  <2>3. ScreenTypeOK'
    BY <1>0, <2>1, <2>2 DEF ScreenTypeOK
  <2> QED BY <2>1, <2>3, ScreenAlone
<1>4. CASE Tick
  <2>1. /\ bar' \in Bar
        /\ UNCHANGED <<fb, topbar_previous, surface, snapshot, open, last_updated_proc, x, saved,
                       last_pixel_saved, poll, cut, spoilt, reused, draws>>
    BY <1>4 DEF Tick, cursor, apps, Bar
  <2>2. ScreenTypeOK'
    BY <1>0, <2>1 DEF ScreenTypeOK
  <2> QED BY <2>1, <2>2, ScreenAlone
<1>5. CASE Report
  <2>1. /\ poll = <<"none", 0>>
        /\ poll' = IF last_pixel_saved THEN <<"restore", 1>> ELSE <<"move", 1>>
        /\ UNCHANGED <<fb, bar, topbar_previous, surface, snapshot, open, last_updated_proc, reused,
                       draws, x, saved, last_pixel_saved, cut, spoilt>>
    BY <1>5 DEF Report, NoPoll, Goto, apps
  <2>2. /\ poll[1] = "none" /\ poll'[2] = 1
        /\ poll'[1] = IF last_pixel_saved THEN "restore" ELSE "move"
        /\ poll' \in {"none", "restore", "move", "clamp", "paint"} \X (0..CursorSize)
    BY <2>1, ScreenAssumption
  <2>3. ScreenTypeOK'
    BY <1>0, <2>1, <2>2 DEF ScreenTypeOK
  <2>4. CursorOnScreen'
    BY <1>0, <2>1, <2>2, ScreenAssumption DEF CursorOnScreen
  <2>5. Covered' = Covered
    BY <1>0, <2>1, <2>2 DEF Covered, Pixels, ScreenTypeOK
  <2> QED BY <2>1, <2>3, <2>4, <2>5
          DEF ScreenInv, CursorIsRed, BehindIsShown, Behind, Shown
<1>6. CASE Restore
  <2> DEFINE p == x + poll[2] - 1
  <2>1. /\ poll[1] = "restore" /\ poll[2] \in 1..CursorSize /\ last_pixel_saved
        /\ ~cut /\ ~reused
        /\ p \in Pixels /\ p \in Int /\ p - x + 1 = poll[2] /\ p \in Covered
        /\ fb' = PutPixel(fb, p, saved[poll[2]])
        /\ poll' = IF poll[2] < CursorSize THEN <<"restore", poll[2] + 1>> ELSE <<"move", 1>>
        /\ UNCHANGED <<bar, topbar_previous, surface, snapshot, open, last_updated_proc, reused,
                       draws, x, saved, last_pixel_saved, cut, spoilt>>
    BY <1>0, <1>6, ScreenAssumption
       DEF Restore, Followed, Goto, apps, CursorOnScreen, ScreenTypeOK, Pixels, Covered
  <2>2. /\ poll' \in {"none", "restore", "move", "clamp", "paint"} \X (0..CursorSize)
        /\ poll'[1] = IF poll[2] < CursorSize THEN "restore" ELSE "move"
        /\ poll[2] < CursorSize => poll'[2] = poll[2] + 1
    BY <2>1, ScreenAssumption
  <2>3. ScreenTypeOK'
    BY <1>0, <2>1, <2>2 DEF ScreenTypeOK, PutPixel
  <2>4. CursorOnScreen'
    BY <1>0, <2>1, <2>2, ScreenAssumption DEF CursorOnScreen
  <2>5. Covered' = Covered \ {p}
    <3>0. /\ x \in Int /\ CursorSize \in Int /\ poll[2] \in Int /\ poll[2] >= 1
          /\ poll[2] <= CursorSize /\ \A q \in Pixels : q \in Int
      BY <1>0, <2>1, ScreenAssumption DEF Pixels, ScreenTypeOK
    <3>1. \A q \in Pixels : q \in Covered <=> q >= p /\ q < x + CursorSize
      BY <2>1, <3>0 DEF Covered
    <3>2. \A q \in Pixels : q \in Covered' <=> q >= p + 1 /\ q < x + CursorSize
      <4>1. CASE poll[2] < CursorSize
        <5>1. poll'[1] = "restore" /\ poll'[2] = poll[2] + 1 /\ x' = x
          BY <2>1, <2>2, <4>1
        <5> QED BY <3>0, <5>1 DEF Covered, Pixels
      <4>2. CASE poll[2] = CursorSize
        <5>1. poll'[1] = "move"
          BY <2>2, <3>0, <4>2
        <5>2. Covered' = {}
          BY <5>1 DEF Covered
        <5> QED BY <3>0, <4>2, <5>2
      <4> QED BY <3>0, <4>1, <4>2
    <3>3. Covered' \subseteq Pixels /\ Covered \subseteq Pixels
      BY DEF Covered, Pixels
    <3>4. \A q \in Pixels : q \in Covered' <=> q \in Covered /\ q # p
      BY <3>0, <3>1, <3>2
    <3> QED BY <3>3, <3>4
  <2>6. CursorIsRed' /\ BehindIsShown'
    <3>1. CursorIsRed /\ BehindIsShown
      BY <2>1 DEF ScreenInv
    <3>2. \A q \in Pixels : q # p => fb'[q] = fb[q]
      BY <1>0, <2>1 DEF PutPixel, ScreenTypeOK
    <3>3. CursorIsRed'
      BY <2>5, <3>1, <3>2, CoveredIndex DEF CursorIsRed
    <3>4. ~spoilt => fb'[p] = saved[poll[2]]
      BY <1>0, <2>1, <3>1 DEF BehindIsShown, Behind, PutPixel, ScreenTypeOK
    <3>5. ~spoilt => \A q \in Pixels : Behind(q)' = Behind(q)
      BY <2>1, <2>5, <3>2, <3>4 DEF Behind
    <3>6. BehindIsShown'
      BY <2>1, <2>5, <3>1, <3>5, CoveredIndex DEF BehindIsShown, Shown
    <3> QED BY <3>3, <3>6
  <2> QED BY <2>1, <2>3, <2>4, <2>6 DEF ScreenInv
<1>7. CASE Move \/ Clamp
  <2>1. /\ poll[1] \in {"move", "clamp"}
        /\ \/ poll[1] = "move" /\ poll' = <<"clamp", 1>> /\ x' \in Int
           \/ poll[1] = "clamp" /\ poll' = <<"paint", 1>> /\ x' \in 0..(Width - CursorSize)
        /\ UNCHANGED <<fb, bar, topbar_previous, surface, snapshot, open, last_updated_proc, reused,
                       draws, saved, last_pixel_saved, cut, spoilt>>
    BY <1>0, <1>7, ScreenAssumption DEF Move, Clamp, Goto, apps, ScreenTypeOK, CursorOnScreen
  <2>2. /\ poll' \in {"none", "restore", "move", "clamp", "paint"} \X (0..CursorSize)
        /\ poll'[2] = 1 /\ x' \in Int
        /\ \/ poll'[1] = "clamp"
           \/ poll'[1] = "paint" /\ x' \in 0..(Width - CursorSize)
    BY <2>1, ScreenAssumption
  <2>3. ScreenTypeOK'
    BY <1>0, <2>1, <2>2 DEF ScreenTypeOK
  <2>4. CursorOnScreen'
    BY <2>1, <2>2, ScreenAssumption DEF CursorOnScreen
  <2>5. Covered = {} /\ Covered' = {}
    BY <2>1, <2>2 DEF Covered, Pixels
  <2> QED BY <2>1, <2>3, <2>4, <2>5
          DEF ScreenInv, CursorIsRed, BehindIsShown, Behind, Shown
<1>9. CASE Paint
  <2> DEFINE p == x + poll[2] - 1
  <2>1. /\ poll[1] = "paint" /\ poll[2] \in 1..CursorSize /\ ~cut /\ ~reused
        /\ p \in Pixels /\ p \in Int /\ p - x + 1 = poll[2] /\ p \notin Covered
        /\ saved' = [saved EXCEPT ![poll[2]] = fb[p]]
        /\ fb' = PutPixel(fb, p, Red)
        /\ spoilt' = (spoilt \/ fb[p] = Clear)
        /\ poll' = IF poll[2] < CursorSize THEN <<"paint", poll[2] + 1>> ELSE <<"none", 0>>
        /\ last_pixel_saved' = (last_pixel_saved \/ poll[2] = CursorSize)
        /\ UNCHANGED <<bar, topbar_previous, surface, snapshot, open, last_updated_proc, reused,
                       draws, x, cut>>
    BY <1>0, <1>9, ScreenAssumption
       DEF Paint, Followed, NoPoll, Goto, apps, CursorOnScreen, ScreenTypeOK, Pixels, Covered
  <2>2. /\ poll' \in {"none", "restore", "move", "clamp", "paint"} \X (0..CursorSize)
        /\ poll'[1] = IF poll[2] < CursorSize THEN "paint" ELSE "none"
        /\ poll'[2] = IF poll[2] < CursorSize THEN poll[2] + 1 ELSE 0
    BY <2>1, ScreenAssumption
  <2>3. ScreenTypeOK'
    BY <1>0, <2>1, <2>2 DEF ScreenTypeOK, PutPixel, PixelColors
  <2>4. CursorOnScreen'
    BY <1>0, <2>1, <2>2, ScreenAssumption DEF CursorOnScreen
  <2>5. Covered' = Covered \cup {p}
    <3>0. /\ x \in Int /\ CursorSize \in Int /\ poll[2] \in Int /\ poll[2] >= 1
          /\ poll[2] <= CursorSize /\ \A q \in Pixels : q \in Int
      BY <1>0, <2>1, ScreenAssumption DEF Pixels, ScreenTypeOK
    <3>1. \A q \in Pixels : q \in Covered <=> q >= x /\ q < p
      BY <2>1, <3>0 DEF Covered
    <3>2. \A q \in Pixels : q \in Covered' <=> q >= x /\ q <= p
      <4>1. CASE poll[2] < CursorSize
        <5>1. poll'[1] = "paint" /\ poll'[2] = poll[2] + 1 /\ x' = x
          BY <2>1, <2>2, <4>1
        <5> QED BY <3>0, <4>1, <5>1 DEF Covered, Pixels
      <4>2. CASE poll[2] = CursorSize
        <5>1. poll'[1] = "none" /\ x' = x
          BY <2>1, <2>2, <3>0, <4>2
        <5>2. last_pixel_saved'
          BY <2>1, <4>2, Zenon
        <5> QED BY <3>0, <4>2, <5>1, <5>2 DEF Covered, Pixels
      <4> QED BY <3>0, <4>1, <4>2
    <3>3. Covered' \subseteq Pixels /\ Covered \subseteq Pixels /\ p \in Pixels
      BY <2>1 DEF Covered, Pixels
    <3>4. \A q \in Pixels : q \in Covered' <=> q \in Covered \/ q = p
      BY <3>0, <3>1, <3>2
    <3> QED BY <3>3, <3>4
  <2>6. CursorIsRed' /\ BehindIsShown'
    <3>1. CursorIsRed /\ BehindIsShown
      BY <2>1 DEF ScreenInv
    <3>4. \A q \in Pixels : fb'[q] = IF q = p THEN Red ELSE fb[q]
      BY <1>0, <2>1 DEF PutPixel, ScreenTypeOK, Red, Clear
    <3>7. \A q \in Covered : q - x + 1 # poll[2] /\ q - x + 1 \in 1..CursorSize
      BY <1>0, <2>1, CoveredIndex DEF ScreenTypeOK
    <3>2. /\ \A q \in Pixels : fb'[q] = IF q = p THEN Red ELSE fb[q]
          /\ saved'[poll[2]] = fb[p]
          /\ \A q \in Covered : saved'[q - x + 1] = saved[q - x + 1]
      BY <1>0, <2>1, <3>4, <3>7 DEF ScreenTypeOK
    <3>3. CursorIsRed'
      BY <2>1, <2>5, <3>1, <3>2, CoveredIndex DEF CursorIsRed
    <3>5. \A q \in Pixels : Behind(q)' = Behind(q)
      BY <2>1, <2>5, <3>2 DEF Behind
    <3>6. BehindIsShown'
      <4>1. \A q : Shown(q)' = Shown(q)
        BY <2>1 DEF Shown
      <4>2. ~spoilt' => ~spoilt /\ Behind(p) # Clear
        BY <2>1 DEF Behind
      <4> QED BY <2>1, <2>5, <3>1, <3>5, <4>1, <4>2, CoveredIndex DEF BehindIsShown
    <3> QED BY <3>3, <3>6
  <2> QED BY <2>1, <2>3, <2>4, <2>6 DEF ScreenInv
<1>10. CASE UNCHANGED svars
  <2>1. ScreenTypeOK'
    BY <1>0, <1>10 DEF svars, ScreenTypeOK
  <2> QED BY <1>10, <2>1, ScreenAlone DEF svars
<1> QED
  BY <1>1, <1>2, <1>3, <1>4, <1>5, <1>6, <1>7, <1>9, <1>10, UpdateKeepsScreenInv
     DEF ScreenNext

(* Behind the cursor the screen shows what the last program to update drew *)
(* and the top bar drawn with it, and the cursor is seen (usb_mouse_poll,  *)
(* sys_surface_update), for any programs, width, cursor and colours.       *)
THEOREM ScreenShows == ScreenSpec => []ShowsWhatWasDrawn
<1>1. ScreenSpec => []ScreenInv
  BY InitScreenInv, NextScreenInv, PTL DEF ScreenSpec
<1>2. ScreenInv => ShowsWhatWasDrawn
  <2> SUFFICES ASSUME ScreenInv, poll = NoPoll, ~cut
               PROVE  /\ last_pixel_saved => \A p \in Cursor : fb[p] = Red
                      /\ ~spoilt /\ ~reused /\ last_updated_proc # NoProc =>
                           \A p \in Pixels \ (IF last_pixel_saved THEN Cursor ELSE {}) :
                             fb[p] = Shown(p)
    BY DEF ShowsWhatWasDrawn, ScreenIsRight, CursorIsVisible, Shown
  <2>1. poll[1] = "none" /\ CursorIsRed /\ (~reused => BehindIsShown)
    BY DEF ScreenInv, NoPoll
  <2>2. \A q \in Pixels : q \in Covered <=> last_pixel_saved /\ q \in Cursor
    BY <2>1, ScreenAssumption DEF ScreenInv, ScreenTypeOK, Covered, Cursor, Pixels
  <2>3. Cursor \subseteq Pixels
    BY DEF Cursor
  <2> QED BY <2>1, <2>2, <2>3 DEF CursorIsRed, BehindIsShown, Behind
<1> QED BY <1>1, <1>2, PTL

-----------------------------------------------------------------------------
(***************************************************************************)
(* The keyboard: which keys the program on screen believes down at every   *)
(* step of a poll, and what standard input holds.                          *)
(***************************************************************************)
Chars == {Char(key, mods) : key \in Keys, mods \in Modifiers} \cup {Uart}

(* The keys the program on screen can be told about.                        *)
Tellable == Keys \ (Silent \cup {NoKey})

Sheets == [keys : Reports, mods : Modifiers]

KeyboardTypeOK ==
  /\ wire \in Seq(Sheets) /\ report \in Reports /\ last \in Reports
  /\ report_mods \in Modifiers /\ last_mods \in Modifiers
  /\ modifiers \in Modifiers /\ previous_modifiers \in Modifiers
  /\ has_report \in BOOLEAN /\ raced \in BOOLEAN /\ reading \in BOOLEAN
  /\ at \in {"idle", "transfer", "release", "press"} \X (0..(Slots + 1))
  /\ at[1] = "idle" => at[2] = 0
  /\ at[1] = "release" => at[2] \in 1..Slots
  /\ at[1] = "press" => at[2] \in 1..(Slots + 1)
  /\ stdin \in Seq(Chars) /\ given \in Seq(Chars) /\ typed \in Seq(Chars)

(* The channel is init's while its transfer is under way; reports are       *)
(* compared from the second one on.                                        *)
ChannelIsKnown ==
  /\ hcint \in {"busy", "done"} => at[1] = "transfer"
  /\ ~has_report => last = NoReport
  /\ at[1] \in {"release", "press"} => has_report

(* While init compares, its locals hold the modifiers of the two reports.  *)
LocalsAreKnown ==
  at[1] \in {"release", "press"} =>
    modifiers = report_mods /\ previous_modifiers = last_mods

(* Keys that have changed since the last report are told in the order of   *)
(* its slots, then in the order of those of this one; the other keys are   *)
(* as the last report had them, unless they are apart.                     *)
Told(key, slots, upto) == \E j \in 1..upto : slots[j] = key

HeldIsKnown ==
  \A key \in Tellable : key \notin apart =>
    CASE at[1] = "release" /\ Has(last, key) /\ ~Has(report, key) ->
           Believed(key) = IF Told(key, last, at[2] - 1) THEN {} ELSE {Char(key, last_mods)}
      [] at[1] = "press" /\ Has(last, key) /\ ~Has(report, key) -> Believed(key) = {}
      [] at[1] = "press" /\ ~Has(last, key) /\ Has(report, key) ->
           Believed(key) = IF Told(key, report, at[2] - 1) THEN {Char(key, report_mods)} ELSE {}
      [] OTHER -> Believed(key) = IF Has(last, key) THEN {Char(key, last_mods)} ELSE {}

(* Nothing is believed of the other keys.                                  *)
OnlyTellable == \A key \in Keys \ Tellable : Believed(key) = {}

KeyboardInv ==
  /\ KeyboardTypeOK /\ ChannelIsKnown /\ OnlyTellable
  /\ raced \/ (LocalsAreKnown /\ HeldIsKnown)
  /\ StdinKeepsAll

(* A character tells its key.                                              *)
LEMMA CharOfKey ==
    ASSUME NEW key, NEW mods
    PROVE  Char(key, mods)[1] = key
BY DEF Char

(* Only what is believed of the key of a character changes with it.        *)
LEMMA BelievedLess ==
    ASSUME NEW key, NEW other, NEW mods, held' = held \ {Char(other, mods)}
    PROVE  Believed(key)' = IF other = key THEN Believed(key) \ {Char(key, mods)} ELSE Believed(key)
BY CharOfKey DEF Believed

LEMMA BelievedMore ==
    ASSUME NEW key, NEW other, NEW mods, held' = held \cup {Char(other, mods)}
    PROVE  Believed(key)' = IF other = key THEN Believed(key) \cup {Char(key, mods)} ELSE Believed(key)
BY CharOfKey DEF Believed

LEMMA BelievedSame ==
    ASSUME NEW key, held' = held
    PROVE  Believed(key)' = Believed(key)
BY DEF Believed

(* The presses of one report are at most as many as it has slots.          *)
LEMMA InSlotOrderBounded ==
    ASSUME NEW r \in Reports, NEW wanted \in SUBSET Keys
    PROVE  InSlotOrder(r, wanted) \in Seq(Keys) /\ Len(InSlotOrder(r, wanted)) <= Slots
<1> DEFINE Step(i, s) == IF r[i] \in wanted THEN Append(s, r[i]) ELSE s
           next_ == [i \in 1..Slots |-> [s \in Seq(Keys) |-> Step(i, s)]]
           IsUpto(f) == f = [i \in 0..Slots |-> IF i = 0 THEN <<>> ELSE Step(i, f[i - 1])]
           Upto == CHOOSE f : IsUpto(f)
<1>1. \A i \in 1..Slots, s \in Seq(Keys) : Step(i, s) \in Seq(Keys) /\ Len(Step(i, s)) <= Len(s) + 1
  OBVIOUS
<1>9. InSlotOrder(r, wanted) = Upto[Slots]
  BY DEF InSlotOrder
<1> HIDE DEF Step
<1>2. Slots \in Nat /\ <<>> \in Seq(Keys) /\ next_ \in [1..Slots -> [Seq(Keys) -> Seq(Keys)]]
  BY <1>1, KeyboardAssumption
<1>3. PICK f : StepsFrom(f, <<>>, Slots, Seq(Keys), next_)
  <2> HIDE DEF next_
  <2> QED BY <1>2, RecursionExists
<1>4. ASSUME NEW i \in 1..Slots PROVE f[i] = Step(i, f[i - 1])
  <2>1. f[i] = next_[i][f[i - 1]] /\ f[i - 1] \in Seq(Keys)
    <3>1. i - 1 \in 0..Slots
      BY <1>2
    <3> HIDE DEF next_
    <3> QED BY <1>3, <3>1 DEF StepsFrom
  <2>2. \A s \in Seq(Keys) : next_[i][s] = Step(i, s)
    OBVIOUS
  <2> QED BY <2>1, <2>2
<1>5. IsUpto(f)
  <2>1. f \in [0..Slots -> Seq(Keys)] /\ f[0] = <<>>
    BY <1>3 DEF StepsFrom
  <2>2. ASSUME NEW i \in 0..Slots
        PROVE  f[i] = IF i = 0 THEN <<>> ELSE Step(i, f[i - 1])
    <3>1. i = 0 \/ i \in 1..Slots
      BY <1>2
    <3> QED BY <1>4, <2>1, <3>1
  <2> QED BY <2>1, <2>2
<1>6. IsUpto(Upto)
  BY <1>5
<1> HIDE DEF Upto
<1>7. /\ Upto[0] = <<>>
      /\ \A i \in 1..Slots : Upto[i] = Step(i, Upto[i - 1])
  BY <1>2, <1>6
<1> HIDE DEF IsUpto, next_
<1> DEFINE Good == {i \in 0..Slots : Upto[i] \in Seq(Keys) /\ Len(Upto[i]) <= i}
<1>8. \A k \in 0..Slots : k \in Good
  <2>1. 0 \in Good
    <3>1. 0 \in 0..Slots /\ Upto[0] \in Seq(Keys)
      BY <1>2, <1>7
    <3>2. Len(Upto[0]) = 0
      BY <1>7
    <3> QED BY <3>1, <3>2
  <2>2. ASSUME NEW k \in 0..(Slots - 1), k \in Good PROVE k + 1 \in Good
    <3>1. k + 1 \in 1..Slots /\ Upto[k] \in Seq(Keys) /\ Len(Upto[k]) <= k
      BY <1>2, <2>2
    <3>2. Upto[k + 1] = Step(k + 1, Upto[k])
      BY <1>7, <3>1
    <3> QED BY <1>1, <1>2, <3>1, <3>2
  <2> HIDE DEF Good
  <2> QED BY <1>2, <2>1, <2>2, IntervalInduction
<1> QED BY <1>2, <1>8, <1>9

LEMMA InitKeyboardInv == KeyboardInit => KeyboardInv
<1> SUFFICES ASSUME KeyboardInit PROVE KeyboardInv
  OBVIOUS
<1>1. NoReport \in Reports /\ Slots \in Nat
  BY KeyboardAssumption DEF NoReport, Reports
<1>2. /\ at[1] = "idle" /\ at[2] = 0
      /\ at \in {"idle", "transfer", "release", "press"} \X (0..(Slots + 1))
  BY <1>1 DEF KeyboardInit, Idle
<1>3. KeyboardTypeOK
  <2>1. /\ wire \in Seq(Sheets)
        /\ stdin \in Seq(Chars) /\ given \in Seq(Chars) /\ typed \in Seq(Chars)
    BY DEF KeyboardInit
  <2>2. /\ report \in Reports /\ last \in Reports
        /\ has_report \in BOOLEAN /\ raced \in BOOLEAN /\ reading \in BOOLEAN
        /\ report_mods \in Modifiers /\ last_mods \in Modifiers
        /\ modifiers \in Modifiers /\ previous_modifiers \in Modifiers
    BY <1>1 DEF KeyboardInit, Modifiers
  <2> QED BY <1>2, <2>1, <2>2 DEF KeyboardTypeOK
<1>4. ChannelIsKnown
  BY <1>2 DEF KeyboardInit, ChannelIsKnown
<1>5. LocalsAreKnown /\ HeldIsKnown /\ OnlyTellable
  <2>1. \A key \in Keys : Believed(key) = {}
    BY DEF KeyboardInit, Believed
  <2>2. \A key \in Tellable : Believed(key) = {} /\ ~Has(last, key)
    BY <2>1 DEF KeyboardInit, Has, NoReport, Tellable
  <2> QED BY <1>2, <2>1, <2>2 DEF LocalsAreKnown, HeldIsKnown, OnlyTellable
<1>6. StdinKeepsAll
  BY DEF KeyboardInit, StdinKeepsAll
<1> QED BY <1>3, <1>4, <1>5, <1>6 DEF KeyboardInv

(* A turn of the loop over the slots tells one more of them.                *)
LEMMA ToldOneMore ==
    ASSUME NEW r \in Reports, NEW key \in Tellable, NEW i \in 1..Slots
    PROVE  /\ Told(key, r, i) <=> Told(key, r, i - 1) \/ r[i] = key
           /\ ~Told(key, r, 0)
           /\ Told(key, r, Slots) <=> Has(r, key)
<1>1. Slots \in Nat
  BY KeyboardAssumption
<1>2. \A j \in Nat : j \in 1..i <=> j \in 1..(i - 1) \/ j = i
  BY <1>1
<1> QED BY <1>1, <1>2 DEF Told, Has

LEMMA HasKeysOf ==
    ASSUME NEW r, NEW key \in Tellable
    PROVE  key \in KeysOf(r) <=> Has(r, key)
BY DEF KeysOf, Has, Tellable

LEMMA TypeKeepsKeyboardInv == KeyboardInv /\ Type => KeyboardInv'
<1> SUFFICES ASSUME KeyboardInv, Type PROVE KeyboardInv'
  OBVIOUS
<1> USE DEF KeyboardInv
<1>1. wire' \in Seq(Sheets)
  BY DEF Type, KeyboardTypeOK, Sheets
<1>2. KeyboardTypeOK'
  BY <1>1 DEF Type, buffer, lasts, locals, input, KeyboardTypeOK
<1>3. ChannelIsKnown' /\ OnlyTellable'
  BY DEF Type, lasts, ChannelIsKnown, OnlyTellable, Believed
<1>4. raced' \/ (LocalsAreKnown' /\ HeldIsKnown')
  BY DEF Type, buffer, lasts, locals, LocalsAreKnown, HeldIsKnown, Believed, Told, Has
<1>5. StdinKeepsAll'
  BY DEF Type, input, StdinKeepsAll
<1> QED BY <1>2, <1>3, <1>4, <1>5

(* While init is between two comparisons every key is as the last report    *)
(* has it.                                                                 *)
LEMMA HeldBetween ==
    ASSUME HeldIsKnown, at[1] \notin {"release", "press"}
    PROVE  \A key \in Tellable : key \notin apart =>
             Believed(key) = IF Has(last, key) THEN {Char(key, last_mods)} ELSE {}
BY DEF HeldIsKnown

LEMMA HeldBetweenNext ==
    ASSUME at'[1] \notin {"release", "press"},
           \A key \in Tellable : key \notin apart' =>
             Believed(key)' = (IF Has(last, key) THEN {Char(key, last_mods)} ELSE {})'
    PROVE  LocalsAreKnown' /\ HeldIsKnown'
BY DEF HeldIsKnown, LocalsAreKnown

LEMMA StartKeepsKeyboardInv == KeyboardInv /\ (Start \/ NoTransfer) => KeyboardInv'
<1> SUFFICES ASSUME KeyboardInv, Start \/ NoTransfer PROVE KeyboardInv'
  OBVIOUS
<1> USE DEF KeyboardInv
<1>1. /\ at[1] \in {"idle", "transfer"} /\ at'[1] \in {"idle", "transfer"} /\ at'[2] = 0
      /\ at' \in {"idle", "transfer"} \X (0..(Slots + 1))
      /\ hcint' = "busy" => at'[1] = "transfer"
      /\ hcint' # "done"
  BY KeyboardAssumption DEF Start, NoTransfer, Idle
<1>2. UNCHANGED <<wire, reported, report, report_mods, last, last_mods, modifiers,
                  previous_modifiers, has_report, raced, apart, held,
                  stdin, reading, typed, given>>
  BY DEF Start, NoTransfer, hand, buffer, lasts, locals, input
<1>3. KeyboardTypeOK'
  BY <1>1, <1>2 DEF KeyboardTypeOK
<1>4. ChannelIsKnown' /\ OnlyTellable'
  BY <1>1, <1>2 DEF ChannelIsKnown, OnlyTellable, Believed
<1>5. raced' \/ (LocalsAreKnown' /\ HeldIsKnown')
  <2>1. CASE HeldIsKnown
    BY <1>1, <1>2, <2>1, HeldBetween, HeldBetweenNext DEF Has, Believed
  <2> QED BY <1>2, <2>1
<1>6. StdinKeepsAll'
  BY <1>2 DEF StdinKeepsAll
<1> QED BY <1>3, <1>4, <1>5, <1>6

LEMMA SheetTaken ==
    ASSUME wire \in Seq(Sheets), wire # <<>>
    PROVE  /\ Head(wire).keys \in Reports /\ Head(wire).mods \in Modifiers
           /\ Tail(wire) \in Seq(Sheets)
<1>1. Head(wire) \in Sheets /\ Tail(wire) \in Seq(Sheets)
  OBVIOUS
<1> QED BY <1>1 DEF Sheets

LEMMA ReceiveKeepsKeyboardInv == KeyboardInv /\ Receive => KeyboardInv'
<1> SUFFICES ASSUME KeyboardInv, Receive PROVE KeyboardInv'
  OBVIOUS
<1> USE DEF KeyboardInv
<1>1. at[1] = "transfer" /\ hcint' = "done"
  BY DEF Receive, ChannelIsKnown
<1>2. wire' \in Seq(Sheets) /\ report' \in Reports /\ report_mods' \in Modifiers
  BY SheetTaken DEF Receive, KeyboardTypeOK
<1>3. UNCHANGED <<reported, at, last, last_mods, modifiers, previous_modifiers, has_report,
                  raced, apart, held, stdin, reading, typed, given>>
  BY DEF Receive, lasts, locals, input
<1>4. KeyboardTypeOK'
  BY <1>1, <1>2, <1>3 DEF KeyboardTypeOK
<1>5. ChannelIsKnown' /\ OnlyTellable'
  BY <1>1, <1>3 DEF ChannelIsKnown, OnlyTellable, Believed
<1>6. raced' \/ (LocalsAreKnown' /\ HeldIsKnown')
  <2>1. CASE HeldIsKnown
    BY <1>1, <1>3, <2>1, HeldBetween, HeldBetweenNext DEF Has, Believed
  <2> QED BY <1>3, <2>1
<1>7. StdinKeepsAll'
  BY <1>3 DEF StdinKeepsAll
<1> QED BY <1>4, <1>5, <1>6, <1>7

LEMMA FirstReportKeepsKeyboardInv == KeyboardInv /\ FirstReport => KeyboardInv'
<1> SUFFICES ASSUME KeyboardInv, FirstReport PROVE KeyboardInv'
  OBVIOUS
<1> USE DEF KeyboardInv
<1>1. /\ at[1] = "transfer" /\ at'[1] = "idle" /\ at'[2] = 0 /\ hcint' = "idle"
      /\ at' \in {"idle"} \X (0..(Slots + 1))
  BY KeyboardAssumption DEF FirstReport, Idle
<1>2. UNCHANGED <<wire, reported, report, report_mods, modifiers, previous_modifiers, raced,
                  held, stdin, reading, typed, given>>
  BY DEF FirstReport, hand, buffer, locals, input
<1>3. /\ last' = report /\ last_mods' = report_mods /\ has_report' = TRUE
      /\ apart' = apart \cup KeysOf(report)
  BY DEF FirstReport
<1>4. KeyboardTypeOK'
  BY <1>1, <1>2, <1>3 DEF KeyboardTypeOK
<1>5. ChannelIsKnown' /\ OnlyTellable'
  BY <1>1, <1>2, <1>3 DEF ChannelIsKnown, OnlyTellable, Believed
<1>6. raced' \/ (LocalsAreKnown' /\ HeldIsKnown')
  <2>1. CASE HeldIsKnown
    <3>1. last = NoReport
      BY DEF FirstReport, ChannelIsKnown
    <3>2. ASSUME NEW key \in Tellable, key \notin apart'
          PROVE  Believed(key)' = (IF Has(last, key) THEN {Char(key, last_mods)} ELSE {})'
      <4>1. ~Has(last, key)
        BY <3>1 DEF Has, NoReport, Tellable
      <4>2. ~Has(report, key) /\ key \notin apart
        BY <1>3, <3>2, HasKeysOf
      <4>3. Believed(key) = {}
        BY <1>1, <2>1, <4>1, <4>2, HeldBetween
      <4>4. ~Has(last, key)'
        BY <1>3, <4>2 DEF Has
      <4> QED BY <1>2, <4>3, <4>4, BelievedSame
    <3> QED BY <1>1, <3>2, HeldBetweenNext
  <2> QED BY <1>2, <2>1
<1>7. StdinKeepsAll'
  BY <1>2 DEF StdinKeepsAll
<1> QED BY <1>4, <1>5, <1>6, <1>7

LEMMA CompareKeepsKeyboardInv == KeyboardInv /\ Compare => KeyboardInv'
<1> SUFFICES ASSUME KeyboardInv, Compare PROVE KeyboardInv'
  OBVIOUS
<1> USE DEF KeyboardInv
<1>1. /\ at[1] = "transfer" /\ at'[1] = "release" /\ at'[2] = 1 /\ hcint' = "idle"
      /\ has_report = TRUE
      /\ at' \in {"release"} \X (0..(Slots + 1)) /\ 1 \in 1..Slots
  BY KeyboardAssumption DEF Compare, KeyboardTypeOK
<1>2. UNCHANGED <<wire, reported, report, report_mods, last, last_mods, has_report, raced,
                  apart, held, stdin, reading, typed, given>>
  BY DEF Compare, hand, buffer, lasts, input
<1>7. modifiers' = report_mods /\ previous_modifiers' = last_mods
  BY DEF Compare
<1>3. KeyboardTypeOK'
  BY <1>1, <1>2, <1>7 DEF KeyboardTypeOK
<1>4. ChannelIsKnown' /\ OnlyTellable'
  BY <1>1, <1>2 DEF ChannelIsKnown, OnlyTellable, Believed
<1>5. raced' \/ (LocalsAreKnown' /\ HeldIsKnown')
  <2>1. CASE HeldIsKnown
    <3>1. \A key \in Tellable :
            /\ key \notin apart =>
                 Believed(key) = IF Has(last, key) THEN {Char(key, last_mods)} ELSE {}
            /\ ~Told(key, last, 0)
            /\ Has(last, key)' <=> Has(last, key)
      BY <1>1, <1>2, <2>1, HeldBetween, ToldOneMore DEF KeyboardTypeOK, Has
    <3>2. \A key \in Tellable : ~Told(key, last', 0) /\ Believed(key)' = Believed(key)
      BY <1>2, <3>1, BelievedSame
    <3>3. LocalsAreKnown'
      BY <1>2, <1>7 DEF LocalsAreKnown
    <3> QED BY <1>1, <1>2, <3>1, <3>2, <3>3 DEF HeldIsKnown
  <2> QED BY <1>2, <2>1
<1>6. StdinKeepsAll'
  BY <1>2 DEF StdinKeepsAll
<1> QED BY <1>3, <1>4, <1>5, <1>6

LEMMA ReleaseKeepsKeyboardInv == KeyboardInv /\ Release => KeyboardInv'
<1> SUFFICES ASSUME KeyboardInv, Release PROVE KeyboardInv'
  OBVIOUS
<1> USE DEF KeyboardInv
<1> DEFINE i == at[2]
<1>1. at[1] = "release" /\ i \in 1..Slots /\ Slots \in Nat /\ has_report
  BY KeyboardAssumption DEF Release, KeyboardTypeOK, ChannelIsKnown
<1>2. UNCHANGED <<wire, reported, hcint, report, report_mods, last, last_mods, modifiers,
                  previous_modifiers, has_report, raced, apart, stdin, reading, typed, given>>
  BY DEF Release, hand, buffer, lasts, locals, input
<1>8. \A key \in Keys :
        Believed(key)' = IF key \in Tellable /\ last[i] = key /\ ~Has(report, key)
                         THEN Believed(key) \ {Char(key, previous_modifiers)} ELSE Believed(key)
  <2>1. CASE last[i] = NoKey \/ Has(report, last[i]) \/ last[i] \in Silent
    BY <2>1, BelievedSame DEF Release, Tellable
  <2>2. CASE ~(last[i] = NoKey \/ Has(report, last[i]) \/ last[i] \in Silent)
    BY <2>2, BelievedLess DEF Release, Tellable
  <2> QED BY <2>1, <2>2
<1>3. \/ i < Slots /\ at'[1] = "release" /\ at'[2] = i + 1
         /\ at' \in {"release"} \X (0..(Slots + 1))
      \/ i = Slots /\ at'[1] = "press" /\ at'[2] = 1
         /\ at' \in {"press"} \X (0..(Slots + 1))
  BY <1>1 DEF Release
<1>4. KeyboardTypeOK'
  BY <1>1, <1>2, <1>3 DEF KeyboardTypeOK
<1>5. ChannelIsKnown' /\ OnlyTellable'
  BY <1>1, <1>2, <1>3, <1>8 DEF ChannelIsKnown, OnlyTellable
<1>6. raced' \/ (LocalsAreKnown' /\ HeldIsKnown')
  <2>1. CASE LocalsAreKnown /\ HeldIsKnown
    <3>1. ASSUME NEW key \in Tellable, key \notin apart
          PROVE  Believed(key)' =
                   IF Has(last, key) /\ ~(~Has(report, key) /\ Told(key, last, i))
                   THEN {Char(key, last_mods)} ELSE {}
      <4>1. Told(key, last, i) <=> Told(key, last, i - 1) \/ last[i] = key
        BY <1>1, ToldOneMore DEF KeyboardTypeOK
      <4>2. Believed(key)' = IF last[i] = key /\ ~Has(report, key)
                             THEN Believed(key) \ {Char(key, last_mods)} ELSE Believed(key)
        BY <1>1, <1>8, <2>1 DEF LocalsAreKnown, Tellable
      <4>3. last[i] = key => Has(last, key)
        BY <1>1 DEF Has
      <4>4. CASE Has(last, key) /\ ~Has(report, key)
        <5>1. Believed(key) = IF Told(key, last, i - 1) THEN {} ELSE {Char(key, last_mods)}
          BY <1>1, <2>1, <3>1, <4>4 DEF HeldIsKnown
        <5> QED BY <4>1, <4>2, <4>4, <5>1
      <4>5. CASE ~(Has(last, key) /\ ~Has(report, key))
        <5>1. Believed(key) = IF Has(last, key) THEN {Char(key, last_mods)} ELSE {}
          BY <1>1, <2>1, <3>1, <4>5 DEF HeldIsKnown
        <5> QED BY <4>2, <4>3, <4>5, <5>1
      <4> QED BY <4>4, <4>5
    <3>2. \A key \in Tellable :
            /\ Has(last, key)' <=> Has(last, key)
            /\ Has(report, key)' <=> Has(report, key)
            /\ ~Told(key, report, 0) /\ (Told(key, last, Slots) <=> Has(last, key))
      BY <1>1, <1>2, ToldOneMore DEF KeyboardTypeOK, Has
    <3>5. LocalsAreKnown'
      BY <1>1, <1>2, <2>1 DEF LocalsAreKnown
    <3>3. CASE i < Slots
      <4>1. at'[1] = "release" /\ at'[2] - 1 = i
        BY <1>1, <1>3, <3>3
      <4>2. \A key \in Tellable : Told(key, last', at'[2] - 1) <=> Told(key, last, i)
        BY <1>2, <4>1
      <4> QED BY <1>2, <3>1, <3>2, <3>5, <4>1, <4>2 DEF HeldIsKnown
    <3>4. CASE i = Slots
      <4>1. at'[1] = "press" /\ at'[2] - 1 = 0
        BY <1>1, <1>3, <3>4
      <4>2. \A key \in Tellable : ~Told(key, report', at'[2] - 1)
        BY <1>2, <3>2, <4>1
      <4>3. \A key \in Tellable : Told(key, last, i) <=> Has(last, key)
        BY <3>2, <3>4
      <4> QED BY <1>2, <3>1, <3>2, <3>4, <3>5, <4>1, <4>2, <4>3 DEF HeldIsKnown
    <3> QED BY <1>1, <3>3, <3>4
  <2> QED BY <1>2, <2>1
<1>7. StdinKeepsAll'
  BY <1>2 DEF StdinKeepsAll
<1> QED BY <1>4, <1>5, <1>6, <1>7

LEMMA PressKeepsKeyboardInv == KeyboardInv /\ Press => KeyboardInv'
<1> SUFFICES ASSUME KeyboardInv, Press PROVE KeyboardInv'
  OBVIOUS
<1> USE DEF KeyboardInv
<1> DEFINE i == at[2]
<1>1. at[1] = "press" /\ i \in 1..Slots /\ Slots \in Nat
  BY KeyboardAssumption DEF Press, KeyboardTypeOK
<1>2. UNCHANGED <<wire, reported, hcint, report, report_mods, last, last_mods, modifiers,
                  previous_modifiers, has_report, raced, apart, stdin, reading, typed, given>>
  BY DEF Press, hand, buffer, lasts, locals, input
<1>3. \A key \in Keys :
        Believed(key)' = IF key \in Tellable /\ report[i] = key /\ ~Has(last, key)
                         THEN Believed(key) \cup {Char(key, modifiers)} ELSE Believed(key)
  <2>1. CASE report[i] = NoKey \/ Has(last, report[i]) \/ report[i] \in Silent
    BY <2>1, BelievedSame DEF Press, Tellable
  <2>2. CASE ~(report[i] = NoKey \/ Has(last, report[i]) \/ report[i] \in Silent)
    BY <2>2, BelievedMore DEF Press, Tellable
  <2> QED BY <2>1, <2>2
<1>4. at'[1] = "press" /\ at'[2] = i + 1 /\ at' \in {"press"} \X (0..(Slots + 1))
  BY <1>1 DEF Press
<1>5. KeyboardTypeOK'
  BY <1>1, <1>2, <1>4 DEF KeyboardTypeOK
<1>6. ChannelIsKnown' /\ OnlyTellable'
  BY <1>1, <1>2, <1>3, <1>4 DEF ChannelIsKnown, OnlyTellable
<1>7. raced' \/ (LocalsAreKnown' /\ HeldIsKnown')
  <2>1. CASE LocalsAreKnown /\ HeldIsKnown
    <3>1. ASSUME NEW key \in Tellable, key \notin apart
          PROVE  /\ Has(last, key) /\ ~Has(report, key) => Believed(key)' = {}
                 /\ ~Has(last, key) /\ Has(report, key) =>
                      Believed(key)' = IF Told(key, report, i) THEN {Char(key, report_mods)} ELSE {}
                 /\ (Has(last, key) <=> Has(report, key)) =>
                      Believed(key)' = IF Has(last, key) THEN {Char(key, last_mods)} ELSE {}
      <4>1. Told(key, report, i) <=> Told(key, report, i - 1) \/ report[i] = key
        BY <1>1, ToldOneMore DEF KeyboardTypeOK
      <4>2. Believed(key)' = IF report[i] = key /\ ~Has(last, key)
                             THEN Believed(key) \cup {Char(key, report_mods)} ELSE Believed(key)
        BY <1>1, <1>3, <2>1 DEF LocalsAreKnown, Tellable
      <4>3. report[i] = key => Has(report, key)
        BY <1>1 DEF Has
      <4>4. CASE Has(last, key) /\ ~Has(report, key)
        BY <1>1, <2>1, <3>1, <4>2, <4>3, <4>4 DEF HeldIsKnown
      <4>5. CASE ~Has(last, key) /\ Has(report, key)
        <5>1. Believed(key) = IF Told(key, report, i - 1) THEN {Char(key, report_mods)} ELSE {}
          BY <1>1, <2>1, <3>1, <4>5 DEF HeldIsKnown
        <5> QED BY <4>1, <4>2, <4>5, <5>1
      <4>6. CASE Has(last, key) <=> Has(report, key)
        <5>1. Believed(key) = IF Has(last, key) THEN {Char(key, last_mods)} ELSE {}
          BY <1>1, <2>1, <3>1, <4>6 DEF HeldIsKnown
        <5> QED BY <4>2, <4>3, <4>6, <5>1
      <4> QED BY <4>4, <4>5, <4>6
    <3>2. \A key \in Tellable :
            /\ Has(last, key)' <=> Has(last, key)
            /\ Has(report, key)' <=> Has(report, key)
            /\ Told(key, report', at'[2] - 1) <=> Told(key, report, i)
      <4>1. at'[2] - 1 = i
        BY <1>1, <1>4
      <4> QED BY <1>2, <4>1 DEF Has
    <3>3. LocalsAreKnown'
      BY <1>1, <1>2, <2>1 DEF LocalsAreKnown
    <3> QED BY <1>2, <1>4, <3>1, <3>2, <3>3 DEF HeldIsKnown
  <2> QED BY <1>2, <2>1
<1>8. StdinKeepsAll'
  BY <1>2 DEF StdinKeepsAll
<1> QED BY <1>5, <1>6, <1>7, <1>8

LEMMA RememberKeepsKeyboardInv == KeyboardInv /\ Remember => KeyboardInv'
<1> SUFFICES ASSUME KeyboardInv, Remember PROVE KeyboardInv'
  OBVIOUS
<1> USE DEF KeyboardInv
<1>1. /\ at[1] = "press" /\ at[2] = Slots + 1 /\ at'[1] = "idle" /\ at'[2] = 0
      /\ at' \in {"idle"} \X (0..(Slots + 1)) /\ Slots \in 1..Slots
  BY KeyboardAssumption DEF Remember, Idle
<1>2. UNCHANGED <<wire, reported, hcint, report, report_mods, modifiers, previous_modifiers,
                  has_report, raced, held, stdin, reading, typed, given>>
  BY DEF Remember, hand, buffer, locals, input
<1>3. /\ last' = report /\ last_mods' = report_mods
      /\ apart' = {key \in apart \cup Slid : Believed(key) # Characters(report, report_mods, key)}
  BY DEF Remember
<1>4. KeyboardTypeOK'
  BY <1>1, <1>2, <1>3 DEF KeyboardTypeOK
<1>5. ChannelIsKnown' /\ OnlyTellable'
  BY <1>1, <1>2 DEF ChannelIsKnown, OnlyTellable, Believed
<1>6. raced' \/ (LocalsAreKnown' /\ HeldIsKnown')
  <2>1. CASE HeldIsKnown
    <3>1. ASSUME NEW key \in Tellable, key \notin apart'
          PROVE  Believed(key)' = (IF Has(last, key) THEN {Char(key, last_mods)} ELSE {})'
      <4>1. (Has(last, key)' <=> Has(report, key)) /\ Believed(key)' = Believed(key)
        BY <1>2, <1>3, BelievedSame DEF Has
      <4>2. Characters(report, report_mods, key) =
              IF Has(report, key) THEN {Char(key, report_mods)} ELSE {}
        BY DEF Characters, Tellable
      <4>3. CASE key \in apart \cup Slid
        BY <1>3, <3>1, <4>1, <4>2, <4>3
      <4>4. CASE key \notin apart \cup Slid
        <5>1. at[2] - 1 = Slots /\ (Told(key, report, Slots) <=> Has(report, key))
          BY <1>1, ToldOneMore DEF KeyboardTypeOK
        <5>2. CASE Has(last, key) /\ ~Has(report, key)
          BY <1>1, <1>3, <2>1, <4>1, <4>4, <5>2 DEF HeldIsKnown
        <5>3. CASE ~Has(last, key) /\ Has(report, key)
          BY <1>1, <1>3, <2>1, <4>1, <4>4, <5>1, <5>3 DEF HeldIsKnown
        <5>4. CASE Has(last, key) <=> Has(report, key)
          <6>1. Believed(key) = IF Has(last, key) THEN {Char(key, last_mods)} ELSE {}
            BY <1>1, <2>1, <4>4, <5>4 DEF HeldIsKnown
          <6>2. Has(last, key) => report_mods = last_mods
            BY <4>4, <5>4, HasKeysOf DEF Slid
          <6> QED BY <1>3, <4>1, <5>4, <6>1, <6>2
        <5> QED BY <5>2, <5>3, <5>4
      <4> QED BY <4>3, <4>4
    <3> QED BY <1>1, <3>1, HeldBetweenNext
  <2> QED BY <1>2, <2>1
<1>7. StdinKeepsAll'
  BY <1>2 DEF StdinKeepsAll
<1> QED BY <1>4, <1>5, <1>6, <1>7

LEMMA PopKeepsKeyboardInv == KeyboardInv /\ (SysRead \/ Pop) => KeyboardInv'
<1> SUFFICES ASSUME KeyboardInv, SysRead \/ Pop PROVE KeyboardInv'
  OBVIOUS
<1> USE DEF KeyboardInv
<1>1. /\ UNCHANGED <<wire, reported, hcint, report, report_mods, last, last_mods, modifiers,
                      previous_modifiers, has_report, at, raced, apart, held, typed>>
      /\ reading' \in BOOLEAN
  BY DEF SysRead, Pop, hand, buffer, lasts, locals
<1>2. stdin' \in Seq(Chars) /\ given' \in Seq(Chars) /\ StdinKeepsAll'
  <2>1. CASE SysRead
    BY <2>1 DEF SysRead, KeyboardTypeOK, StdinKeepsAll
  <2>2. CASE Pop
    <3>1. /\ stdin \in Seq(Chars) /\ given \in Seq(Chars) /\ stdin # <<>>
          /\ given' = Append(given, Head(stdin)) /\ stdin' = Tail(stdin)
      BY <2>2 DEF Pop, KeyboardTypeOK
    <3>2. Append(given, Head(stdin)) \o Tail(stdin) = given \o stdin
      BY <3>1
    <3> QED BY <1>1, <3>1, <3>2 DEF StdinKeepsAll
  <2> QED BY <2>1, <2>2
<1>3. KeyboardTypeOK'
  BY <1>1, <1>2 DEF KeyboardTypeOK
<1>4. ChannelIsKnown' /\ OnlyTellable'
  BY <1>1 DEF ChannelIsKnown, OnlyTellable, Believed
<1>5. raced' \/ (LocalsAreKnown' /\ HeldIsKnown')
  BY <1>1 DEF LocalsAreKnown, HeldIsKnown, Believed, Told, Has
<1> QED BY <1>2, <1>3, <1>4, <1>5

LEMMA UartIsChar ==
    ASSUME NEW uart \in {<<>>, <<Uart>>}
    PROVE  uart \in Seq(Chars) /\ Len(uart) <= 1
<1>1. Uart \in Chars
  BY DEF Chars
<1>2. CASE uart = <<>>
  BY <1>2
<1>3. CASE uart = <<Uart>>
  BY <1>1, <1>3
<1> QED BY <1>2, <1>3

(* What was typed was given when nothing waits.                             *)
LEMMA AllGiven ==
    ASSUME KeyboardTypeOK, StdinKeepsAll, stdin = <<>>
    PROVE  typed = given
<1>1. typed = given \o <<>> /\ given \in Seq(Chars)
  BY DEF KeyboardTypeOK, StdinKeepsAll
<1>2. given \o <<>> = given
  BY <1>1, ConcatEmptySeq
<1> QED BY <1>1, <1>2

(* A poll of an empty queue cannot fill it: nothing is dropped.             *)
LEMMA PushedToEmpty ==
    ASSUME NEW uart \in {<<>>, <<Uart>>}, NEW chars \in Seq(Chars), Len(chars) <= Slots
    PROVE  /\ Pushed(<<>>, uart \o chars) = uart \o chars
           /\ uart \o chars \in Seq(Chars)
<1>1. uart \in Seq(Chars) /\ Len(uart) <= 1
  BY UartIsChar
<1>2. uart \o chars \in Seq(Chars) /\ Len(uart \o chars) = Len(uart) + Len(chars)
  BY <1>1
<1>3. <<>> \o (uart \o chars) = uart \o chars
  BY <1>2
<1>4. Len(uart \o chars) <= StdinSize
  BY <1>1, <1>2, KeyboardAssumption
<1> QED BY <1>2, <1>3, <1>4 DEF Pushed, Latest

LEMMA PollKeepsKeyboardInv == KeyboardInv /\ Poll => KeyboardInv'
<1> SUFFICES ASSUME KeyboardInv, Poll PROVE KeyboardInv'
  OBVIOUS
<1> USE DEF KeyboardInv
<1>1. /\ stdin = <<>> /\ UNCHANGED <<reported, modifiers, previous_modifiers, at, held, reading, given>>
      /\ raced' = (raced \/ at # Idle)
      /\ hcint' = IF at[1] = "transfer" THEN "lost" ELSE hcint
  BY DEF Poll, PollWhen, locals
<1>2. PICK uart \in {<<>>, <<Uart>>} :
        \/ /\ stdin' = Pushed(stdin, uart \o <<>>) /\ typed' = typed \o uart \o <<>>
           /\ UNCHANGED <<wire, report, report_mods, last, last_mods, has_report, apart>>
        \/ /\ wire # <<>> /\ wire' = Tail(wire)
           /\ report' = Head(wire).keys /\ report_mods' = Head(wire).mods
           /\ last' = report' /\ last_mods' = report_mods' /\ has_report' = TRUE
           /\ stdin' = Pushed(stdin, uart \o (IF has_report THEN Presses ELSE <<>>))
           /\ typed' = typed \o uart \o (IF has_report THEN Presses ELSE <<>>)
           /\ apart' = apart \cup KeysOf(last) \cup KeysOf(report')
  BY DEF Poll, PollWhen, buffer, lasts
<1>3. CASE /\ stdin' = Pushed(stdin, uart \o <<>>) /\ typed' = typed \o uart \o <<>>
           /\ UNCHANGED <<wire, report, report_mods, last, last_mods, has_report, apart>>
  <2>1. stdin' = uart \o <<>> /\ stdin' \in Seq(Chars)
    <3>1. <<>> \in Seq(Chars) /\ Len(<<>>) <= Slots
      BY KeyboardAssumption
    <3> QED BY <1>1, <1>3, <3>1, PushedToEmpty
  <2>2. typed' = given \o stdin' /\ typed' \in Seq(Chars)
    <3>1. typed = given /\ given \in Seq(Chars)
      BY <1>1, AllGiven DEF KeyboardTypeOK
    <3>2. typed' = (given \o uart) \o <<>> /\ uart \in Seq(Chars)
      BY <1>3, <3>1, UartIsChar
    <3>3. (given \o uart) \o <<>> = given \o (uart \o <<>>)
      BY <3>1, <3>2
    <3>4. given \o (uart \o <<>>) \in Seq(Chars)
      BY <3>1, <3>2
    <3> QED BY <2>1, <3>2, <3>3, <3>4
  <2>3. KeyboardTypeOK'
    BY <1>1, <1>3, <2>1, <2>2 DEF KeyboardTypeOK
  <2>4. ChannelIsKnown' /\ OnlyTellable'
    BY <1>1, <1>3 DEF ChannelIsKnown, OnlyTellable, Believed
  <2>5. raced' \/ (LocalsAreKnown' /\ HeldIsKnown')
    BY <1>1, <1>3 DEF LocalsAreKnown, HeldIsKnown, Believed, Told, Has
  <2>6. StdinKeepsAll'
    BY <1>1, <2>2 DEF StdinKeepsAll
  <2> QED BY <2>3, <2>4, <2>5, <2>6
<1>4. CASE /\ wire # <<>> /\ wire' = Tail(wire)
           /\ report' = Head(wire).keys /\ report_mods' = Head(wire).mods
           /\ last' = report' /\ last_mods' = report_mods' /\ has_report' = TRUE
           /\ stdin' = Pushed(stdin, uart \o (IF has_report THEN Presses ELSE <<>>))
           /\ typed' = typed \o uart \o (IF has_report THEN Presses ELSE <<>>)
           /\ apart' = apart \cup KeysOf(last) \cup KeysOf(report')
  <2> DEFINE chars == IF has_report THEN Presses ELSE <<>>
  <2>1. /\ report' \in Reports /\ last' \in Reports /\ wire' \in Seq(Sheets)
        /\ report_mods' \in Modifiers /\ last_mods' \in Modifiers
    BY <1>4, SheetTaken DEF KeyboardTypeOK
  <2>2. chars \in Seq(Chars) /\ Len(chars) <= Slots
    <3>1. KeysOf(report') \ (KeysOf(last) \cup Silent) \in SUBSET Keys
      BY <2>1 DEF KeysOf, Reports
    <3> DEFINE pressed == InSlotOrder(report', KeysOf(report') \ (KeysOf(last) \cup Silent))
    <3>2. pressed \in Seq(Keys) /\ Len(pressed) <= Slots
      BY <2>1, <3>1, InSlotOrderBounded
    <3>3. Presses = [i \in 1..Len(pressed) |-> Char(pressed[i], report_mods')]
      BY DEF Presses
    <3> HIDE DEF pressed
    <3>4. \A i \in 1..Len(pressed) : Char(pressed[i], report_mods') \in Chars
      BY <2>1, <3>2 DEF Chars
    <3>5. Presses \in Seq(Chars) /\ Len(Presses) = Len(pressed)
      BY <3>2, <3>3, <3>4
    <3> QED BY <3>2, <3>5, KeyboardAssumption
  <2> HIDE DEF chars
  <2>3. stdin' = uart \o chars /\ stdin' \in Seq(Chars)
    BY <1>1, <1>4, <2>2, PushedToEmpty DEF chars
  <2>4. typed' = given \o stdin' /\ typed' \in Seq(Chars)
    <3>1. typed = given /\ given \in Seq(Chars)
      BY <1>1, AllGiven DEF KeyboardTypeOK
    <3>2. typed' = (given \o uart) \o chars /\ uart \in Seq(Chars)
      BY <1>4, <3>1, UartIsChar DEF chars
    <3>3. (given \o uart) \o chars = given \o (uart \o chars)
      BY <2>2, <3>1, <3>2
    <3>4. given \o (uart \o chars) \in Seq(Chars)
      BY <2>2, <3>1, <3>2
    <3> QED BY <2>3, <3>2, <3>3, <3>4
  <2>5. KeyboardTypeOK'
    <3>1. raced' \in BOOLEAN /\ has_report' \in BOOLEAN
      BY <1>1, <1>4
    <3> QED BY <1>1, <2>1, <2>3, <2>4, <3>1 DEF KeyboardTypeOK
  <2>6. ChannelIsKnown' /\ OnlyTellable'
    BY <1>1, <1>4 DEF ChannelIsKnown, OnlyTellable, Believed
  <2>7. raced' \/ (LocalsAreKnown' /\ HeldIsKnown')
    <3>1. CASE raced \/ at # Idle
      BY <1>1, <3>1
    <3>2. CASE HeldIsKnown /\ at = Idle
      <4>1. at[1] = "idle" /\ at'[1] = "idle"
        BY <1>1, <3>2 DEF Idle
      <4>2. ASSUME NEW key \in Tellable, key \notin apart'
            PROVE  Believed(key)' = (IF Has(last, key) THEN {Char(key, last_mods)} ELSE {})'
        <5>1. ~Has(last, key) /\ ~Has(report', key) /\ key \notin apart
          BY <1>4, <4>2, HasKeysOf
        <5>2. Believed(key) = {}
          BY <3>2, <4>1, <5>1, HeldBetween
        <5>3. ~Has(last, key)'
          BY <1>4, <5>1 DEF Has
        <5> QED BY <1>1, <5>2, <5>3, BelievedSame
      <4> QED BY <4>1, <4>2, HeldBetweenNext
    <3> QED BY <3>1, <3>2
  <2>8. StdinKeepsAll'
    BY <1>1, <2>4 DEF StdinKeepsAll
  <2> QED BY <2>5, <2>6, <2>7, <2>8
<1> QED BY <1>2, <1>3, <1>4

LEMMA NextKeyboardInv == KeyboardInv /\ [KeyboardNext]_kvars => KeyboardInv'
<1>1. ASSUME KeyboardInv, UNCHANGED kvars PROVE KeyboardInv'
  <2>1. KeyboardTypeOK' /\ ChannelIsKnown' /\ OnlyTellable' /\ StdinKeepsAll'
    BY <1>1 DEF kvars, KeyboardInv, KeyboardTypeOK, ChannelIsKnown, OnlyTellable,
                Believed, StdinKeepsAll
  <2>2. LocalsAreKnown' = LocalsAreKnown /\ HeldIsKnown' = HeldIsKnown /\ raced' = raced
    BY <1>1 DEF kvars, LocalsAreKnown, HeldIsKnown, Believed, Told, Has
  <2> QED BY <1>1, <2>1, <2>2 DEF KeyboardInv
<1> QED BY <1>1, TypeKeepsKeyboardInv, StartKeepsKeyboardInv, ReceiveKeepsKeyboardInv,
           FirstReportKeepsKeyboardInv, CompareKeepsKeyboardInv, ReleaseKeepsKeyboardInv,
           PressKeepsKeyboardInv, RememberKeepsKeyboardInv, PopKeepsKeyboardInv,
           PollKeepsKeyboardInv DEF KeyboardNext

(* Between two polls the program on screen believes down exactly the       *)
(* characters of the keys of the last report, apart from keys that were    *)
(* down while the modifiers changed, in the first report or in one that a  *)
(* reader of standard input took, until a reader polls in the middle of a  *)
(* poll of init; and sys_read never drops a character.  For every          *)
(* keyboard, report size and queue that holds more than a report.          *)
THEOREM KeyboardArrives == KeyboardSpec => []KeysArrive
<1>1. KeyboardSpec => []KeyboardInv
  BY InitKeyboardInv, NextKeyboardInv, PTL DEF KeyboardSpec
<1>2. KeyboardInv => KeysArrive
  <2> SUFFICES ASSUME KeyboardInv PROVE KeysArrive
    OBVIOUS
  <2>1. ASSUME at = Idle, ~raced, NEW key \in Keys \ apart
        PROVE  Believed(key) = Characters(last, last_mods, key)
    <3>1. at[1] = "idle"
      BY <2>1 DEF Idle
    <3>2. CASE key \in Tellable
      BY <2>1, <3>1, <3>2, HeldBetween DEF KeyboardInv, Characters, Tellable
    <3>3. CASE key \notin Tellable
      <4>1. Believed(key) = {}
        BY <3>3 DEF KeyboardInv, OnlyTellable
      <4>2. CASE key \in Silent
        BY <4>1, <4>2 DEF Characters
      <4> QED BY <3>3, <4>1, <4>2, KeyboardAssumption DEF Tellable
    <3> QED BY <3>2, <3>3
  <2> QED BY <2>1 DEF KeyboardInv, KeysArrive, HeldIsReported
<1> QED BY <1>1, <1>2, PTL
=============================================================================
