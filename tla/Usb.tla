-------------------------------- MODULE Usb ---------------------------------
(***************************************************************************)
(* Enumeration of the USB bus (src/src/usb/usb.c).  main() calls           *)
(* usb_enumerate once: it resets the root port, gives the device there     *)
(* address 1 and, when that device is a hub, resets the hub's ports one    *)
(* after the other and gives each child the next address.  A device that   *)
(* was reset listens at address 0 until it takes a SET_ADDRESS.  A device  *)
(* may be pulled out at any moment; one that is put in after its port was  *)
(* reset answers nothing, for nobody resets the port again.                *)
(*                                                                         *)
(* Every control transfer is one step.  It fails when no device listens at *)
(* its address, when the device stalls or stays busy for 16 tries, or when *)
(* the status stage is lost after the device took the request.             *)
(***************************************************************************)
EXTENDS Integers, Sequences

CONSTANTS HubPorts,      \* number of ports of the hub (4 in the code)
          Kinds          \* kinds of devices that may be plugged in

\* Addresses end at 127 (usb.c:876), which no hub of four ports reaches.
ASSUME HubAssumption == HubPorts \in 1..125

Root  == 0
Ports == Root..HubPorts

VARIABLES plugged,   \* what is plugged into each port
          wired,     \* the ports whose device has been reset and answers
          address,   \* the address each device listens at
          step,      \* the transfer usb_enumerate is about to make
          port,      \* the port being enumerated
          dev_addr,  \* dev->addr
          next_addr, \* the address reserved for this device
          device_class, \* of the device being enumerated
          buf,       \* g_usb_buf: the kind of device whose configuration it holds
          mouse, keyboard, \* g_mouse.addr and g_keyboard.addr, None when not present
          shared     \* addresses that several devices took from one SET_ADDRESS

uvars == <<plugged, wired, address, step, port, dev_addr, next_addr,
           device_class, buf, mouse, keyboard, shared>>
device == <<plugged, wired, address>>
driver == <<port, dev_addr, next_addr, device_class, buf, mouse, keyboard>>

None    == 128
Nothing == "nothing"
Listening(a) == {p \in wired : address[p] = a}

\* The ports of a hub are powered and reset through the hub: nothing of it
\* answers before.
UsbInit ==
  /\ plugged \in [Ports -> Kinds \cup {Nothing}]
  /\ plugged[Root] # "hub" => \A p \in Ports \ {Root} : plugged[p] = Nothing
  /\ wired = {} /\ address = [p \in Ports |-> 0]
  /\ step = "root_reset" /\ port = Root /\ dev_addr = 0 /\ next_addr = 1
  /\ device_class = Nothing /\ buf = Nothing /\ mouse = None /\ keyboard = None
  /\ shared = {}

-----------------------------------------------------------------------------
(* A device is pulled out; with a hub, all that is behind it is gone. *)
Unplug(p) ==
  LET gone == IF p = Root THEN Ports ELSE {p} IN
  /\ plugged[p] # Nothing
  /\ plugged' = [q \in Ports |-> IF q \in gone THEN Nothing ELSE plugged[q]]
  /\ wired' = wired \ gone
  /\ UNCHANGED <<address, step, driver, shared>>

-----------------------------------------------------------------------------
(* The end of one enumeration and the loop over the ports of the hub *)

\* usb_hub_enumerate_ports goes on with the next port; the device at the root
\* port is the last one otherwise.
Leave ==
  /\ step' = IF port # Root /\ port < HubPorts THEN "port_reset" ELSE "done"
  /\ port' = IF step' = "done" THEN port ELSE port + 1

\* The address of a port stays reserved whether its enumeration succeeded or
\* not.
LeavePort == /\ Leave
             /\ IF port = Root THEN UNCHANGED next_addr ELSE next_addr' = next_addr + 1

GiveUp == LeavePort

LeaveDeviceKeepingNext ==
  IF port = Root /\ device_class = "hub"
    THEN step' = "port_reset" /\ port' = 1 /\ UNCHANGED next_addr
    ELSE LeavePort

\* The root device is enumerated: a hub has its ports enumerated next, from
\* address 2.
LeaveDevice ==
  IF port = Root /\ device_class = "hub"
    THEN step' = "port_reset" /\ port' = 1 /\ next_addr' = 2
    ELSE LeavePort

-----------------------------------------------------------------------------
(* usb_port_reset and usb_hub_reset_port *)

Answers(p) == /\ wired' = wired \cup {p}
              /\ address' = [address EXCEPT ![p] = 0]

ResetRoot ==
  /\ step = "root_reset"
  /\ \/ plugged[Root] # Nothing /\ Answers(Root) /\ step' = "describe"
     \/ step' = "done" /\ UNCHANGED <<wired, address>>
  /\ UNCHANGED <<plugged, driver, shared>>

\* Power, status, reset and status again; the reset may have been made when
\* a later transfer fails, and an empty port is passed over.  No address is
\* used up.
ResetPort ==
  /\ step = "port_reset"
  /\ \/ plugged[port] # Nothing /\ Answers(port) /\ step' = "describe" /\ UNCHANGED port
     \/ plugged[port] # Nothing /\ Answers(port) /\ Leave
     \/ Leave /\ UNCHANGED <<wired, address>>
  /\ UNCHANGED <<plugged, dev_addr, next_addr, device_class, buf, mouse, keyboard, shared>>

-----------------------------------------------------------------------------
(* usb_enumerate_address_zero *)

Fail == GiveUp /\ UNCHANGED <<dev_addr, device_class, buf, mouse, keyboard, shared>>

\* The first eight bytes of the device descriptor, at address zero.
DescribeZero ==
  /\ step = "describe"
  /\ \/ Listening(0) # {} /\ step' = "address" /\ dev_addr' = 0
        /\ UNCHANGED <<port, next_addr, device_class, buf, mouse, keyboard, shared>>
     \/ Fail
  /\ UNCHANGED device

\* usb_set_address_ex.  Every device that listens at address zero may take
\* the request.
SetAddress ==
  /\ step = "address"
  /\ \E taken \in SUBSET Listening(dev_addr) :
       /\ address' = [p \in Ports |-> IF p \in taken THEN next_addr ELSE address[p]]
       /\ \/ taken # {} /\ step' = "class" /\ dev_addr' = next_addr
             /\ UNCHANGED <<port, next_addr>>
          \/ GiveUp /\ UNCHANGED dev_addr
       /\ shared' = IF \E p, q \in taken : p # q THEN shared \cup {next_addr} ELSE shared
  /\ UNCHANGED <<plugged, wired, device_class, buf, mouse, keyboard>>

\* The full device descriptor.
DescribeDevice ==
  /\ step = "class"
  /\ \/ \E p \in Listening(dev_addr) :
          /\ device_class' = plugged[p] /\ step' = "config"
          /\ UNCHANGED <<port, dev_addr, next_addr, buf, mouse, keyboard, shared>>
     \/ Fail
  /\ UNCHANGED device

-----------------------------------------------------------------------------
(* usb_finish_device_configuration *)

\* usb_parse_config: the first mouse and the first keyboard found are the
\* ones polled.
ParseConfig ==
  /\ mouse' = IF mouse = None /\ buf' = "mouse" THEN dev_addr ELSE mouse
  /\ keyboard' = IF keyboard = None /\ buf' = "keyboard" THEN dev_addr ELSE keyboard

\* The configuration descriptor, its header first; then it is parsed.
ReadConfig ==
  /\ step = "config"
  /\ \/ \E p \in Listening(dev_addr) :
          /\ buf' = plugged[p] /\ ParseConfig /\ step' = "set_config"
          /\ UNCHANGED <<port, dev_addr, next_addr, device_class, shared>>
     \/ Fail
  /\ UNCHANGED device

\* SET_CONFIGURATION, then the boot protocol of a mouse or a keyboard: its
\* failure is only logged, that of the configuration ends the enumeration.
SetConfig ==
  /\ step = "set_config"
  /\ \/ Listening(dev_addr) # {} /\ LeaveDevice
     \/ GiveUp
  /\ UNCHANGED <<dev_addr, device_class, buf, mouse, keyboard, shared>>
  /\ UNCHANGED device

UsbDone == step = "done" /\ UNCHANGED uvars

UsbNext == \/ ResetRoot \/ ResetPort \/ DescribeZero \/ SetAddress
           \/ DescribeDevice \/ ReadConfig \/ SetConfig \/ UsbDone
           \/ \E p \in Ports : Unplug(p)

UsbSpec == UsbInit /\ [][UsbNext]_uvars

-----------------------------------------------------------------------------
\* "Reserve a unique address even if configuration later fails" (usb.c:859):
\* nobody listens at the address that is about to be given, whatever failed
\* and whoever took the addresses before it ...
AddressIsFree == step = "address" => Listening(next_addr) = {}

\* ... so that devices have addresses of their own, except those that took one
\* together: a device that an earlier failure left at address zero takes the
\* address of the next port too (usb.c:796-807), and nothing prevents that.
Unique == \A p, q \in wired :
            address[p] = address[q] /\ address[p] \notin shared \cup {0} => p = q

\* At an address of its own, what init_proc polls as the mouse or as the
\* keyboard is a device of that kind, or was until it was pulled out, whatever
\* fails after it was chosen (usb.c:525).
PolledIsThere ==
  /\ mouse \in shared \cup {None} \/ \A p \in Listening(mouse) : plugged[p] = "mouse"
  /\ keyboard \in shared \cup {None} \/ \A p \in Listening(keyboard) : plugged[p] = "keyboard"

\* The bus is numbered so that every device that is polled is the one it is
\* taken for (usb.c).
BusIsKnown == AddressIsFree /\ Unique /\ PolledIsThere

-----------------------------------------------------------------------------
(***************************************************************************)
(* The USB keyboard and standard input: usb_keyboard_poll (src/src/usb/    *)
(* usb.c) and the input queue of sys_read(0) (src/src/proc/syscalls/       *)
(* syscalls.c).                                                            *)
(*                                                                         *)
(* Two callers poll the one keyboard.  init_proc polls for ever with       *)
(* interrupts enabled, and its key_dispatcher sends the events to the      *)
(* program on screen.  A program that reads standard input polls in the    *)
(* system call, with interrupts masked: when the timer interrupts init in  *)
(* the middle of a poll, any number of whole polls may pass before init    *)
(* goes on.  Both share host channel 0, the report buffer and the last     *)
(* report.                                                                 *)
(***************************************************************************)

CONSTANTS Keys,      \* keys of the keyboard
          Silent,    \* those that usb_hid_key_to_ascii has no character for
          Cased,     \* those whose character depends on the shift keys
          Slots,     \* keys in a report (6 in the code)
          StdinSize, \* STDIN_QUEUE_SIZE (256 in the code)
          MaxReports,\* bound: reports of the keyboard
          MaxSerial  \* bound: characters typed while the serial line has some

NoKey   == "none"

ASSUME KeyboardAssumption ==
  /\ NoKey \notin Keys /\ Silent \subseteq Keys /\ Cased \subseteq Keys
  /\ Slots \in Nat \ {0} /\ MaxReports \in Nat
  /\ StdinSize \in Nat /\ StdinSize > Slots /\ MaxSerial \in Nat

Reports == [1..Slots -> Keys \cup {NoKey}]
Has(report, key) == \E i \in 1..Slots : report[i] = key
KeysOf(report)   == {report[i] : i \in 1..Slots} \ {NoKey}
NoReport == [i \in 1..Slots |-> NoKey]

\* The first byte of a report, as far as usb_hid_key_to_ascii looks at it, and
\* the character a key has under it.
Modifiers == {"plain", "shift"}
Char(key, mods) == <<key, IF key \in Cased THEN mods ELSE "plain">>
Characters(slots, mods, key) ==
  IF Has(slots, key) /\ key \notin Silent THEN {Char(key, mods)} ELSE {}

VARIABLES wire,      \* reports the keyboard has ready
          reported,  \* number of reports it made so far
          hcint,     \* what host channel 0 shows to init: "idle", "busy", "done"
          report, report_mods, \* g_keyboard_report: its keys, its modifiers
          last, last_mods,     \* g_keyboard.last_report
          modifiers, previous_modifiers, \* locals of init in usb_keyboard_poll
          has_report,\* g_keyboard.has_report
          at,        \* where init is in usb_keyboard_poll
          raced,     \* a reader polled in the middle of a poll of init
          apart,     \* keys that were down in the first report or in one that a
                     \* reader took, or while the modifiers changed, until the
                     \* program on screen is told right of them
          held,      \* characters the program on screen was told are down
          stdin,     \* g_stdin_queue, from head to tail
          reading,   \* a program is in sys_read(0)
          typed, given  \* what was typed for stdin, what sys_read gave

kvars == <<wire, reported, hcint, report, report_mods, last, last_mods, modifiers,
           previous_modifiers, has_report, at, raced, apart, held, stdin, reading,
           typed, given>>
hand   == <<wire, reported>>
buffer == <<report, report_mods>>
lasts  == <<last, last_mods, has_report>>
locals == <<modifiers, previous_modifiers>>
input == <<stdin, reading, typed, given>>

Idle == <<"idle", 0>>

KeyboardInit ==
  /\ wire = <<>> /\ reported = 0 /\ hcint = "idle"
  /\ report = NoReport /\ report_mods = "plain"
  /\ modifiers = "plain" /\ previous_modifiers = "plain"
  /\ last = NoReport /\ last_mods = "plain" /\ has_report = FALSE
  /\ at = Idle /\ raced = FALSE
  /\ apart = {} /\ held = {} /\ stdin = <<>> /\ reading = FALSE
  /\ typed = <<>> /\ given = <<>>

-----------------------------------------------------------------------------
(* The keyboard: a report whenever what is held down changes.  A key is in *)
(* one slot of it.                                                         *)

Type ==
  /\ reported < MaxReports /\ Len(wire) < 2
  /\ \E r \in Reports, mods \in Modifiers :
       /\ \A i, j \in 1..Slots : r[i] = r[j] /\ r[i] # NoKey => i = j
       /\ wire' = Append(wire, [keys |-> r, mods |-> mods])
  /\ reported' = reported + 1
  /\ UNCHANGED <<hcint, buffer, lasts, locals, at, raced, apart, held, input>>

-----------------------------------------------------------------------------
(* usb_keyboard_poll called by init_proc, with interrupts enabled *)

\* usb_transfer_ex programs the channel ...
Start ==
  /\ at = Idle /\ at' = <<"transfer", 0>> /\ hcint' = "busy"
  /\ UNCHANGED <<hand, buffer, lasts, locals, raced, apart, held, input>>

\* ... the controller moves a report into the buffer ...
Receive ==
  /\ hcint = "busy" /\ wire # <<>>
  /\ report' = Head(wire).keys /\ report_mods' = Head(wire).mods
  /\ wire' = Tail(wire) /\ hcint' = "done"
  /\ UNCHANGED <<reported, lasts, locals, at, raced, apart, held, input>>

\* ... and the poll ends when the keyboard has nothing to report, when the
\* transfer fails, or when nothing shows in the channel until the time is up.
NoTransfer ==
  /\ at[1] = "transfer" /\ hcint # "done" /\ at' = Idle /\ hcint' = "idle"
  /\ UNCHANGED <<hand, buffer, lasts, locals, raced, apart, held, input>>

\* The first report is kept and no event is made of it.
FirstReport ==
  /\ at[1] = "transfer" /\ hcint = "done" /\ ~has_report
  /\ last' = report /\ last_mods' = report_mods /\ has_report' = TRUE
  /\ at' = Idle /\ hcint' = "idle"
  /\ apart' = apart \cup KeysOf(report)
  /\ UNCHANGED <<hand, buffer, locals, raced, held, input>>

Compare ==
  /\ at[1] = "transfer" /\ hcint = "done" /\ has_report
  /\ at' = <<"release", 1>> /\ hcint' = "idle"
  /\ modifiers' = report_mods /\ previous_modifiers' = last_mods
  /\ UNCHANGED <<hand, buffer, lasts, raced, apart, held, input>>

\* One turn of the first loop: a key of the last report that this one has
\* not is released as the character it had under the modifiers of the last
\* report, which need not be those it was pressed under.  key_dispatcher
\* masks interrupts for the push (EventPath.tla).
Release ==
  /\ at[1] = "release"
  /\ LET key == last[at[2]] IN
       held' = IF key = NoKey \/ Has(report, key) \/ key \in Silent
               THEN held ELSE held \ {Char(key, previous_modifiers)}
  /\ at' = IF at[2] < Slots THEN <<"release", at[2] + 1>> ELSE <<"press", 1>>
  /\ UNCHANGED <<hand, hcint, buffer, lasts, locals, raced, apart, input>>

\* One turn of the second loop: a key of this report that the last one had
\* not.
Press ==
  /\ at[1] = "press" /\ at[2] <= Slots
  /\ LET key == report[at[2]] IN
       held' = IF key = NoKey \/ Has(last, key) \/ key \in Silent
               THEN held ELSE held \cup {Char(key, modifiers)}
  /\ at' = <<"press", at[2] + 1>>
  /\ UNCHANGED <<hand, hcint, buffer, lasts, locals, raced, apart, input>>

\* Keys that are down while the modifiers change, and what the program on
\* screen believes of a key.
Slid == IF report_mods = last_mods THEN {} ELSE KeysOf(last) \cap KeysOf(report)
Believed(key) == {c \in held : c[1] = key}

RememberNothing ==
  /\ at = <<"press", Slots + 1>> /\ at' = Idle
  /\ last' = IF KeysOf(report) \subseteq KeysOf(last) THEN last ELSE report
  /\ last_mods' = IF last' = report THEN report_mods ELSE last_mods
  /\ apart' = {key \in apart \cup Slid :
                 Believed(key) # Characters(report, report_mods, key)}
  /\ UNCHANGED <<hand, hcint, buffer, has_report, locals, raced, held, input>>

\* memcpy of the report.
Remember ==
  /\ at = <<"press", Slots + 1>> /\ at' = Idle
  /\ last' = report /\ last_mods' = report_mods
  /\ apart' = {key \in apart \cup Slid :
                 Believed(key) # Characters(report, report_mods, key)}
  /\ UNCHANGED <<hand, hcint, buffer, has_report, locals, raced, held, input>>

-----------------------------------------------------------------------------
(* sys_read(0): stdin_queue_pop, stdin_poll_sources *)

Latest(n, s) == IF Len(s) <= n THEN s ELSE SubSeq(s, Len(s) - n + 1, Len(s))

\* stdin_queue_push, for each character: a full queue drops its oldest.
Pushed(s, chars) == Latest(StdinSize, s \o chars)

SysRead ==
  /\ ~reading /\ reading' = TRUE
  /\ UNCHANGED <<hand, hcint, buffer, lasts, locals, at, raced, apart,
                 held, stdin, typed, given>>

\* A character ends the call when it is a new line or the last one asked for.
Pop == /\ reading /\ stdin # <<>>
       /\ given' = Append(given, Head(stdin)) /\ stdin' = Tail(stdin)
       /\ reading' \in BOOLEAN
       /\ UNCHANGED <<hand, hcint, buffer, lasts, locals, at, raced, apart,
                      held, typed>>

\* The keys of a report that are wanted, in the order of its slots.
InSlotOrder(r, wanted) ==
  LET upto[i \in 0..Slots] ==
        IF i = 0 THEN <<>>
        ELSE IF r[i] \in wanted THEN Append(upto[i - 1], r[i]) ELSE upto[i - 1]
  IN upto[Slots]

\* The characters of the keys that are in this report and were not in the
\* last one; stdin_usb_key_handler passes releases over.
Presses ==
  LET pressed == InSlotOrder(report', KeysOf(report') \ (KeysOf(last) \cup Silent))
  IN [i \in 1..Len(pressed) |-> Char(pressed[i], report_mods')]

Uart == <<"uart", "plain">>

\* One whole turn of the inner loop, a character of the serial line first.
PollWhen(wanted) ==
  /\ reading /\ wanted
  /\ raced' = (raced \/ at # Idle) /\ hcint' = IF at[1] = "transfer" THEN "lost" ELSE hcint
  /\ \E uart \in {<<>>, <<Uart>>} :
       LET take(chars) == /\ stdin' = Pushed(stdin, uart \o chars)
                          /\ typed' = typed \o uart \o chars
       IN /\ uart # <<>> => Len(typed) < MaxSerial
          /\ \/ take(<<>>) /\ UNCHANGED <<wire, buffer, lasts, apart>>
             \/ /\ wire # <<>> /\ wire' = Tail(wire)
                /\ report' = Head(wire).keys /\ report_mods' = Head(wire).mods
                /\ last' = report' /\ last_mods' = report_mods' /\ has_report' = TRUE
                /\ take(IF has_report THEN Presses ELSE <<>>)
                /\ apart' = apart \cup KeysOf(last) \cup KeysOf(report')
  /\ UNCHANGED <<reported, locals, at, held, reading, given>>

Poll == PollWhen(stdin = <<>>)

-----------------------------------------------------------------------------
KeyboardNext ==
  \/ Type
  \/ Start \/ Receive \/ NoTransfer \/ FirstReport \/ Compare
  \/ Release \/ Press \/ Remember
  \/ SysRead \/ Pop \/ Poll

KeyboardSpec == KeyboardInit /\ [][KeyboardNext]_kvars

-----------------------------------------------------------------------------
\* Between two polls the program on screen believes down exactly the
\* characters of the keys of the last report, until a reader polls in the
\* middle of a poll of init (usb.c:673).  Of a key that is `apart' it may
\* believe anything: one that is pressed, and released after the modifiers
\* changed, is released as another character and stays down (usb.c:716).
HeldIsReported ==
  at = Idle /\ ~raced =>
    \A key \in Keys \ apart : Believed(key) = Characters(last, last_mods, key)

\* sys_read(0) polls only when its queue is empty, so the queue never has to
\* drop a character: every one typed is given once, in order, or still
\* waits (syscalls.c:154).
StdinKeepsAll == typed = given \o stdin

\* What is typed reaches the program, on screen or reading: all of it when
\* reading, on screen all but what the keys that are `apart' did.
KeysArrive == HeldIsReported /\ StdinKeepsAll
=============================================================================
