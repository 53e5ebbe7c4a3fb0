------------------------------- MODULE Mouse -------------------------------
(***************************************************************************)
(* The PS/2 mouse driver (kernel/mouse.c): the interrupt handler that puts *)
(* packets together out of single bytes, and mouse_init, which the desktop *)
(* calls each time it starts, while the device may already be streaming.   *)
(*                                                                         *)
(* The device is external: it sends packets of three bytes, a status byte  *)
(* and two movements, and answers each command with an acknowledgement.    *)
(* A byte may be lost: it is read from port 0x60 by somebody else.         *)
(***************************************************************************)
EXTENDS Integers, Sequences

CONSTANTS
    Width, Height,  \* screen_width, screen_height
    Statuses,       \* the status bytes the device sends
    Moves           \* the movement bytes it sends

Bytes == 0..255
Ack == 250

\* The bit of that weight; bit 3 is set in the first byte of every packet, bits
\* 4 and 5 of it are the signs of the movements.
Bit(byte, weight) == (byte \div weight) % 2
LooksLikeStart(byte) == Bit(byte, 8) = 1

ASSUME MouseAssumption ==
    /\ Width \in Nat \ {0} /\ Height \in Nat \ {0}
    /\ Statuses \subseteq Bytes /\ Moves \subseteq Bytes
    /\ \A s \in Statuses : LooksLikeStart(s)

VARIABLES
    reporting,    \* device: data reporting is enabled
    sent,         \* device: bytes of the current packet it has sent
    held,         \* device: the status byte of the current packet, 0 between packets
    reported,     \* device: the buttons in the last packet it sent completely
    jammed,       \* the controller holds a byte that nobody will read
    installed,    \* mouse_callback is the handler of IRQ 12
    initPc,       \* mouse_init: "out", or the statement it has reached
    packet,       \* packet[0..packet_index - 1]
    discard_next_packet,
    mouse_x, mouse_y, mouse_buttons, mouse_dirty,
    quiet         \* history: movement bytes without bit 3 that have arrived in a row
                  \* since the last loss, restart or movement byte with bit 3

device == <<reporting, sent, held, reported>>
cursor == <<mouse_x, mouse_y, mouse_buttons, mouse_dirty>>
driver == <<packet, discard_next_packet, cursor>>
mouseVars == <<device, jammed, installed, initPc, driver, quiet>>

\* quiet counts to QuietEnough, and no further.
QuietEnough == 5

Init ==
    /\ reporting = FALSE /\ sent = 0 /\ held = 0 /\ reported = 0
    /\ jammed = FALSE /\ installed = FALSE /\ initPc = "out"
    /\ packet = <<>> /\ discard_next_packet = 0
    /\ mouse_x = Width \div 2 /\ mouse_y = Height \div 2
    /\ mouse_buttons = 0 /\ mouse_dirty = 0
    /\ quiet = 0

----------------------------------------------------------------------------
(* mouse_callback                                                          *)

\* "If this byte doesn't look like a valid packet start, discard it."
DropByte(data) ==
    /\ packet = <<>> /\ ~LooksLikeStart(data)
    /\ UNCHANGED driver

\* Mutant of CollectByte: any byte may start a packet.
CollectAnyByte(data) ==
    /\ Len(packet) < 2
    /\ packet' = Append(packet, data)
    /\ UNCHANGED <<discard_next_packet, cursor>>

CollectByte(data) ==
    /\ Len(packet) < 2
    /\ packet # <<>> \/ LooksLikeStart(data)
    /\ packet' = Append(packet, data)
    /\ UNCHANGED <<discard_next_packet, cursor>>

\* The first packet after data reporting was enabled is thrown away.
DiscardPacket(data) ==
    /\ Len(packet) = 2 /\ discard_next_packet = 1
    /\ packet' = <<>> /\ discard_next_packet' = 0
    /\ UNCHANGED cursor

Signed(byte, sign) == byte - 256 * sign

Clamp(v, size) == IF v < 0 THEN 0 ELSE IF v >= size THEN size - 1 ELSE v

\* Mutant of ApplyPacket: the buttons are taken only from a packet without movement.
ApplyMovesOnly(data) ==
    /\ Len(packet) = 2 /\ discard_next_packet = 0
    /\ packet' = <<>>
    /\ mouse_buttons' = IF packet[2] = 0 THEN packet[1] % 8 ELSE mouse_buttons
    /\ mouse_x' = Clamp(mouse_x + Signed(packet[2], Bit(packet[1], 16)), Width)
    /\ mouse_y' = Clamp(mouse_y - Signed(data, Bit(packet[1], 32)), Height)
    /\ mouse_dirty' = 1
    /\ UNCHANGED discard_next_packet

\* The third byte: buttons, then the position, kept on the screen.
ApplyPacket(data) ==
    /\ Len(packet) = 2 /\ discard_next_packet = 0
    /\ packet' = <<>>
    /\ mouse_buttons' = packet[1] % 8
    /\ mouse_x' = Clamp(mouse_x + Signed(packet[2], Bit(packet[1], 16)), Width)
    /\ mouse_y' = Clamp(mouse_y - Signed(data, Bit(packet[1], 32)), Height)
    /\ mouse_dirty' = 1
    /\ UNCHANGED discard_next_packet

mouse_callback(data) ==
    DropByte(data) \/ CollectByte(data) \/ DiscardPacket(data) \/ ApplyPacket(data)

----------------------------------------------------------------------------
(* The device                                                              *)

\* The device moves on in its packet.  reported changes with the last byte.
Transmit(data) ==
    /\ reporting /\ ~jammed
    /\ data \in IF sent = 0 THEN Statuses ELSE Moves
    /\ sent' = (sent + 1) % 3
    /\ held' = CASE sent = 0 -> data [] sent = 1 -> held [] sent = 2 -> 0
    /\ reported' = IF sent = 2 THEN held % 8 ELSE reported
    /\ UNCHANGED reporting

\* IRQ 12 with the handler installed.
ByteArrives(data) ==
    /\ installed /\ Transmit(data)
    /\ mouse_callback(data)
    /\ quiet' = IF sent = 0 THEN quiet
                ELSE IF LooksLikeStart(data) THEN 0
                ELSE IF quiet < QuietEnough THEN quiet + 1 ELSE quiet
    /\ UNCHANGED <<jammed, installed, initPc>>

\* Somebody else reads the byte.
ByteIsLost(data) ==
    /\ installed /\ Transmit(data)
    /\ quiet' = 0
    /\ UNCHANGED <<jammed, installed, initPc, driver>>

\* IRQ 12 without a handler: irq_handler acknowledges the interrupt, the byte
\* stays, and the controller sends no other, not even the keyboard's.
ByteJams(data) ==
    /\ ~installed /\ Transmit(data)
    /\ jammed' = TRUE
    /\ UNCHANGED <<installed, initPc, driver, quiet>>

----------------------------------------------------------------------------
(* mouse_init                                                              *)

\* The position, the auxiliary port, the controller's configuration; mouse_read
\* takes whatever byte the controller holds.
InitStarts ==
    /\ initPc = "out"
    /\ mouse_x' = Width \div 2 /\ mouse_y' = Height \div 2
    /\ jammed' = FALSE
    /\ initPc' = "defaults"
    /\ UNCHANGED <<device, installed, packet, discard_next_packet, mouse_buttons, mouse_dirty, quiet>>

\* The acknowledgement of a command: if the handler is installed the interrupt
\* may run it on this byte, before or after mouse_read has polled it.
Acknowledged == (installed /\ mouse_callback(Ack)) \/ UNCHANGED driver

\* Set defaults: the device stops, and forgets the rest of its packet.
SetDefaults ==
    /\ initPc = "defaults" /\ Acknowledged
    /\ reporting' = FALSE /\ sent' = 0 /\ held' = 0 /\ quiet' = 0
    /\ initPc' = "enable"
    /\ UNCHANGED <<reported, jammed, installed>>

\* Enable data reporting.
EnableReporting ==
    /\ initPc = "enable" /\ Acknowledged
    /\ reporting' = TRUE
    /\ initPc' = "reset"
    /\ UNCHANGED <<sent, held, reported, jammed, installed, quiet>>

\* packet_index = 0: the device may be in the middle of a packet again.
ResetPacket ==
    /\ initPc = "reset"
    /\ packet' = <<>> /\ quiet' = 0
    /\ initPc' = "install"
    /\ UNCHANGED <<device, jammed, installed, discard_next_packet, cursor>>

InstallHandler ==
    /\ initPc = "install"
    /\ discard_next_packet' = 1 /\ installed' = TRUE /\ quiet' = 0
    /\ initPc' = "out"
    /\ UNCHANGED <<device, jammed, packet, cursor>>

mouse_init == InitStarts \/ SetDefaults \/ EnableReporting \/ ResetPacket \/ InstallHandler

Interrupt == \E data \in Statuses \cup Moves : ByteArrives(data) \/ ByteIsLost(data) \/ ByteJams(data)

Next == mouse_init \/ Interrupt

Spec == Init /\ [][Next]_mouseVars

----------------------------------------------------------------------------
(* Properties                                                              *)

TypeOK ==
    /\ reporting \in BOOLEAN /\ sent \in 0..2 /\ held \in Bytes /\ reported \in 0..7
    /\ jammed \in BOOLEAN /\ installed \in BOOLEAN
    /\ initPc \in {"out", "defaults", "enable", "reset", "install"}
    /\ packet \in Seq(Bytes) /\ Len(packet) \in 0..2
    /\ discard_next_packet \in {0, 1}
    /\ mouse_x \in 0..(Width - 1) /\ mouse_y \in 0..(Height - 1)
    /\ mouse_buttons \in 0..7 /\ mouse_dirty \in {0, 1}
    /\ quiet \in 0..QuietEnough

\* The comment at mouse.c:94-98 promises that a byte out of place is not
\* misread "for as long as ... input keeps arriving": whatever bytes were lost,
\* and wherever a restart of the driver fell in a packet, three small movements
\* in a row bring driver and device to the same byte of a packet, and nothing
\* but another loss or restart parts them again before a larger movement comes.
ResyncsAfterQuietMoves == quiet >= 3 => Len(packet) = sent

\* And after five of them the driver has the buttons of the last packet, even
\* when a restart made it throw the first one away: a button that it imagined
\* from a misread byte is not held for long.
NoPhantomButtons == quiet >= QuietEnough /\ sent = 0 => mouse_buttons = reported
=============================================================================
