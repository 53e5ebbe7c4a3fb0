------------------------- MODULE Compositor_proofs -------------------------
(***************************************************************************)
(* Theorems about the desktop's frames and the mouse under them, for every *)
(* number of windows, every size of the screen and every set of bytes.     *)
(***************************************************************************)
EXTENDS Compositor, TLAPS

----------------------------------------------------------------------------
(* The mouse driver: the invariant                                         *)

\* The part of the type invariant that the packet boundaries depend on.
PacketTypeOK ==
    /\ packet \in Seq(Bytes) /\ Len(packet) \in 0..2
    /\ sent \in 0..2 /\ quiet \in 0..QuietEnough

\* How many quiet movements driver and device are apart, when the driver has p
\* bytes of a packet and the device has sent s.  Only a movement that the driver
\* drops brings them closer, so a packet it has begun in the wrong place has to
\* be completed first.
Distance(p, s) ==
    IF p = s THEN 0
    ELSE IF p = 0 /\ s = 2 THEN 1
    ELSE IF p = 1 /\ s = 2 THEN 3
    ELSE 2

\* Quiet movements make up for the distance.
QuietCloses == Len(packet) # sent => quiet + Distance(Len(packet), sent) <= 3

\* Nothing is counted before the handler is installed, and while the device is
\* silent in the middle of mouse_init.
NotCounting ==
    /\ ~installed => quiet = 0
    /\ initPc = "enable" => quiet = 0 /\ ~reporting

MouseInv == PacketTypeOK /\ QuietCloses /\ NotCounting

----------------------------------------------------------------------------
(* Each step keeps it                                                      *)

LEMMA InitEstablishes == Init => MouseInv
  <1> SUFFICES ASSUME Init PROVE MouseInv
    OBVIOUS
  <1>1. packet \in Seq(Bytes) /\ Len(packet) = 0
    BY DEF Init
  <1> QED
    BY <1>1 DEF Init, MouseInv, PacketTypeOK, QuietCloses, NotCounting, QuietEnough

\* What the handler does to the number of bytes it holds: it drops a byte that
\* cannot start a packet, collects it, or is done with the packet.
LEMMA CallbackCounts ==
    ASSUME NEW data \in Bytes, packet \in Seq(Bytes), Len(packet) \in 0..2, mouse_callback(data)
    PROVE /\ packet' \in Seq(Bytes)
          /\ \/ Len(packet) = 0 /\ ~LooksLikeStart(data) /\ Len(packet') = 0
             \/ Len(packet) = 0 /\ LooksLikeStart(data) /\ Len(packet') = 1
             \/ Len(packet) = 1 /\ Len(packet') = 2
             \/ Len(packet) = 2 /\ Len(packet') = 0
  <1>1. CASE DropByte(data)
    BY <1>1 DEF DropByte, driver
  <1>2. CASE CollectByte(data)
    <2>1. packet' \in Seq(Bytes) /\ Len(packet') = Len(packet) + 1
      BY <1>2 DEF CollectByte
    <2>2. Len(packet) = 0 => packet = <<>>
      OBVIOUS
    <2> QED
      BY <1>2, <2>1, <2>2 DEF CollectByte
  <1>3. CASE DiscardPacket(data) \/ ApplyPacket(data)
    <2>1. Len(packet) = 2 /\ packet' = <<>>
      BY <1>3 DEF DiscardPacket, ApplyPacket
    <2>2. packet' \in Seq(Bytes) /\ Len(packet') = 0
      BY <2>1
    <2> QED
      BY <2>1, <2>2
  <1> QED
    BY <1>1, <1>2, <1>3 DEF mouse_callback

\* The counting alone: p and s are the positions of driver and device, q the
\* quiet movements, p1, s1 and q1 the same after a byte has arrived.
LEMMA DistanceShrinks ==
    ASSUME NEW p \in 0..2, NEW s \in 0..2, NEW q \in 0..5,
           NEW p1 \in 0..2, NEW s1 \in 0..2, NEW q1 \in 0..5,
           NEW start \in BOOLEAN,
           p # s => q + Distance(p, s) <= 3,
           s = 0 => start,
           \/ p = 0 /\ ~start /\ p1 = 0
           \/ p = 0 /\ start /\ p1 = 1
           \/ p = 1 /\ p1 = 2
           \/ p = 2 /\ p1 = 0,
           s1 = IF s = 2 THEN 0 ELSE s + 1,
           q1 = IF s = 0 THEN q ELSE IF start THEN 0 ELSE IF q < 5 THEN q + 1 ELSE q
    PROVE p1 # s1 => q1 + Distance(p1, s1) <= 3
  <1>1. CASE p = 0
    BY <1>1 DEF Distance
  <1>2. CASE p = 1
    BY <1>2 DEF Distance
  <1>3. CASE p = 2
    BY <1>3 DEF Distance
  <1> QED
    BY <1>1, <1>2, <1>3

\* A byte that reaches the driver.
LEMMA ByteArrivesPreserves ==
    ASSUME NEW data \in Statuses \cup Moves, MouseInv, ByteArrives(data)
    PROVE MouseInv'
  <1> USE DEF MouseInv, PacketTypeOK
  <1>1. data \in Bytes /\ (sent = 0 => LooksLikeStart(data))
    BY MouseAssumption DEF ByteArrives, Transmit
  <1>2. /\ packet' \in Seq(Bytes)
        /\ \/ Len(packet) = 0 /\ ~LooksLikeStart(data) /\ Len(packet') = 0
           \/ Len(packet) = 0 /\ LooksLikeStart(data) /\ Len(packet') = 1
           \/ Len(packet) = 1 /\ Len(packet') = 2
           \/ Len(packet) = 2 /\ Len(packet') = 0
    BY <1>1, CallbackCounts DEF ByteArrives
  <1>3. sent' = IF sent = 2 THEN 0 ELSE sent + 1
    BY DEF ByteArrives, Transmit
  <1>4. quiet' = IF sent = 0 THEN quiet
                 ELSE IF LooksLikeStart(data) THEN 0
                 ELSE IF quiet < QuietEnough THEN quiet + 1 ELSE quiet
    BY DEF ByteArrives
  <1>5. PacketTypeOK'
    BY <1>2, <1>3, <1>4 DEF QuietEnough
  <1>6. QuietCloses'
    <2> DEFINE start == LooksLikeStart(data)
               p == Len(packet)
               p1 == Len(packet')
    <2>1. start \in BOOLEAN
      BY DEF LooksLikeStart
    <2>2. /\ p \in 0..2 /\ sent \in 0..2 /\ quiet \in 0..5
          /\ p1 \in 0..2 /\ sent' \in 0..2 /\ quiet' \in 0..5
      BY <1>5 DEF QuietEnough
    <2>3. p # sent => quiet + Distance(p, sent) <= 3
      BY DEF QuietCloses
    <2>4. quiet' = IF sent = 0 THEN quiet ELSE IF start THEN 0
                   ELSE IF quiet < 5 THEN quiet + 1 ELSE quiet
      BY <1>4 DEF QuietEnough
    <2>5. sent = 0 => start
      BY <1>1
    <2>6. \/ p = 0 /\ ~start /\ p1 = 0
          \/ p = 0 /\ start /\ p1 = 1
          \/ p = 1 /\ p1 = 2
          \/ p = 2 /\ p1 = 0
      BY <1>2
    <2> HIDE DEF start, p, p1, MouseInv, PacketTypeOK
    <2>7. p1 # sent' => quiet' + Distance(p1, sent') <= 3
      BY <1>3, <2>1, <2>2, <2>3, <2>4, <2>5, <2>6, DistanceShrinks
    <2> QED
      BY <2>7 DEF QuietCloses, p1
  <1>7. NotCounting'
    BY DEF NotCounting, ByteArrives, Transmit
  <1> QED
    BY <1>5, <1>6, <1>7

\* A byte that does not.
LEMMA ByteGetsLostPreserves ==
    ASSUME NEW data \in Statuses \cup Moves, MouseInv, ByteIsLost(data) \/ ByteJams(data)
    PROVE MouseInv'
  <1> USE DEF MouseInv, PacketTypeOK
  <1>1. sent' \in 0..2 /\ packet' = packet
    BY DEF ByteIsLost, ByteJams, Transmit, driver
  <1>2. quiet' = 0
    BY DEF ByteIsLost, ByteJams, NotCounting
  <1>3. NotCounting'
    BY <1>2 DEF NotCounting, ByteIsLost, ByteJams, Transmit
  <1> QED
    BY <1>1, <1>2, <1>3 DEF QuietCloses, Distance, QuietEnough

\* mouse_init: wherever packet or device lose their place, nothing has been
\* counted yet, or counting starts anew.
LEMMA InitStepPreserves == MouseInv /\ mouse_init => MouseInv'
  <1> SUFFICES ASSUME MouseInv, mouse_init PROVE MouseInv'
    OBVIOUS
  <1> USE DEF MouseInv, PacketTypeOK
  <1>1. CASE InitStarts
    BY <1>1 DEF InitStarts, device, QuietCloses, NotCounting
  <1>2. ASSUME Acknowledged PROVE packet' \in Seq(Bytes) /\ Len(packet') \in 0..2
    <2>1. CASE mouse_callback(Ack)
      BY <2>1, CallbackCounts DEF Ack, Bytes
    <2>2. CASE UNCHANGED driver
      BY <2>2 DEF driver
    <2> QED
      BY <1>2, <2>1, <2>2 DEF Acknowledged
  <1>3. CASE SetDefaults
    <2>1. packet' \in Seq(Bytes) /\ Len(packet') \in 0..2
      BY <1>2, <1>3 DEF SetDefaults
    <2> QED
      BY <1>3, <2>1 DEF SetDefaults, QuietCloses, NotCounting, Distance, QuietEnough
  <1>4. CASE EnableReporting
    <2>1. packet' \in Seq(Bytes) /\ Len(packet') \in 0..2
      BY <1>2, <1>4 DEF EnableReporting
    <2> QED
      BY <1>4, <2>1 DEF EnableReporting, QuietCloses, NotCounting, Distance, QuietEnough
  <1>5. CASE ResetPacket
    BY <1>5 DEF ResetPacket, device, QuietCloses, NotCounting, Distance, QuietEnough
  <1>6. CASE InstallHandler
    BY <1>6 DEF InstallHandler, device, QuietCloses, NotCounting, Distance, QuietEnough
  <1> QED
    BY <1>1, <1>3, <1>4, <1>5, <1>6 DEF mouse_init

LEMMA NextPreserves == MouseInv /\ [Next]_mouseVars => MouseInv'
  <1> SUFFICES ASSUME MouseInv, [Next]_mouseVars PROVE MouseInv'
    OBVIOUS
  <1>1. CASE mouse_init
    BY <1>1, InitStepPreserves
  <1>2. CASE Interrupt
    BY <1>2, ByteArrivesPreserves, ByteGetsLostPreserves DEF Interrupt
  <1>3. CASE UNCHANGED mouseVars
    BY <1>3 DEF mouseVars, device, driver, MouseInv, PacketTypeOK, QuietCloses, NotCounting
  <1> QED
    BY <1>1, <1>2, <1>3 DEF Next

----------------------------------------------------------------------------
(* Types                                                                   *)

LEMMA SignedIsInt ==
    ASSUME NEW b \in Bytes, NEW c \in Bytes, NEW w \in {8, 16, 32}
    PROVE Signed(b, Bit(c, w)) \in Int
  <1>1. c \div w \in Int
    BY DEF Bytes
  <1>2. Bit(c, w) \in Int
    BY <1>1 DEF Bit
  <1> QED
    BY <1>2 DEF Signed, Bytes

LEMMA ButtonsOfByte == ASSUME NEW b \in Bytes PROVE b % 8 \in 0..7
  BY DEF Bytes

LEMMA ZeroIsByte == 0 \in Bytes
  BY DEF Bytes

LEMMA ElementOfSeq ==
    ASSUME NEW S, NEW q \in Seq(S), NEW i \in 1..Len(q)
    PROVE q[i] \in S
  OBVIOUS

LEMMA ClampStaysInside ==
    ASSUME NEW v \in Int, NEW size \in Nat \ {0}
    PROVE Clamp(v, size) \in 0..(size - 1)
  BY DEF Clamp

\* The part of TypeOK that mouse_callback changes.
DriverTypeOK ==
    /\ packet \in Seq(Bytes) /\ Len(packet) \in 0..2
    /\ discard_next_packet \in {0, 1}
    /\ mouse_x \in 0..(Width - 1) /\ mouse_y \in 0..(Height - 1)
    /\ mouse_buttons \in 0..7 /\ mouse_dirty \in {0, 1}

\* Any packet, also one put together out of the wrong bytes, leaves the cursor on
\* the screen.
LEMMA CallbackTypes ==
    ASSUME NEW data \in Bytes, DriverTypeOK, mouse_callback(data)
    PROVE DriverTypeOK'
  <1> USE DEF DriverTypeOK
  <1>1. packet' \in Seq(Bytes) /\ Len(packet') \in 0..2
    BY CallbackCounts
  <1>2. CASE DropByte(data) \/ CollectByte(data) \/ DiscardPacket(data)
    BY <1>1, <1>2 DEF DropByte, CollectByte, DiscardPacket, driver, cursor
  <1>3. CASE ApplyPacket(data)
    <2>1. packet[1] \in Bytes /\ packet[2] \in Bytes
      <3>1. packet \in Seq(Bytes) /\ 1 \in 1..Len(packet) /\ 2 \in 1..Len(packet)
        BY <1>3 DEF ApplyPacket
      <3> QED
        BY <3>1, ElementOfSeq
    <2>2. packet[1] % 8 \in 0..7
      BY <2>1, ButtonsOfByte
    <2>3. /\ Signed(packet[2], Bit(packet[1], 16)) \in Int
          /\ Signed(data, Bit(packet[1], 32)) \in Int
      BY <2>1, SignedIsInt
    <2>4. /\ mouse_x + Signed(packet[2], Bit(packet[1], 16)) \in Int
          /\ mouse_y - Signed(data, Bit(packet[1], 32)) \in Int
      BY <2>3, MouseAssumption
    <2>5. mouse_x' \in 0..(Width - 1) /\ mouse_y' \in 0..(Height - 1)
      BY <1>3, <2>4, ClampStaysInside, MouseAssumption DEF ApplyPacket
    <2> QED
      BY <1>1, <1>3, <2>2, <2>5 DEF ApplyPacket
  <1> QED
    BY <1>2, <1>3 DEF mouse_callback

LEMMA CentreIsOnScreen ==
    Width \div 2 \in 0..(Width - 1) /\ Height \div 2 \in 0..(Height - 1)
  BY MouseAssumption

LEMMA InitTypes == Init => TypeOK
  <1> SUFFICES ASSUME Init PROVE TypeOK
    OBVIOUS
  <1>1. packet \in Seq(Bytes) /\ Len(packet) = 0
    BY DEF Init
  <1>2. reporting \in BOOLEAN /\ jammed \in BOOLEAN /\ installed \in BOOLEAN
    BY Zenon DEF Init
  <1> QED
    BY <1>1, <1>2, CentreIsOnScreen, ZeroIsByte DEF Init, TypeOK, QuietEnough

LEMMA NextTypes == TypeOK /\ [Next]_mouseVars => TypeOK'
  <1> SUFFICES ASSUME TypeOK, [Next]_mouseVars PROVE TypeOK'
    OBVIOUS
  <1>1. DriverTypeOK
    BY DEF TypeOK, DriverTypeOK
  <1>2. ASSUME Acknowledged PROVE DriverTypeOK'
    <2>1. CASE mouse_callback(Ack)
      BY <1>1, <2>1, CallbackTypes DEF Ack, Bytes
    <2>2. CASE UNCHANGED driver
      BY <1>1, <2>2 DEF DriverTypeOK, driver, cursor
    <2> QED
      BY <1>2, <2>1, <2>2 DEF Acknowledged
  <1>3. CASE InitStarts
    BY <1>3, CentreIsOnScreen DEF InitStarts, TypeOK, device
  <1>4. CASE SetDefaults
    <2>1. reporting' \in BOOLEAN
      BY <1>4, Zenon DEF SetDefaults
    <2> QED
      BY <1>2, <1>4, <2>1, ZeroIsByte DEF SetDefaults, TypeOK, DriverTypeOK, QuietEnough
  <1>5. CASE EnableReporting
    BY <1>2, <1>5 DEF EnableReporting, TypeOK, DriverTypeOK
  <1>6. CASE ResetPacket
    <2>1. packet' \in Seq(Bytes) /\ Len(packet') = 0
      BY <1>6 DEF ResetPacket
    <2> QED
      BY <1>6, <2>1 DEF ResetPacket, TypeOK, device, cursor, QuietEnough
  <1>7. CASE InstallHandler
    BY <1>7 DEF InstallHandler, TypeOK, device, cursor, QuietEnough
  <1>8. ASSUME NEW data \in Statuses \cup Moves, Transmit(data)
        PROVE /\ data \in Bytes /\ reporting' \in BOOLEAN /\ sent' \in 0..2
              /\ held' \in Bytes /\ reported' \in 0..7
    <2>1. data \in Bytes
      BY MouseAssumption
    <2>2. held' \in Bytes
      BY <1>8, <2>1, ZeroIsByte DEF Transmit, TypeOK
    <2>3. held % 8 \in 0..7
      BY ButtonsOfByte DEF TypeOK
    <2> QED
      BY <1>8, <2>1, <2>2, <2>3 DEF Transmit, TypeOK
  <1>9. ASSUME NEW data \in Statuses \cup Moves, ByteArrives(data) PROVE TypeOK'
    <2>1. Transmit(data) /\ mouse_callback(data)
      BY <1>9 DEF ByteArrives
    <2>2. DriverTypeOK'
      BY <1>1, <1>8, <2>1, CallbackTypes
    <2>3. quiet' \in 0..QuietEnough
      BY <1>9 DEF ByteArrives, TypeOK, QuietEnough
    <2> QED
      BY <1>8, <1>9, <2>1, <2>2, <2>3 DEF ByteArrives, TypeOK, DriverTypeOK
  <1>10. ASSUME NEW data \in Statuses \cup Moves, ByteIsLost(data) \/ ByteJams(data) PROVE TypeOK'
    <2>1. Transmit(data) /\ UNCHANGED driver
      BY <1>10 DEF ByteIsLost, ByteJams
    <2>2. DriverTypeOK'
      BY <1>1, <2>1 DEF DriverTypeOK, driver, cursor
    <2>3. quiet' \in 0..QuietEnough /\ UNCHANGED <<installed, initPc>>
      BY <1>10 DEF ByteIsLost, ByteJams, TypeOK, QuietEnough
    <2>4. jammed' \in BOOLEAN
      BY <1>10, Zenon DEF ByteIsLost, ByteJams, TypeOK
    <2> QED
      BY <1>8, <2>1, <2>2, <2>3, <2>4 DEF TypeOK, DriverTypeOK
  <1>11. CASE UNCHANGED mouseVars
    BY <1>11 DEF mouseVars, device, driver, cursor, TypeOK
  <1> QED
    BY <1>3, <1>4, <1>5, <1>6, <1>7, <1>9, <1>10, <1>11 DEF Next, mouse_init, Interrupt

----------------------------------------------------------------------------
(* The buttons                                                             *)

\* What keeps the buttons wrong, and for how many quiet movements: a packet that
\* will be thrown away, a packet whose status byte is not the device's, or the
\* last of these not yet replaced.
ButtonInv ==
    /\ discard_next_packet \in {0, 1}
    /\ discard_next_packet = 1 /\ Len(packet) = 0 /\ sent = 1 => quiet = 0
    /\ discard_next_packet = 1 /\ Len(packet) = 0 /\ sent = 2 => quiet <= 1
    /\ Len(packet) = sent /\ (discard_next_packet = 1 \/ (sent > 0 /\ packet[1] # held))
          => quiet <= IF sent = 2 THEN 3 ELSE 2
    /\ sent = 0 /\ mouse_buttons # reported => quiet <= 4

\* What the handler does to all of that.
LEMMA CallbackButtons ==
    ASSUME NEW data \in Bytes, packet \in Seq(Bytes), Len(packet) \in 0..2,
           discard_next_packet \in {0, 1}, mouse_callback(data)
    PROVE /\ discard_next_packet' \in {0, 1}
          /\ \/ /\ Len(packet) = 0 /\ ~LooksLikeStart(data) /\ Len(packet') = 0
                /\ UNCHANGED <<discard_next_packet, mouse_buttons>>
             \/ /\ Len(packet) = 0 /\ LooksLikeStart(data) /\ Len(packet') = 1
                /\ packet'[1] = data /\ UNCHANGED <<discard_next_packet, mouse_buttons>>
             \/ /\ Len(packet) = 1 /\ Len(packet') = 2
                /\ packet'[1] = packet[1] /\ UNCHANGED <<discard_next_packet, mouse_buttons>>
             \/ /\ Len(packet) = 2 /\ Len(packet') = 0 /\ discard_next_packet' = 0
                /\ discard_next_packet = 0 => mouse_buttons' = packet[1] % 8
  <1>1. CASE DropByte(data)
    BY <1>1 DEF DropByte, driver, cursor
  <1>2. CASE CollectByte(data)
    <2>1. /\ Len(packet') = Len(packet) + 1
          /\ packet'[1] = IF Len(packet) = 0 THEN data ELSE packet[1]
          /\ UNCHANGED <<discard_next_packet, mouse_buttons>>
      BY <1>2 DEF CollectByte, cursor
    <2>2. Len(packet) < 2 /\ (packet # <<>> \/ LooksLikeStart(data))
      BY <1>2 DEF CollectByte
    <2>3. Len(packet) = 0 => packet = <<>>
      OBVIOUS
    <2>4. CASE Len(packet) = 0
      BY <2>1, <2>2, <2>3, <2>4
    <2>5. CASE Len(packet) = 1
      BY <2>1, <2>5
    <2> QED
      BY <2>2, <2>4, <2>5
  <1>3. CASE DiscardPacket(data) \/ ApplyPacket(data)
    <2>1. Len(packet) = 2 /\ packet' = <<>>
      BY <1>3 DEF DiscardPacket, ApplyPacket
    <2>2. Len(packet') = 0
      BY <2>1
    <2>3. /\ discard_next_packet' = 0
          /\ discard_next_packet = 0 => mouse_buttons' = packet[1] % 8
      BY <1>3 DEF DiscardPacket, ApplyPacket
    <2> QED
      BY <2>1, <2>2, <2>3
  <1> QED
    BY <1>1, <1>2, <1>3 DEF mouse_callback

LEMMA ByteArrivesButtons ==
    ASSUME NEW data \in Statuses \cup Moves, MouseInv, ButtonInv, ByteArrives(data)
    PROVE ButtonInv'
  <1> DEFINE start == LooksLikeStart(data)
             p == Len(packet)
             p1 == Len(packet')
             m == packet[1]
             m1 == packet'[1]
  <1>1. MouseInv'
    BY ByteArrivesPreserves
  <1>2. start \in BOOLEAN
    BY DEF LooksLikeStart
  <1>3. /\ p \in 0..2 /\ sent \in 0..2 /\ quiet \in 0..5
        /\ p1 \in 0..2 /\ sent' \in 0..2 /\ quiet' \in 0..5
    BY <1>1 DEF MouseInv, PacketTypeOK, QuietEnough
  <1>4. /\ p # sent => quiet + Distance(p, sent) <= 3
        /\ p1 # sent' => quiet' + Distance(p1, sent') <= 3
    BY <1>1 DEF MouseInv, QuietCloses
  <1>5. data \in Bytes /\ (sent = 0 => start)
    BY MouseAssumption DEF ByteArrives, Transmit
  <1>6. /\ discard_next_packet' \in {0, 1}
        /\ \/ /\ p = 0 /\ ~start /\ p1 = 0
              /\ UNCHANGED <<discard_next_packet, mouse_buttons>>
           \/ /\ p = 0 /\ start /\ p1 = 1
              /\ m1 = data /\ UNCHANGED <<discard_next_packet, mouse_buttons>>
           \/ /\ p = 1 /\ p1 = 2
              /\ m1 = m /\ UNCHANGED <<discard_next_packet, mouse_buttons>>
           \/ /\ p = 2 /\ p1 = 0 /\ discard_next_packet' = 0
              /\ discard_next_packet = 0 => mouse_buttons' = m % 8
    BY <1>5, CallbackButtons DEF ByteArrives, MouseInv, PacketTypeOK, ButtonInv
  <1>7. /\ sent' = IF sent = 2 THEN 0 ELSE sent + 1
        /\ sent = 0 => held' = data
        /\ sent = 1 => held' = held
        /\ sent # 2 => reported' = reported
        /\ sent = 2 => reported' = held % 8
    BY <1>3 DEF ByteArrives, Transmit
  <1>8. quiet' = IF sent = 0 THEN quiet ELSE IF start THEN 0
                 ELSE IF quiet < 5 THEN quiet + 1 ELSE quiet
    BY DEF ByteArrives, QuietEnough
  <1>9. sent = 2 /\ p = 2 /\ discard_next_packet = 0 /\ m = held => mouse_buttons' = reported'
    BY <1>6, <1>7
  <1>10. /\ discard_next_packet \in {0, 1}
         /\ discard_next_packet = 1 /\ p = 0 /\ sent = 1 => quiet = 0
         /\ discard_next_packet = 1 /\ p = 0 /\ sent = 2 => quiet <= 1
         /\ p = sent /\ (discard_next_packet = 1 \/ (sent > 0 /\ m # held))
               => quiet <= IF sent = 2 THEN 3 ELSE 2
         /\ sent = 0 /\ mouse_buttons # reported => quiet <= 4
    BY DEF ButtonInv
  <1> HIDE DEF start, p, p1, m, m1
  <1>11. /\ discard_next_packet' = 1 /\ p1 = 0 /\ sent' = 1 => quiet' = 0
         /\ discard_next_packet' = 1 /\ p1 = 0 /\ sent' = 2 => quiet' <= 1
         /\ p1 = sent' /\ (discard_next_packet' = 1 \/ (sent' > 0 /\ m1 # held'))
               => quiet' <= IF sent' = 2 THEN 3 ELSE 2
         /\ sent' = 0 /\ mouse_buttons' # reported' => quiet' <= 4
    <2>1. CASE p = 0
      BY <1>3, <1>4, <1>5, <1>6, <1>7, <1>8, <1>10, <2>1 DEF Distance
    <2>2. CASE p = 1
      BY <1>3, <1>4, <1>5, <1>6, <1>7, <1>8, <1>10, <2>2 DEF Distance
    <2>3. CASE p = 2
      BY <1>3, <1>4, <1>5, <1>6, <1>7, <1>8, <1>9, <1>10, <2>3 DEF Distance
    <2> QED
      BY <1>3, <2>1, <2>2, <2>3
  <1> QED
    BY <1>6, <1>11 DEF ButtonInv, p1, m1

LEMMA NextButtons == MouseInv /\ ButtonInv /\ [Next]_mouseVars => ButtonInv'
  <1> SUFFICES ASSUME MouseInv, ButtonInv, [Next]_mouseVars PROVE ButtonInv'
    OBVIOUS
  <1>1. ASSUME quiet' = 0, sent' \in 0..2, discard_next_packet' \in {0, 1} PROVE ButtonInv'
    BY <1>1 DEF ButtonInv
  <1>2. ASSUME Acknowledged PROVE discard_next_packet' \in {0, 1}
    <2>1. CASE mouse_callback(Ack)
      <3>1. Ack \in Bytes
        BY DEF Ack, Bytes
      <3> QED
        BY <2>1, <3>1, CallbackButtons DEF MouseInv, PacketTypeOK, ButtonInv
    <2>2. CASE UNCHANGED driver
      BY <2>2 DEF driver, ButtonInv
    <2> QED
      BY <1>2, <2>1, <2>2 DEF Acknowledged
  <1>3. CASE InitStarts
    BY <1>3 DEF InitStarts, device, ButtonInv
  <1>4. CASE SetDefaults
    BY <1>1, <1>2, <1>4 DEF SetDefaults
  <1>5. CASE EnableReporting
    BY <1>1, <1>2, <1>5 DEF EnableReporting, MouseInv, NotCounting, PacketTypeOK
  <1>6. CASE ResetPacket
    BY <1>1, <1>6 DEF ResetPacket, device, MouseInv, PacketTypeOK, ButtonInv
  <1>7. CASE InstallHandler
    BY <1>1, <1>7 DEF InstallHandler, device, MouseInv, PacketTypeOK
  <1>8. ASSUME NEW data \in Statuses \cup Moves, ByteIsLost(data) \/ ByteJams(data) PROVE ButtonInv'
    <2>1. sent' \in 0..2 /\ UNCHANGED driver
      BY <1>8 DEF ByteIsLost, ByteJams, Transmit, MouseInv, PacketTypeOK
    <2>2. quiet' = 0
      BY <1>8 DEF ByteIsLost, ByteJams, MouseInv, NotCounting
    <2> QED
      BY <1>1, <2>1, <2>2 DEF driver, ButtonInv
  <1>9. CASE Interrupt
    BY <1>8, <1>9, ByteArrivesButtons DEF Interrupt
  <1>10. CASE UNCHANGED mouseVars
    BY <1>10 DEF mouseVars, device, driver, cursor, ButtonInv
  <1> QED
    BY <1>3, <1>4, <1>5, <1>6, <1>7, <1>9, <1>10 DEF Next, mouse_init

LEMMA InitButtons == Init => ButtonInv
  BY DEF Init, ButtonInv

LEMMA InvKnowsButtons == MouseInv /\ ButtonInv => NoPhantomButtons
  BY DEF ButtonInv, NoPhantomButtons, QuietEnough, MouseInv, PacketTypeOK

----------------------------------------------------------------------------
(* The theorem                                                             *)

LEMMA InvResyncs == MouseInv => ResyncsAfterQuietMoves
  BY DEF MouseInv, PacketTypeOK, QuietCloses, Distance, ResyncsAfterQuietMoves, QuietEnough

\* Whatever bytes are lost, and wherever mouse_init falls, three quiet movements
\* bring the driver back to the device's packets (the test of bit 3 in
\* mouse_callback, mouse.c:94-101).
THEOREM DriverResyncs == Spec => []ResyncsAfterQuietMoves
  BY InvResyncs, InitEstablishes, NextPreserves, PTL DEF Spec

----------------------------------------------------------------------------
(* The mouse is changed by the mouse's own steps, or only in its flag      *)

LEMMA CompositorDrivesMouse ==
    [CNext]_vars => [Next]_mouseVars \/ (ClearMouse /\ mouse_dirty' = 0)
  <1> SUFFICES ASSUME [CNext]_vars PROVE [Next]_mouseVars \/ (ClearMouse /\ mouse_dirty' = 0)
    OBVIOUS
  <1>1. CASE MouseInterrupt \/ DesktopStarts \/ MouseInitStep
    BY <1>1 DEF MouseInterrupt, DesktopStarts, MouseInitStep, Next, mouse_init
  <1>2. CASE ClearMouse
    BY <1>2 DEF ClearMouse
  <1>3. CASE EnterLoop \/ ClearWindow \/ Draw \/ FrameEnds \/ PollKeyboard \/ PollMouse
    BY <1>3 DEF EnterLoop, ClearWindow, Draw, DrawWindows, ReadX, ReadY, NextFrame, FrameEnds,
                PollKeyboard, PollMouse
  <1>4. ASSUME NEW w \in Windows, PollWindow(w) \/ TaskStarts(w) \/ StoreCharacter(w) \/ MarkDirty(w)
        PROVE UNCHANGED mouseVars
    BY <1>4 DEF PollWindow, TaskStarts, StoreCharacter, MarkDirty
  <1>5. CASE UNCHANGED vars
    BY <1>5 DEF vars
  <1> QED
    BY <1>1, <1>2, <1>3, <1>4, <1>5 DEF CNext, DesktopStep

\* The driver finds its way back to the device's packets also while the desktop
\* polls it, clears its flag, ends and starts again (desktop_run, desktop.c:291,
\* calls mouse_init each time).
THEOREM CompositorResyncs == CSpec => []ResyncsAfterQuietMoves
  <1>1. CInit => MouseInv
    BY InitEstablishes DEF CInit
  <1>2. MouseInv /\ [CNext]_vars => MouseInv'
    <2>1. MouseInv /\ ClearMouse => MouseInv'
      BY DEF ClearMouse, device, MouseInv, PacketTypeOK, QuietCloses, NotCounting
    <2> QED
      BY <2>1, CompositorDrivesMouse, NextPreserves
  <1>3. MouseInv => ResyncsAfterQuietMoves
    BY InvResyncs
  <1> QED
    BY <1>1, <1>2, <1>3, PTL DEF CSpec

\* Nor does the desktop keep a button down that the device does not report: the
\* buttons that FrameEnds samples (desktop.c:329) are right after five quiet
\* movements, even when mouse_init has made the driver drop a packet.
THEOREM ButtonsAreNotImagined == CSpec => []NoPhantomButtons
  <1> DEFINE I == MouseInv /\ ButtonInv
  <1>1. CInit => I
    BY InitEstablishes, InitButtons DEF CInit
  <1>2. I /\ [CNext]_vars => I'
    <2>1. I /\ ClearMouse => I'
      BY DEF ClearMouse, device, MouseInv, PacketTypeOK, QuietCloses, NotCounting, ButtonInv
    <2> QED
      BY <2>1, CompositorDrivesMouse, NextPreserves, NextButtons
  <1>3. I => NoPhantomButtons
    BY InvKnowsButtons
  <1> QED
    BY <1>1, <1>2, <1>3, PTL DEF CSpec

----------------------------------------------------------------------------
(* Types                                                                   *)

\* The part of CTypeOK that is not the mouse's.
FrameTypeOK ==
    /\ pc \in {"off", "init", "poll", "clearMouse", "clearWindow", "windows", "cursor", "haveX",
               "haveY", "drawn"}
    /\ polled \in Windows \cup {NoWindow}
    /\ need_redraw \in BOOLEAN /\ prev_buttons \in 0..7 /\ quit_requested \in BOOLEAN
    /\ shownX \in 0..(Width - 1) /\ shownY \in 0..(Height - 1)

TableTypeOK ==
    /\ window \in [Windows -> {"closed", "new", "open"}]
    /\ stale \in [Windows -> BOOLEAN] /\ storing \in [Windows -> BOOLEAN]
    /\ vga_redirect_dirty \in [Windows -> {0, 1}]

LEMMA CTypeParts == CTypeOK <=> TypeOK /\ FrameTypeOK /\ TableTypeOK
  BY DEF CTypeOK, FrameTypeOK, TableTypeOK

LEMMA NoWindowsTypes ==
    /\ NoWindows.window \in [Windows -> {"closed", "new", "open"}]
    /\ NoWindows.stale \in [Windows -> BOOLEAN] /\ NoWindows.storing \in [Windows -> BOOLEAN]
    /\ NoWindows.dirty \in [Windows -> {0, 1}]
  BY DEF NoWindows

LEMMA InitTypesC == CInit => CTypeOK
  <1> SUFFICES ASSUME CInit PROVE CTypeOK
    OBVIOUS
  <1>1. TypeOK
    BY InitTypes DEF CInit
  <1>2. need_redraw \in BOOLEAN /\ quit_requested \in BOOLEAN
    BY Zenon DEF CInit
  <1>3. shownX \in 0..(Width - 1) /\ shownY \in 0..(Height - 1)
    BY <1>1 DEF CInit, TypeOK
  <1>4. FrameTypeOK
    BY <1>2, <1>3 DEF CInit, FrameTypeOK
  <1>5. TableTypeOK
    BY NoWindowsTypes DEF CInit, TableTypeOK
  <1> QED
    BY <1>1, <1>4, <1>5, CTypeParts

LEMMA NextTypesMouse == TypeOK /\ [CNext]_vars => TypeOK'
  <1>1. TypeOK /\ ClearMouse => TypeOK'
    BY DEF ClearMouse, device, TypeOK
  <1> QED
    BY <1>1, CompositorDrivesMouse, NextTypes

\* The tables of the windows: their tasks, clicks and redraws.
LEMMA NextTypesTable == TableTypeOK /\ [CNext]_vars => TableTypeOK'
  <1> SUFFICES ASSUME TableTypeOK, [CNext]_vars PROVE TableTypeOK'
    OBVIOUS
  <1>1. CASE UNCHANGED windowVars
    BY <1>1 DEF windowVars, TableTypeOK
  <1>2. ASSUME NEW w \in Windows, TaskStarts(w) \/ StoreCharacter(w) \/ MarkDirty(w)
        PROVE TableTypeOK'
    BY <1>2 DEF TaskStarts, StoreCharacter, MarkDirty, TableTypeOK
  <1>3. ASSUME NEW w \in Windows, OpenWindow(w) \/ CloseWindow(w)
        PROVE TableTypeOK'
    BY <1>3 DEF OpenWindow, CloseWindow, TableTypeOK
  <1>4. CASE FrameEnds
    BY <1>1, <1>3, <1>4 DEF FrameEnds, Click
  <1>5. CASE ClearWindow
    BY <1>5 DEF ClearWindow, TableTypeOK
  <1>6. CASE DrawWindows
    BY <1>6 DEF DrawWindows, TableTypeOK
  <1>7. CASE NextFrame
    BY <1>1, <1>7, NoWindowsTypes DEF NextFrame, TableTypeOK
  <1>8. CASE MouseInterrupt \/ DesktopStarts \/ MouseInitStep \/ EnterLoop \/ ClearMouse
    BY <1>1, <1>8 DEF MouseInterrupt, DesktopStarts, MouseInitStep, EnterLoop, ClearMouse
  <1>9. CASE PollKeyboard \/ PollMouse \/ ReadX \/ ReadY \/ \E w \in Windows : PollWindow(w)
    BY <1>1, <1>9 DEF PollKeyboard, PollMouse, ReadX, ReadY, PollWindow
  <1>10. CASE UNCHANGED vars
    BY <1>1, <1>10 DEF vars
  <1> QED
    BY <1>2, <1>4, <1>5, <1>6, <1>7, <1>8, <1>9, <1>10 DEF CNext, DesktopStep, Draw

\* The compositor's own variables.
LEMMA NextTypesFrame == TypeOK /\ FrameTypeOK /\ [CNext]_vars => FrameTypeOK'
  <1> SUFFICES ASSUME TypeOK, FrameTypeOK, [CNext]_vars PROVE FrameTypeOK'
    OBVIOUS
  <1>1. CASE UNCHANGED compositor
    BY <1>1 DEF compositor, FrameTypeOK
  <1>2. CASE DesktopStarts \/ PollMouse \/ DrawWindows
    BY <1>2 DEF DesktopStarts, PollMouse, DrawWindows, FrameTypeOK
  <1>3. CASE EnterLoop \/ PollKeyboard \/ ClearMouse \/ ClearWindow
    <2>1. need_redraw' \in BOOLEAN /\ quit_requested' \in BOOLEAN
      BY <1>3, Zenon DEF EnterLoop, PollKeyboard, ClearMouse, ClearWindow, FrameTypeOK
    <2> QED
      BY <1>3, <2>1 DEF EnterLoop, PollKeyboard, ClearMouse, ClearWindow, FrameTypeOK
  <1>4. CASE FrameEnds
    <2>1. need_redraw' \in BOOLEAN /\ quit_requested' \in BOOLEAN
      BY <1>4, Zenon DEF FrameEnds, Click, FrameTypeOK
    <2> QED
      BY <1>4, <2>1 DEF FrameEnds, FrameTypeOK, TypeOK
  <1>5. CASE ReadX \/ ReadY
    BY <1>5 DEF ReadX, ReadY, FrameTypeOK, TypeOK
  <1>6. CASE NextFrame
    <2>1. need_redraw' \in BOOLEAN
      BY <1>6, Zenon DEF NextFrame
    <2> QED
      BY <1>6, <2>1, CentreIsOnScreen DEF NextFrame, FrameTypeOK
  <1>7. ASSUME NEW w \in Windows, PollWindow(w) PROVE FrameTypeOK'
    BY <1>7 DEF PollWindow, FrameTypeOK
  <1>8. CASE MouseInterrupt \/ MouseInitStep
    BY <1>1, <1>8 DEF MouseInterrupt, MouseInitStep
  <1>9. CASE \E w \in Windows : TaskStarts(w) \/ StoreCharacter(w) \/ MarkDirty(w)
    BY <1>1, <1>9 DEF TaskStarts, StoreCharacter, MarkDirty
  <1>10. CASE UNCHANGED vars
    BY <1>1, <1>10 DEF vars
  <1> QED
    BY <1>2, <1>3, <1>4, <1>5, <1>6, <1>7, <1>8, <1>9, <1>10 DEF CNext, DesktopStep, Draw

----------------------------------------------------------------------------
(* Nothing is forgotten                                                    *)

\* TextIsNeverForgotten is not inductive: the end of a frame resets need_redraw.
\* What was stored after the windows were drawn has its own flag, or is about to.
StoredSinceDrawn ==
    \A w \in Windows :
        pc \in {"cursor", "haveX", "haveY", "drawn"} /\ window[w] = "open" /\ stale[w] =>
            vga_redirect_dirty[w] = 1 \/ storing[w]

CompositorInv == NothingIsForgotten /\ StoredSinceDrawn

\* A step of the mouse moves the cursor only with its flag raised, or while the
\* desktop starts, which draws everything.
LEMMA MouseRaisesFlag ==
    [Next]_mouseVars =>
        \/ UNCHANGED <<mouse_x, mouse_y, mouse_dirty>>
        \/ mouse_dirty' = 1
        \/ InitStarts
  <1>1. ASSUME NEW data, mouse_callback(data)
        PROVE UNCHANGED <<mouse_x, mouse_y, mouse_dirty>> \/ mouse_dirty' = 1
    BY <1>1 DEF mouse_callback, DropByte, CollectByte, DiscardPacket, ApplyPacket, driver, cursor
  <1>2. Acknowledged => UNCHANGED <<mouse_x, mouse_y, mouse_dirty>> \/ mouse_dirty' = 1
    BY <1>1 DEF Acknowledged, driver, cursor
  <1>3. mouse_init => InitStarts \/ UNCHANGED <<mouse_x, mouse_y, mouse_dirty>> \/ mouse_dirty' = 1
    BY <1>2 DEF mouse_init, SetDefaults, EnableReporting, ResetPacket, InstallHandler, cursor
  <1>4. Interrupt => UNCHANGED <<mouse_x, mouse_y, mouse_dirty>> \/ mouse_dirty' = 1
    BY <1>1 DEF Interrupt, ByteArrives, ByteIsLost, ByteJams, driver, cursor
  <1> QED
    BY <1>3, <1>4 DEF Next, mouseVars, driver, cursor

\* The cursor.
LEMMA CursorPreserved ==
    CTypeOK /\ CursorIsNeverForgotten /\ [CNext]_vars => CursorIsNeverForgotten'
  <1> SUFFICES ASSUME CTypeOK, CursorIsNeverForgotten, [CNext]_vars PROVE CursorIsNeverForgotten'
    OBVIOUS
  <1> USE DEF CursorIsNeverForgotten, WillDraw
  <1>1. CASE MouseInterrupt \/ MouseInitStep
    <2>1. [Next]_mouseVars /\ UNCHANGED compositor /\ ~InitStarts
      BY <1>1 DEF MouseInterrupt, MouseInitStep, Next, mouse_init, Interrupt, ByteArrives, ByteIsLost,
                  ByteJams, InitStarts, SetDefaults, EnableReporting, ResetPacket, InstallHandler
    <2>2. UNCHANGED <<mouse_x, mouse_y, mouse_dirty>> \/ mouse_dirty' = 1
      BY <2>1, MouseRaisesFlag
    <2> QED
      BY <2>1, <2>2 DEF compositor
  <1>2. CASE DesktopStarts \/ EnterLoop \/ DrawWindows
    BY <1>2 DEF DesktopStarts, EnterLoop, DrawWindows
  <1>3. CASE ClearMouse \/ ClearWindow \/ PollKeyboard \/ PollMouse
    BY <1>3 DEF ClearMouse, ClearWindow, PollKeyboard, PollMouse, mouseVars, driver, cursor
  <1>4. CASE FrameEnds
    <2>1. need_redraw => need_redraw'
      BY <1>4 DEF FrameEnds, Click
    <2> QED
      BY <1>4, <2>1 DEF FrameEnds, mouseVars, driver, cursor
  <1>5. CASE ReadX \/ ReadY
    BY <1>5 DEF ReadX, ReadY, mouseVars, driver, cursor
  <1>6. CASE NextFrame
    BY <1>6 DEF NextFrame, mouseVars, driver, cursor
  <1>7. CASE \E w \in Windows : PollWindow(w) \/ TaskStarts(w) \/ StoreCharacter(w) \/ MarkDirty(w)
    BY <1>7 DEF PollWindow, TaskStarts, StoreCharacter, MarkDirty, mouseVars, driver, cursor, compositor
  <1>8. CASE UNCHANGED vars
    BY <1>8 DEF vars, mouseVars, driver, cursor, compositor
  <1> QED
    BY <1>1, <1>2, <1>3, <1>4, <1>5, <1>6, <1>7, <1>8 DEF CNext, DesktopStep, Draw

\* The text of the windows.
LEMMA TextPreserved ==
    CTypeOK /\ TextIsNeverForgotten /\ StoredSinceDrawn /\ [CNext]_vars
        => TextIsNeverForgotten' /\ StoredSinceDrawn'
  <1> SUFFICES ASSUME CTypeOK, TextIsNeverForgotten, StoredSinceDrawn, [CNext]_vars
               PROVE TextIsNeverForgotten' /\ StoredSinceDrawn'
    OBVIOUS
  <1> USE DEF TextIsNeverForgotten, StoredSinceDrawn, WillDraw
  <1>1. TableTypeOK
    BY CTypeParts
  <1>2. CASE MouseInterrupt \/ MouseInitStep \/ DesktopStarts \/ EnterLoop
    BY <1>2 DEF MouseInterrupt, MouseInitStep, DesktopStarts, EnterLoop, compositor, windowVars
  <1>3. CASE ClearMouse \/ PollKeyboard \/ PollMouse \/ ReadX \/ ReadY
    BY <1>3 DEF ClearMouse, PollKeyboard, PollMouse, ReadX, ReadY, windowVars
  <1>4. CASE ClearWindow
    BY <1>4 DEF ClearWindow
  <1>5. CASE FrameEnds
    <2>1. need_redraw => need_redraw'
      BY <1>5 DEF FrameEnds, Click
    <2>2. UNCHANGED windowVars \/ need_redraw'
      BY <1>5 DEF FrameEnds, Click
    <2> QED
      BY <1>5, <2>1, <2>2 DEF FrameEnds, windowVars
  <1>6. CASE DrawWindows
    BY <1>1, <1>6 DEF DrawWindows, TableTypeOK
  <1>7. CASE NextFrame
    BY <1>7 DEF NextFrame, windowVars, NoWindows
  <1>8. ASSUME NEW w \in Windows, PollWindow(w)
        PROVE TextIsNeverForgotten' /\ StoredSinceDrawn'
    BY <1>8 DEF PollWindow, windowVars
  <1>9. ASSUME NEW w \in Windows, TaskStarts(w) \/ StoreCharacter(w) \/ MarkDirty(w)
        PROVE TextIsNeverForgotten' /\ StoredSinceDrawn'
    BY <1>1, <1>9 DEF TaskStarts, StoreCharacter, MarkDirty, TableTypeOK, compositor
  <1>10. CASE UNCHANGED vars
    BY <1>10 DEF vars, compositor, windowVars
  <1> QED
    BY <1>2, <1>3, <1>4, <1>5, <1>6, <1>7, <1>8, <1>9, <1>10 DEF CNext, DesktopStep, Draw

\* Neither a mouse interrupt nor a character printed at the wrong moment of a
\* frame goes unseen: the flags of mouse_consume_dirty and task_consume_vga_dirty
\* are tested and cleared without a lock, and that is enough.
THEOREM NothingGetsForgotten == CSpec => []NothingIsForgotten
  <1>1. CInit => CompositorInv
    <2> SUFFICES ASSUME CInit PROVE CompositorInv
      OBVIOUS
    <2>1. CursorIsNeverForgotten
      BY DEF CInit, CursorIsNeverForgotten
    <2>2. TextIsNeverForgotten /\ StoredSinceDrawn
      BY DEF CInit, TextIsNeverForgotten, StoredSinceDrawn, NoWindows
    <2> QED
      BY <2>1, <2>2, InitTypesC DEF CompositorInv, NothingIsForgotten
  <1>2. CompositorInv /\ [CNext]_vars => CompositorInv'
    BY NextTypesMouse, NextTypesTable, NextTypesFrame, CTypeParts, CursorPreserved, TextPreserved
    DEF CompositorInv, NothingIsForgotten, CTypeOK, FrameTypeOK, TableTypeOK
  <1>3. CompositorInv => NothingIsForgotten
    BY DEF CompositorInv
  <1> QED
    BY <1>1, <1>2, <1>3, PTL DEF CSpec
=============================================================================
