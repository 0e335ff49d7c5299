--------------------------- MODULE LcdController ----------------------------
(***************************************************************************)
(* The display side of the HAL on the Raspberry Pi (hal/rpi/hal.c, lcd.c): *)
(* instructions and characters are sent to an HD44780 controller as two    *)
(* nibbles each, a nibble as three I2C bytes that raise and lower the      *)
(* enable line.  The daemon can be killed between any two bytes and is     *)
(* then started again, while the controller keeps its power and its state. *)
(* An I2C write may fail, which lcd.c ignores.                             *)
(*                                                                         *)
(* The controller is external hardware; its 4-bit interface and the        *)
(* instructions that lcd.c sends are modelled.                             *)
(***************************************************************************)
EXTENDS Naturals, Sequences

CONSTANTS
  StrSize,   \* LIBLCD_IPC_PRINT_STRING_SIZE: a row and a terminator
  LowLines,  \* what the controller reads on its unwired data lines
  MaxCalls,  \* bound: HAL calls
  MaxLost    \* bound: I2C writes that fail

ASSUME LcdAssumption ==
  /\ StrSize \in 2 .. 20 /\ LowLines \in 0 .. 15
  /\ MaxCalls \in Nat /\ MaxLost \in Nat

Blank   == 32
Columns == 0 .. StrSize - 2
Rows    == {1, 2}

VARIABLES
  hd,     \* the controller
  bus,    \* the I2C expander's outputs: what the last byte set
  daemon, \* "off", "setup", "idle", "call" or "stop"
  queue,  \* what the current HAL function has still to write, as calls of
          \* lcd_write_mode or a backlight byte: the I2C bytes of each
  at,     \* the next byte of the first of them
  want,   \* what the display should show
  lit,    \* what the last backlight request asked for
  calls,  \* HAL calls so far
  lost,   \* I2C writes that failed so far
  garbled \* one of them failed since the daemon started

lcdVars == <<hd, bus, daemon, queue, at, want, lit, calls, lost, garbled>>

-----------------------------------------------------------------------------
(* The controller.                                                         *)

Ram    == (0 .. 39) \cup (64 .. 103)
NoHalf == 16

(* bits: interface width; half: first nibble of a byte in 4-bit mode.      *)
PowerOn == [bits |-> 8, half |-> NoHalf, ac |-> 0, cg |-> FALSE, on |-> FALSE,
            left |-> TRUE, shifted |-> FALSE, ram |-> [a \in Ram |-> Blank]]

Step(a, up) ==
  IF up THEN CASE a = 39 -> 64 [] a = 103 -> 0 [] OTHER -> a + 1
  ELSE CASE a = 0 -> 103 [] a = 64 -> 39 [] OTHER -> a - 1

Execute(h, rs, byte) ==
  CASE rs = 1 /\ h.cg     -> h
    [] rs = 1 /\ ~h.cg    -> [h EXCEPT !.ram[h.ac] = byte,
                                       !.ac = Step(@, h.left)]
    [] rs = 0 /\ byte >= 128 ->
         IF byte - 128 \in Ram THEN [h EXCEPT !.ac = byte - 128, !.cg = FALSE]
         ELSE h
    [] rs = 0 /\ byte \in 64 .. 127 -> [h EXCEPT !.cg = TRUE]
    [] rs = 0 /\ byte \in 32 .. 63  ->
         [h EXCEPT !.bits = IF byte >= 48 THEN 8 ELSE 4]
    [] rs = 0 /\ byte \in 24 .. 31  -> [h EXCEPT !.shifted = TRUE]
    [] rs = 0 /\ byte \in 16 .. 23  -> [h EXCEPT !.ac = Step(@, byte >= 20)]
    [] rs = 0 /\ byte \in 8 .. 15   -> [h EXCEPT !.on = byte >= 12]
    [] rs = 0 /\ byte \in 4 .. 7    -> [h EXCEPT !.left = byte >= 6]
    [] rs = 0 /\ byte \in 2 .. 3    -> [h EXCEPT !.ac = 0, !.cg = FALSE,
                                                 !.shifted = FALSE]
    [] rs = 0 /\ byte = 1           ->
         [h EXCEPT !.ac = 0, !.cg = FALSE, !.shifted = FALSE, !.left = TRUE,
                   !.ram = [a \in Ram |-> Blank]]
    [] OTHER -> h

(* A nibble is latched: a whole instruction in 8-bit mode, half of one in  *)
(* 4-bit mode.                                                             *)
Latch(h, rs, nib) ==
  IF h.bits = 8
  THEN Execute([h EXCEPT !.half = NoHalf], rs, 16 * nib + LowLines)
  ELSE IF h.half = NoHalf THEN [h EXCEPT !.half = nib]
  ELSE Execute([h EXCEPT !.half = NoHalf], rs, 16 * h.half + nib)

-----------------------------------------------------------------------------
(* lcd.c: the I2C bytes of each function.  A byte is its four data bits,   *)
(* the register select and enable bits and the backlight bit.              *)

Byte(rs, nib, en, bl) == [rs |-> rs, nib |-> nib, en |-> en, bl |-> bl]

(* Mutant of lcd_strobe: the backlight bit is left out.                    *)
lcd_strobe_Dark(rs, nib) ==
  <<Byte(rs, nib, TRUE, FALSE), Byte(rs, nib, FALSE, FALSE)>>

(* The backlight bit is set in every byte.                                 *)
lcd_strobe(rs, nib) ==
  <<Byte(rs, nib, TRUE, TRUE), Byte(rs, nib, FALSE, TRUE)>>

lcd_write_four_bits(rs, nib) ==
  <<Byte(rs, nib, FALSE, TRUE)>> \o lcd_strobe(rs, nib)

(* Mutant of lcd_write_mode: without the mask of the second nibble.        *)
lcd_write_mode_Unmasked(cmd, rs) ==
  lcd_write_four_bits(rs, cmd \div 16) \o lcd_write_four_bits(rs, cmd)

lcd_write_mode(cmd, rs) ==
  lcd_write_four_bits(rs, cmd \div 16) \o lcd_write_four_bits(rs, cmd % 16)

lcd_write(cmd) == lcd_write_mode(cmd, 0)

(* Mutant of lcd_setup: without the initial magic bytes.                   *)
lcd_setup_NoMagic ==
  <<lcd_write(40), lcd_write(12), lcd_write(1), lcd_write(6)>>

(* 0x03 three times and 0x02; then function set 0x28 (4 bit, 2 lines),     *)
(* display on 0x0C, clear 0x01, entry mode left to right 0x06.             *)
lcd_setup ==
  <<lcd_write(3), lcd_write(3), lcd_write(3), lcd_write(2),
    lcd_write(40), lcd_write(12), lcd_write(1), lcd_write(6)>>

(* The offset lcd_display_string_pos adds to the column.                   *)
LineOffset(line) ==
  CASE line = 2 -> 64 [] line = 3 -> 20 [] line = 4 -> 84 [] OTHER -> 0

(* Both additions are done in eight bits.                                  *)
PosCommand(line, pos) ==
  LET pos_new == (pos + LineOffset(line)) % 256 IN (128 + pos_new) % 256

lcd_display_string_pos(string, line, pos) ==
  <<lcd_write(PosCommand(line, pos))>>
    \o [i \in 1 .. Len(string) |-> lcd_write_mode(string[i], 1)]

lcd_clear == <<lcd_write(1), lcd_write(2)>>

lcd_backlight(state) == << <<Byte(0, 0, FALSE, state)>> >>

-----------------------------------------------------------------------------
LcdTypeOK ==
  /\ hd.bits \in {4, 8} /\ hd.half \in 0 .. NoHalf /\ hd.ac \in Ram
  /\ hd.cg \in BOOLEAN /\ hd.on \in BOOLEAN /\ hd.left \in BOOLEAN
  /\ hd.shifted \in BOOLEAN /\ hd.ram \in [Ram -> 0 .. 255]
  /\ bus \in [rs : {0, 1}, nib : 0 .. 15, en : BOOLEAN, bl : BOOLEAN]
  /\ daemon \in {"off", "setup", "idle", "call", "stop"}
  /\ (queue = <<>>) <=> daemon \in {"off", "idle"}
  /\ at \in 1 .. 6 /\ (queue = <<>> => at = 1)
  /\ want \in [Rows \X Columns -> 0 .. 255]
  /\ lit \in BOOLEAN
  /\ calls \in 0 .. MaxCalls /\ lost \in 0 .. MaxLost /\ garbled \in BOOLEAN

Empty == [cell \in Rows \X Columns |-> Blank]

LcdInit ==
  /\ hd = PowerOn
  /\ bus = Byte(0, 0, FALSE, FALSE)
  /\ daemon = "off" /\ queue = <<>> /\ at = 1
  /\ want = Empty /\ lit = FALSE
  /\ calls = 0 /\ lost = 0 /\ garbled = FALSE

(* hal_init: lcd_init, then lcd_setup.                                     *)
hal_init ==
  /\ daemon = "off" /\ calls < MaxCalls
  /\ daemon' = "setup" /\ queue' = lcd_setup
  /\ want' = Empty /\ lit' = TRUE
  /\ calls' = calls + 1
  /\ garbled' = FALSE
  /\ UNCHANGED <<hd, bus, at, lost>>

(* A request reaches the HAL; what it should do to want and lit is said by *)
(* the program that made the request.                                      *)
Call(writes) ==
  /\ daemon = "idle" /\ calls < MaxCalls
  /\ daemon' = "call" /\ queue' = writes
  /\ calls' = calls + 1
  /\ UNCHANGED <<hd, bus, at, lost, garbled>>

hal_lcd_display_string_pos(string, line, pos) ==
  Call(lcd_display_string_pos(string, line, pos))

hal_lcd_clear == Call(lcd_clear)

hal_lcd_backlight(state) == Call(lcd_backlight(state))

(* hal_deinit on a regular exit: lcd_deinit puts the backlight out.        *)
hal_deinit ==
  /\ daemon = "idle"
  /\ daemon' = "stop" /\ queue' = lcd_backlight(FALSE)
  /\ lit' = FALSE
  /\ UNCHANGED <<hd, bus, at, want, calls, lost, garbled>>

(***************************************************************************)
(* The expander drives its outputs to the byte.  The controller latches    *)
(* when enable falls; if the data lines change in the same instant, which  *)
(* happens only to a byte that follows a kill, it may see either value.    *)
(***************************************************************************)
i2cWriteByteDelayed ==
  /\ queue # <<>>
  /\ \/ /\ bus' = Head(queue)[at]
        /\ IF bus.en /\ ~bus'.en
           THEN \E b \in {bus, bus'} : hd' = Latch(hd, b.rs, b.nib)
           ELSE UNCHANGED hd
        /\ UNCHANGED <<lost, garbled>>
     \/ /\ lost < MaxLost
        /\ lost' = lost + 1 /\ garbled' = TRUE
        /\ UNCHANGED <<bus, hd>>
  /\ \/ /\ at < Len(Head(queue))
        /\ at' = at + 1 /\ UNCHANGED <<queue, daemon>>
     \/ /\ at = Len(Head(queue))
        /\ at' = 1 /\ queue' = Tail(queue)
        /\ daemon' = IF Len(queue) > 1 THEN daemon
                     ELSE IF daemon = "stop" THEN "off" ELSE "idle"
  /\ UNCHANGED <<want, lit, calls>>

Kill ==
  /\ daemon \in {"setup", "call", "idle"}
  /\ daemon' = "off" /\ queue' = <<>> /\ at' = 1
  /\ UNCHANGED <<hd, bus, want, lit, calls, lost, garbled>>

Device == hal_init \/ hal_deinit \/ i2cWriteByteDelayed \/ Kill

-----------------------------------------------------------------------------
(* Properties.                                                             *)

(* Between two HAL calls of a daemon none of whose I2C writes failed.      *)
Settled == daemon = "idle" /\ ~garbled

(***************************************************************************)
(* Between two HAL calls the controller is in step with lcd.c: 4-bit mode, *)
(* no half byte pending, display on, text entered from left to right.  So  *)
(* lcd_setup brings it there from power-on and from wherever a killed      *)
(* daemon or a failed I2C write left it, between the nibbles of a byte or  *)
(* with enable raised.                                                     *)
(***************************************************************************)
InStep ==
  Settled =>
    /\ hd.bits = 4 /\ hd.half = NoHalf /\ ~bus.en
    /\ hd.on /\ hd.left /\ ~hd.cg /\ ~hd.shifted

(***************************************************************************)
(* Between two HAL calls the display shows what the commands since the     *)
(* start of the daemon asked for, and nothing of what an earlier daemon    *)
(* left or a failed I2C write garbled.                                     *)
(***************************************************************************)
ShowsWanted ==
  Settled =>
    \A cell \in Rows \X Columns :
      hd.ram[64 * (cell[1] - 1) + cell[2]] = want[cell]

(***************************************************************************)
(* Between two HAL calls the backlight is off only if the last backlight   *)
(* command said so; the converse does not hold, as any other command       *)
(* switches it on again (lcd.c:86).                                        *)
(***************************************************************************)
DarkOnlyIfAsked == Settled /\ ~bus.bl => ~lit
=============================================================================
