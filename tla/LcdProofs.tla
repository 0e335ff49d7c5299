------------------------------ MODULE LcdProofs -----------------------------
(***************************************************************************)
(* Proofs about the display driver lcd.c and the controller behind it, for *)
(* every size of the display, every text and any number of calls, kills    *)
(* and lost I2C writes.                                                    *)
(***************************************************************************)
EXTENDS Mmlcdctl, SequenceTheorems, TLAPS

IoByte == [rs : {0, 1}, nib : 0 .. 15, en : BOOLEAN, bl : BOOLEAN]

(* A controller; in 8-bit mode no half of a byte is pending.               *)
HdRecord ==
  [bits : {4, 8}, half : 0 .. NoHalf, ac : Ram, cg : BOOLEAN, on : BOOLEAN,
   left : BOOLEAN, shifted : BOOLEAN, ram : [Ram -> 0 .. 255]]

IsHd(h) == h \in HdRecord /\ (h.bits = 8 => h.half = NoHalf)

USE DEF NoHalf

-----------------------------------------------------------------------------
(* The bytes of lcd_write_mode.                                            *)

LEMMA Nibbles ==
  ASSUME NEW c \in 0 .. 255
  PROVE  c \div 16 \in 0 .. 15 /\ c % 16 \in 0 .. 15
OBVIOUS

LEMMA Rejoined ==
  ASSUME NEW c \in 0 .. 255, NEW q \in 0 .. 15, NEW r \in 0 .. 15,
         q = c \div 16, r = c % 16
  PROVE  16 * q + r = c
OBVIOUS

LEMMA ThreeOf ==
  ASSUME NEW S, NEW a \in S, NEW b \in S, NEW c \in S
  PROVE  LET t == <<a>> \o <<b, c>> IN
         t \in Seq(S) /\ Len(t) = 3 /\ t[1] = a /\ t[2] = b /\ t[3] = c
OBVIOUS

LEMMA SixOf ==
  ASSUME NEW S, NEW s \in Seq(S), NEW t \in Seq(S), Len(s) = 3, Len(t) = 3
  PROVE  /\ s \o t \in Seq(S) /\ Len(s \o t) = 6
         /\ (s \o t)[1] = s[1] /\ (s \o t)[2] = s[2] /\ (s \o t)[3] = s[3]
         /\ (s \o t)[4] = t[1] /\ (s \o t)[5] = t[2] /\ (s \o t)[6] = t[3]
BY ConcatProperties, SMTT(30)

LEMMA SixBytes ==
  ASSUME NEW s \in Seq(IoByte), NEW t \in Seq(IoByte), Len(s) = 3, Len(t) = 3
  PROVE  /\ s \o t \in Seq(IoByte) /\ Len(s \o t) = 6
         /\ (s \o t)[1] = s[1] /\ (s \o t)[2] = s[2] /\ (s \o t)[3] = s[3]
         /\ (s \o t)[4] = t[1] /\ (s \o t)[5] = t[2] /\ (s \o t)[6] = t[3]
BY SixOf

LEMMA FourBits ==
  ASSUME NEW rs \in {0, 1}, NEW nib \in 0 .. 15
  PROVE  LET t == lcd_write_four_bits(rs, nib) IN
         /\ t \in Seq(IoByte) /\ Len(t) = 3
         /\ t[1] = Byte(rs, nib, FALSE, TRUE)
         /\ t[2] = Byte(rs, nib, TRUE, TRUE)
         /\ t[3] = Byte(rs, nib, FALSE, TRUE)
<1>1. \A en \in BOOLEAN : Byte(rs, nib, en, TRUE) \in IoByte
  BY DEF Byte, IoByte
<1> DEFINE up == Byte(rs, nib, TRUE, TRUE)
           down == Byte(rs, nib, FALSE, TRUE)
<1>2. lcd_write_four_bits(rs, nib) = <<down>> \o <<up, down>>
  BY DEF lcd_write_four_bits, lcd_strobe
<1>3. up \in IoByte /\ down \in IoByte
  BY <1>1
<1> HIDE DEF up, down
<1>4. LET t == <<down>> \o <<up, down>> IN
      /\ t \in Seq(IoByte) /\ Len(t) = 3
      /\ t[1] = down /\ t[2] = up /\ t[3] = down
  BY <1>3, ThreeOf
<1>5. QED
  BY <1>2, <1>4 DEF up, down

LEMMA WriteBytes ==
  ASSUME NEW cmd \in 0 .. 255, NEW rs \in {0, 1}
  PROVE  LET w == lcd_write_mode(cmd, rs) IN
         /\ w \in Seq(IoByte) /\ Len(w) = 6
         /\ w[1] = Byte(rs, cmd \div 16, FALSE, TRUE)
         /\ w[2] = Byte(rs, cmd \div 16, TRUE, TRUE)
         /\ w[3] = Byte(rs, cmd \div 16, FALSE, TRUE)
         /\ w[4] = Byte(rs, cmd % 16, FALSE, TRUE)
         /\ w[5] = Byte(rs, cmd % 16, TRUE, TRUE)
         /\ w[6] = Byte(rs, cmd % 16, FALSE, TRUE)
<1> DEFINE s == lcd_write_four_bits(rs, cmd \div 16)
           t == lcd_write_four_bits(rs, cmd % 16)
<1>1. /\ s \in Seq(IoByte) /\ Len(s) = 3
      /\ s[1] = Byte(rs, cmd \div 16, FALSE, TRUE)
      /\ s[2] = Byte(rs, cmd \div 16, TRUE, TRUE)
      /\ s[3] = Byte(rs, cmd \div 16, FALSE, TRUE)
  BY Nibbles, FourBits
<1>2. /\ t \in Seq(IoByte) /\ Len(t) = 3
      /\ t[1] = Byte(rs, cmd % 16, FALSE, TRUE)
      /\ t[2] = Byte(rs, cmd % 16, TRUE, TRUE)
      /\ t[3] = Byte(rs, cmd % 16, FALSE, TRUE)
  BY Nibbles, FourBits
<1>3. lcd_write_mode(cmd, rs) = s \o t
  BY DEF lcd_write_mode
<1> HIDE DEF s, t
<1>4. /\ s \o t \in Seq(IoByte) /\ Len(s \o t) = 6
      /\ (s \o t)[1] = s[1] /\ (s \o t)[2] = s[2] /\ (s \o t)[3] = s[3]
      /\ (s \o t)[4] = t[1] /\ (s \o t)[5] = t[2] /\ (s \o t)[6] = t[3]
  <2>1. s \in Seq(IoByte) /\ t \in Seq(IoByte) /\ Len(s) = 3 /\ Len(t) = 3
    BY <1>1, <1>2
  <2>2. QED
    BY <2>1, SixBytes
<1>5. QED
  BY <1>1, <1>2, <1>3, <1>4

(* A call of lcd_write_mode, told from its bytes.                          *)
Rs(w)  == w[1].rs
Cmd(w) == 16 * w[1].nib + w[4].nib

IsWrite(w) ==
  /\ w \in Seq(IoByte) /\ Len(w) = 6
  /\ w[1] = Byte(Rs(w), w[1].nib, FALSE, TRUE)
  /\ w[2] = Byte(Rs(w), w[1].nib, TRUE, TRUE)
  /\ w[3] = Byte(Rs(w), w[1].nib, FALSE, TRUE)
  /\ w[4] = Byte(Rs(w), w[4].nib, FALSE, TRUE)
  /\ w[5] = Byte(Rs(w), w[4].nib, TRUE, TRUE)
  /\ w[6] = Byte(Rs(w), w[4].nib, FALSE, TRUE)

LEMMA WriteIs ==
  ASSUME NEW cmd \in 0 .. 255, NEW rs \in {0, 1}
  PROVE  LET w == lcd_write_mode(cmd, rs) IN
         IsWrite(w) /\ Rs(w) = rs /\ Cmd(w) = cmd
<1> DEFINE w == lcd_write_mode(cmd, rs)
<1>1. /\ w \in Seq(IoByte) /\ Len(w) = 6
      /\ w[1] = Byte(rs, cmd \div 16, FALSE, TRUE)
      /\ w[2] = Byte(rs, cmd \div 16, TRUE, TRUE)
      /\ w[3] = Byte(rs, cmd \div 16, FALSE, TRUE)
      /\ w[4] = Byte(rs, cmd % 16, FALSE, TRUE)
      /\ w[5] = Byte(rs, cmd % 16, TRUE, TRUE)
      /\ w[6] = Byte(rs, cmd % 16, FALSE, TRUE)
  BY WriteBytes
<1> HIDE DEF w
<1>2. Rs(w) = rs /\ w[1].nib = cmd \div 16 /\ w[4].nib = cmd % 16
  BY <1>1 DEF Rs, Byte
<1>3. Cmd(w) = cmd
  BY <1>2, Nibbles, Rejoined DEF Cmd
<1>4. IsWrite(w)
  BY <1>1, <1>2 DEF IsWrite
<1>5. QED
  BY <1>2, <1>3, <1>4 DEF w

-----------------------------------------------------------------------------
(* The instructions.                                                       *)

LEMMA StepInRam ==
  ASSUME NEW a \in Ram, NEW up \in BOOLEAN
  PROVE  Step(a, up) \in Ram
BY DEF Step, Ram

Cleared == [a \in Ram |-> Blank]

LEMMA ClearedRam == 0 \in Ram /\ Cleared \in [Ram -> 0 .. 255]
BY DEF Ram, Blank, Cleared

(* Home.                                                                   *)
LEMMA ExecHome ==
  ASSUME NEW h \in HdRecord, NEW c \in {2, 3}
  PROVE  LET g == Execute(h, 0, c) IN
         /\ g \in HdRecord /\ g.bits = h.bits /\ g.half = h.half
         /\ g.ac = 0 /\ g.cg = FALSE /\ g.on = h.on /\ g.left = h.left
         /\ g.shifted = FALSE /\ g.ram = h.ram
<1>1. Execute(h, 0, c) = [h EXCEPT !.ac = 0, !.cg = FALSE, !.shifted = FALSE]
  BY DEF Execute
<1>2. QED
  BY <1>1, ClearedRam, ZenonT(60) DEF HdRecord

LEMMA ExecClear ==
  ASSUME NEW h \in HdRecord
  PROVE  LET g == Execute(h, 0, 1) IN
         /\ g \in HdRecord /\ g.bits = h.bits /\ g.half = h.half
         /\ g.ac = 0 /\ g.cg = FALSE /\ g.on = h.on /\ g.left = TRUE
         /\ g.shifted = FALSE /\ g.ram = Cleared
<1>1. Execute(h, 0, 1) = [h EXCEPT !.ac = 0, !.cg = FALSE, !.shifted = FALSE,
                                   !.left = TRUE, !.ram = Cleared]
  BY DEF Execute, Cleared
<1>2. QED
  BY <1>1, ClearedRam, ZenonT(60) DEF HdRecord

LEMMA ExecOn ==
  ASSUME NEW h \in HdRecord
  PROVE  LET g == Execute(h, 0, 12) IN
         g \in HdRecord /\ g.bits = h.bits /\ g.half = h.half /\ g.on = TRUE
<1>1. Execute(h, 0, 12) = [h EXCEPT !.on = (12 >= 12)]
  BY DEF Execute
<1>2. (12 >= 12) = TRUE
  OBVIOUS
<1>3. Execute(h, 0, 12) = [h EXCEPT !.on = TRUE]
  BY <1>1, <1>2, Zenon
<1>4. QED
  BY <1>3 DEF HdRecord

LEMMA ExecLeft ==
  ASSUME NEW h \in HdRecord
  PROVE  LET g == Execute(h, 0, 6) IN
         /\ g \in HdRecord /\ g.bits = h.bits /\ g.half = h.half
         /\ g.left = TRUE /\ g.cg = h.cg /\ g.shifted = h.shifted
         /\ g.on = h.on /\ g.ram = h.ram
<1>1. Execute(h, 0, 6) = [h EXCEPT !.left = (6 >= 6)]
  BY DEF Execute
<1>2. (6 >= 6) = TRUE
  OBVIOUS
<1>3. Execute(h, 0, 6) = [h EXCEPT !.left = TRUE]
  BY <1>1, <1>2, Zenon
<1>4. QED
  BY <1>3, ZenonT(60) DEF HdRecord

LEMMA ExecWidth ==
  ASSUME NEW h \in HdRecord, NEW c \in 32 .. 63
  PROVE  LET g == Execute(h, 0, c) IN
         /\ g \in HdRecord /\ g.half = h.half
         /\ g.bits = IF c >= 48 THEN 8 ELSE 4
<1>1. Execute(h, 0, c) = [h EXCEPT !.bits = IF c >= 48 THEN 8 ELSE 4]
  BY DEF Execute
<1>2. QED
  BY <1>1 DEF HdRecord

LEMMA ExecPos ==
  ASSUME NEW h \in HdRecord, NEW c \in 128 .. 255
  PROVE  LET g == Execute(h, 0, c) IN
         /\ g \in HdRecord /\ g.bits = h.bits /\ g.half = h.half
         /\ g.on = h.on /\ g.left = h.left
         /\ g.shifted = h.shifted /\ g.ram = h.ram
         /\ c - 128 \in Ram => g.ac = c - 128 /\ g.cg = FALSE
         /\ c - 128 \notin Ram => g = h
<1>1. Execute(h, 0, c) =
        IF c - 128 \in Ram THEN [h EXCEPT !.ac = c - 128, !.cg = FALSE]
        ELSE h
  BY DEF Execute
<1>2. CASE c - 128 \in Ram
  <2>1. Execute(h, 0, c) = [h EXCEPT !.ac = c - 128, !.cg = FALSE]
    BY <1>1, <1>2
  <2>2. QED
    BY <1>2, <2>1, ZenonT(60) DEF HdRecord
<1>3. CASE c - 128 \notin Ram
  BY <1>1, <1>3
<1>4. QED
  BY <1>2, <1>3

LEMMA ExecData ==
  ASSUME NEW h \in HdRecord, NEW c \in 0 .. 255, h.cg = FALSE
  PROVE  LET g == Execute(h, 1, c) IN
         /\ g \in HdRecord /\ g.bits = h.bits /\ g.half = h.half
         /\ g.ac = Step(h.ac, h.left) /\ g.cg = FALSE /\ g.on = h.on
         /\ g.left = h.left /\ g.shifted = h.shifted
         /\ g.ram = [h.ram EXCEPT ![h.ac] = c]
<1> DEFINE a == Step(h.ac, h.left)
<1>1. Execute(h, 1, c) = [h EXCEPT !.ram[h.ac] = c, !.ac = a]
  BY DEF Execute
<1>2. h.ac \in Ram /\ h.left \in BOOLEAN
  BY DEF HdRecord
<1>3. a \in Ram
  BY <1>2, StepInRam
<1> HIDE DEF a
<1>4. /\ Execute(h, 1, c) \in HdRecord
      /\ Execute(h, 1, c).ram = [h.ram EXCEPT ![h.ac] = c]
  <2> DEFINE m == [h.ram EXCEPT ![h.ac] = c]
  <2>1. m \in [Ram -> 0 .. 255]
    BY <1>2 DEF HdRecord
  <2>2. Execute(h, 1, c) = [h EXCEPT !.ram = m, !.ac = a]
    BY <1>1
  <2> HIDE DEF m
  <2>3. Execute(h, 1, c) \in HdRecord /\ Execute(h, 1, c).ram = m
    BY <1>3, <2>1, <2>2, ZenonT(60) DEF HdRecord
  <2>4. QED
    BY <2>3 DEF m
<1>5. LET g == Execute(h, 1, c) IN
      /\ g.bits = h.bits /\ g.half = h.half /\ g.ac = a /\ g.cg = FALSE
      /\ g.on = h.on /\ g.left = h.left /\ g.shifted = h.shifted
  BY <1>1, <1>3 DEF HdRecord
<1>6. QED
  BY <1>4, <1>5 DEF a

(***************************************************************************)
(* Whatever is executed, a controller remains one; its interface keeps its *)
(* width unless that is what the instruction sets.                         *)
(***************************************************************************)
LEMMA ExecAny ==
  ASSUME NEW h \in HdRecord, NEW rs \in {0, 1}, NEW c \in 0 .. 255
  PROVE  LET g == Execute(h, rs, c) IN
         /\ g \in HdRecord /\ g.half = h.half
         /\ g.bits = h.bits \/ (rs = 0 /\ 32 <= c /\ c <= 63)
<1>0. /\ h.ac \in Ram /\ h.left \in BOOLEAN /\ h.cg \in BOOLEAN
      /\ \A up \in BOOLEAN : Step(h.ac, up) \in Ram
  BY StepInRam DEF HdRecord
<1>1. CASE rs = 1 /\ h.cg
  BY <1>1 DEF Execute
<1>2. CASE rs = 1 /\ ~h.cg
  BY <1>0, <1>2, ExecData
<1>3. CASE rs = 0 /\ c \in 128 .. 255
  BY <1>3, ExecPos
<1>4. CASE rs = 0 /\ c \in 64 .. 127
  <2>1. Execute(h, rs, c) = [h EXCEPT !.cg = TRUE]
    BY <1>4 DEF Execute
  <2>2. QED
    BY <2>1 DEF HdRecord
<1>5. CASE rs = 0 /\ c \in 32 .. 63
  BY <1>5, ExecWidth
<1>6. CASE rs = 0 /\ c \in 24 .. 31
  <2>1. Execute(h, rs, c) = [h EXCEPT !.shifted = TRUE]
    BY <1>6 DEF Execute
  <2>2. QED
    BY <2>1, ZenonT(60) DEF HdRecord
<1>7. CASE rs = 0 /\ c \in 16 .. 23
  <2>1. Execute(h, rs, c) = [h EXCEPT !.ac = Step(h.ac, c >= 20)]
    BY <1>7 DEF Execute
  <2>2. (c >= 20) \in BOOLEAN
    OBVIOUS
  <2>3. Step(h.ac, c >= 20) \in Ram
    BY <1>0, <2>2, Zenon
  <2>4. QED
    BY <1>7, <2>1, <2>3 DEF HdRecord
<1>8. CASE rs = 0 /\ c \in 8 .. 15
  <2>1. Execute(h, rs, c) = [h EXCEPT !.on = (c >= 12)]
    BY <1>8 DEF Execute
  <2>2. (c >= 12) \in BOOLEAN
    OBVIOUS
  <2>3. QED
    BY <1>8, <2>1, <2>2 DEF HdRecord
<1>9. CASE rs = 0 /\ c \in 4 .. 7
  <2>1. Execute(h, rs, c) = [h EXCEPT !.left = (c >= 6)]
    BY <1>9 DEF Execute
  <2>2. (c >= 6) \in BOOLEAN
    OBVIOUS
  <2>3. QED
    BY <1>9, <2>1, <2>2 DEF HdRecord
<1>10. CASE rs = 0 /\ c \in {2, 3}
  BY <1>10, ExecHome
<1>11. CASE rs = 0 /\ c = 1
  BY <1>11, ExecClear
<1>12. CASE rs = 0 /\ c = 0
  <2>1. Execute(h, rs, c) = h
    BY <1>12 DEF Execute
  <2>2. QED
    BY <2>1
<1>13. QED
  BY <1>0, <1>1, <1>2, <1>3, <1>4, <1>5, <1>6, <1>7, <1>8, <1>9, <1>10,
     <1>11, <1>12

-----------------------------------------------------------------------------
(* Latching: what becomes of the interface width and the pending half.     *)

IsNarrow(h, half) == h.bits = 4 /\ h.half = half

Half(h, x) == [h EXCEPT !.half = x]

(* Everything but the pending half.                                        *)
SameBut(g, h) ==
  /\ g.bits = h.bits /\ g.ac = h.ac /\ g.cg = h.cg /\ g.on = h.on
  /\ g.left = h.left /\ g.shifted = h.shifted /\ g.ram = h.ram

LEMMA HalfIs ==
  ASSUME NEW h \in HdRecord, NEW x \in 0 .. NoHalf
  PROVE  /\ Half(h, x) \in HdRecord /\ Half(h, x).half = x
         /\ SameBut(Half(h, x), h)
BY DEF Half, SameBut, HdRecord

LEMMA LatchWide ==
  ASSUME NEW h, IsHd(h), h.bits = 8, NEW rs \in {0, 1}, NEW nib \in 0 .. 15
  PROVE  LET g == Latch(h, rs, nib) IN
         /\ IsHd(g) /\ g.half = NoHalf
         /\ rs = 0 /\ nib \in {0, 3} => g.bits = 8
         /\ rs = 0 /\ nib = 2 => g.bits = 4
<1> DEFINE u == Half(h, NoHalf)
           c == 16 * nib + LowLines
<1>1. u \in HdRecord /\ u.half = NoHalf /\ u.bits = 8
  BY HalfIs DEF IsHd, SameBut
<1>2. c \in 0 .. 255
  BY LcdAssumption
<1>3. Latch(h, rs, nib) = Execute(u, rs, c)
  BY DEF Latch, Half
<1> HIDE DEF u
<1>4. IsHd(Execute(u, rs, c)) /\ Execute(u, rs, c).half = NoHalf
  BY <1>1, <1>2, ExecAny DEF IsHd
<1>5. ASSUME rs = 0, nib = 0 PROVE Execute(u, rs, c).bits = 8
  <2>1. ~(32 <= c)
    BY <1>5, LcdAssumption
  <2> HIDE DEF c
  <2>2. Execute(u, rs, c).bits = u.bits
    BY <1>1, <1>2, <2>1, ExecAny
  <2>3. QED
    BY <1>1, <2>2
<1>6. ASSUME rs = 0, nib = 3 PROVE Execute(u, rs, c).bits = 8
  <2>1. c \in 48 .. 63
    BY <1>6, LcdAssumption
  <2>2. QED
    BY <1>1, <1>6, <2>1, ExecWidth
<1>7. ASSUME rs = 0, nib = 2 PROVE Execute(u, rs, c).bits = 4
  <2>1. c \in 32 .. 47
    BY <1>7, LcdAssumption
  <2>2. QED
    BY <1>1, <1>7, <2>1, ExecWidth
<1>8. QED
  BY <1>3, <1>4, <1>5, <1>6, <1>7

LEMMA LatchFirst ==
  ASSUME NEW h, IsHd(h), IsNarrow(h, NoHalf),
         NEW rs \in {0, 1}, NEW nib \in 0 .. 15
  PROVE  LET g == Latch(h, rs, nib) IN
         IsHd(g) /\ g.half = nib /\ SameBut(g, h)
<1>1. Latch(h, rs, nib) = Half(h, nib)
  BY DEF Latch, IsNarrow, Half
<1>2. nib \in 0 .. NoHalf
  OBVIOUS
<1>3. QED
  BY <1>1, <1>2, HalfIs DEF IsHd, IsNarrow, SameBut

LEMMA LatchSecond ==
  ASSUME NEW h, IsHd(h), NEW rs \in {0, 1}, NEW nib \in 0 .. 15,
         NEW half \in 0 .. 15, IsNarrow(h, half)
  PROVE  /\ Latch(h, rs, nib) = Execute(Half(h, NoHalf), rs, 16 * half + nib)
         /\ Half(h, NoHalf) \in HdRecord /\ Half(h, NoHalf).half = NoHalf
         /\ SameBut(Half(h, NoHalf), h)
         /\ IsHd(Latch(h, rs, nib)) /\ Latch(h, rs, nib).half = NoHalf
<1> DEFINE u == Half(h, NoHalf)
<1>1. Latch(h, rs, nib) = Execute(u, rs, 16 * half + nib)
  BY DEF Latch, IsNarrow, Half
<1>2. u \in HdRecord /\ u.half = NoHalf /\ SameBut(u, h)
  BY HalfIs DEF IsHd
<1> HIDE DEF u
<1>3. 16 * half + nib \in 0 .. 255
  OBVIOUS
<1>4. /\ Execute(u, rs, 16 * half + nib) \in HdRecord
      /\ Execute(u, rs, 16 * half + nib).half = NoHalf
  BY <1>2, <1>3, ExecAny
<1>5. QED
  BY <1>1, <1>2, <1>4 DEF IsHd, u

LEMMA LatchType ==
  ASSUME NEW h, IsHd(h), NEW rs \in {0, 1}, NEW nib \in 0 .. 15
  PROVE  IsHd(Latch(h, rs, nib))
<1>1. h.bits \in {4, 8} /\ h.half \in 0 .. 16
  BY DEF IsHd, HdRecord
<1>2. CASE h.bits = 8
  BY <1>2, LatchWide
<1>3. CASE h.bits = 4 /\ h.half = NoHalf
  BY <1>3, LatchFirst DEF IsNarrow
<1>4. CASE h.bits = 4 /\ h.half \in 0 .. 15
  BY <1>4, LatchSecond DEF IsNarrow
<1>5. QED
  BY <1>1, <1>2, <1>3, <1>4

-----------------------------------------------------------------------------
(* What the HAL functions queue.                                           *)

IsLight(w) ==
  /\ w \in Seq(IoByte) /\ Len(w) = 1
  /\ \E bl \in BOOLEAN : w[1] = Byte(0, 0, FALSE, bl)

(* The commands of lcd_setup, in order.                                    *)
Codes == <<3, 3, 3, 2, 40, 12, 1, 6>>

LEMMA SetupQueue ==
  /\ lcd_setup \in Seq(Seq(IoByte)) /\ Len(lcd_setup) = 8
  /\ \A i \in 1 .. 8 : /\ IsWrite(lcd_setup[i]) /\ Rs(lcd_setup[i]) = 0
                       /\ Cmd(lcd_setup[i]) = Codes[i]
<1> DEFINE Wr(c) == IsWrite(lcd_write(c)) /\ Rs(lcd_write(c)) = 0
                    /\ Cmd(lcd_write(c)) = c
<1>1. Wr(3) /\ Wr(2) /\ Wr(40) /\ Wr(12) /\ Wr(1) /\ Wr(6)
  BY WriteIs, SMTT(30) DEF lcd_write
<1>2. \A c : Wr(c) => lcd_write(c) \in Seq(IoByte)
  BY DEF IsWrite
<1>3. \A i \in 1 .. 8 : lcd_setup[i] = lcd_write(Codes[i])
  BY DEF lcd_setup, Codes
<1>4. \A i \in 1 .. 8 : Wr(Codes[i])
  BY <1>1 DEF Codes
<1>5. lcd_setup \in Seq(Seq(IoByte)) /\ Len(lcd_setup) = 8
  BY <1>1, <1>2 DEF lcd_setup
<1>6. QED
  BY <1>3, <1>4, <1>5

LEMMA ClearQueue ==
  /\ lcd_clear \in Seq(Seq(IoByte)) /\ Len(lcd_clear) = 2
  /\ \A i \in 1 .. 2 : /\ IsWrite(lcd_clear[i]) /\ Rs(lcd_clear[i]) = 0
                       /\ Cmd(lcd_clear[i]) = i
<1> DEFINE Wr(c) == IsWrite(lcd_write(c)) /\ Rs(lcd_write(c)) = 0
                    /\ Cmd(lcd_write(c)) = c
<1>1. Wr(1) /\ Wr(2)
  BY WriteIs, SMTT(30) DEF lcd_write
<1>2. \A c : Wr(c) => lcd_write(c) \in Seq(IoByte)
  BY DEF IsWrite
<1>3. QED
  BY <1>1, <1>2 DEF lcd_clear

LEMMA LightQueue ==
  ASSUME NEW state \in BOOLEAN
  PROVE  LET q == lcd_backlight(state) IN
         /\ q \in Seq(Seq(IoByte)) /\ Len(q) = 1
         /\ IsLight(q[1]) /\ q[1][1].bl = state
<1> DEFINE b == Byte(0, 0, FALSE, state)
           w == <<b>>
<1>1. b \in IoByte /\ b.bl = state
  BY DEF Byte, IoByte
<1>2. lcd_backlight(state) = <<w>>
  BY DEF lcd_backlight
<1>3. b = Byte(0, 0, FALSE, state)
  OBVIOUS
<1> HIDE DEF b
<1>4. w \in Seq(IoByte) /\ Len(w) = 1 /\ w[1] = b
  BY <1>1
<1> HIDE DEF w
<1>5. IsLight(w)
  BY <1>3, <1>4 DEF IsLight
<1>6. <<w>> \in Seq(Seq(IoByte)) /\ Len(<<w>>) = 1 /\ <<w>>[1] = w
  BY <1>4
<1>7. QED
  BY <1>1, <1>2, <1>4, <1>5, <1>6

LEMMA PosByte ==
  ASSUME NEW line \in Int, NEW pos \in Int
  PROVE  PosCommand(line % 256, pos % 256) \in 0 .. 255
BY DEF PosCommand, LineOffset

(* A position command, then a data write for each character.               *)
TextQueue(q, string, c) ==
  /\ q \in Seq(Seq(IoByte)) /\ Len(q) = Len(string) + 1
  /\ IsWrite(q[1]) /\ Rs(q[1]) = 0 /\ Cmd(q[1]) = c
  /\ \A i \in 2 .. Len(q) :
       IsWrite(q[i]) /\ Rs(q[i]) = 1 /\ Cmd(q[i]) = string[i - 1]

LEMMA TextQueued ==
  ASSUME NEW string \in Seq(0 .. 255), NEW line, NEW pos,
         PosCommand(line, pos) \in 0 .. 255
  PROVE  TextQueue(lcd_display_string_pos(string, line, pos), string,
                   PosCommand(line, pos))
<1> DEFINE n == Len(string)
           s == [i \in 1 .. n |-> lcd_write_mode(string[i], 1)]
           p == lcd_write(PosCommand(line, pos))
           q == lcd_display_string_pos(string, line, pos)
<1>1. n \in Nat /\ \A i \in 1 .. n : string[i] \in 0 .. 255
  BY ElementOfSeq
<1>2. \A i \in 1 .. n : /\ IsWrite(s[i]) /\ Rs(s[i]) = 1
                        /\ Cmd(s[i]) = string[i]
  BY <1>1, WriteIs
<1>3. IsWrite(p) /\ Rs(p) = 0 /\ Cmd(p) = PosCommand(line, pos)
  BY WriteIs DEF lcd_write
<1>4. q = <<p>> \o s
  BY DEF lcd_display_string_pos
<1>5. DOMAIN s = 1 .. n
  OBVIOUS
<1>6. s \in [1 .. n -> Seq(IoByte)]
  <2>1. \A i \in 1 .. n : s[i] \in Seq(IoByte)
    BY <1>2 DEF IsWrite
  <2>2. QED
    BY <1>5, <2>1
<1> HIDE DEF s, p, q, n
<1>7. s \in Seq(Seq(IoByte)) /\ Len(s) = n
  BY <1>1, <1>6
<1>8. <<p>> \in Seq(Seq(IoByte)) /\ Len(<<p>>) = 1 /\ <<p>>[1] = p
  BY <1>3 DEF IsWrite
<1>9. /\ q \in Seq(Seq(IoByte)) /\ Len(q) = 1 + n
      /\ \A i \in 1 .. 1 + n : q[i] = IF i <= 1 THEN <<p>>[i] ELSE s[i - 1]
  BY <1>4, <1>7, <1>8, ConcatProperties
<1>10. q[1] = p /\ \A i \in 2 .. Len(q) : q[i] = s[i - 1] /\ i - 1 \in 1 .. n
  BY <1>1, <1>8, <1>9
<1>11. \A i \in 2 .. Len(q) : /\ IsWrite(q[i]) /\ Rs(q[i]) = 1
                               /\ Cmd(q[i]) = string[i - 1]
  BY <1>2, <1>10
<1>12. Len(q) = Len(string) + 1
  BY <1>1, <1>9 DEF n
<1>13. QED
  BY <1>3, <1>9, <1>10, <1>11, <1>12 DEF TextQueue, q

-----------------------------------------------------------------------------
(* The steps: what mmlcdctl asks for, and the next byte.                   *)

Prints(text, line, pos) ==
  text \in Texts /\ liblcd_display_string_pos(text, line, pos)

Clears == hal_lcd_clear /\ want' = Empty /\ UNCHANGED lit

Lights(state) ==
  state \in BOOLEAN /\ hal_lcd_backlight(state) /\ lit' = state
  /\ UNCHANGED want

(* What the user may have typed, and 0 if it is left out.                  *)
Typed == Numbers \cup {0}

LEMMA NextCases ==
  ASSUME [Next]_lcdVars
  PROVE  \/ UNCHANGED lcdVars
         \/ \E text \in Texts, line, pos \in Typed : Prints(text, line, pos)
         \/ Clears
         \/ \E state \in BOOLEAN : Lights(state)
         \/ hal_init
         \/ hal_deinit
         \/ i2cWriteByteDelayed
         \/ Kill
<1>1. CASE main
  <2>1. PICK argc \in 1 .. 5, word \in Words : cli_parse(argc, word)
    BY <1>1 DEF main
  <2>2. CASE Rejects
    BY <2>2 DEF Rejects
  <2>3. CASE cli_handle_cmd_print(argc) /\ ~Rejects
    <3>1. PICK text \in Texts, n1, n2 \in Numbers :
            liblcd_display_string_pos(text, IF argc >= 4 THEN n1 ELSE 0,
                                      IF argc >= 5 THEN n2 ELSE 0)
      BY <2>3 DEF cli_handle_cmd_print
    <3>2. /\ (IF argc >= 4 THEN n1 ELSE 0) \in Typed
          /\ (IF argc >= 5 THEN n2 ELSE 0) \in Typed
      BY DEF Typed
    <3>3. QED
      BY <3>1, <3>2 DEF Prints
  <2>4. CASE cli_handle_cmd_clear
    BY <2>4 DEF cli_handle_cmd_clear, Clears
  <2>5. CASE cli_handle_cmd_backlight(argc) /\ ~Rejects
    <3>1. PICK switch \in Switches :
            /\ hal_lcd_backlight(switch \in {"on", "1"})
            /\ lit' = (switch \in {"on", "1"})
            /\ UNCHANGED want
      BY <2>5 DEF cli_handle_cmd_backlight
    <3>2. (switch \in {"on", "1"}) \in BOOLEAN
      OBVIOUS
    <3>3. Lights(switch \in {"on", "1"})
      BY <3>1, <3>2, Zenon DEF Lights
    <3>4. QED
      BY <3>2, <3>3, Zenon
  <2>6. CASE cli_handle_get_button_state(argc) /\ ~Rejects
    BY <2>6 DEF cli_handle_get_button_state
  <2>7. QED
    BY <2>1, <2>2, <2>3, <2>4, <2>5, <2>6 DEF cli_parse
<1>2. QED
  BY <1>1 DEF Next, Device

Sends ==
  /\ bus' = queue[1][at]
  /\ \/ ~(bus.en /\ ~bus'.en) /\ hd' = hd
     \/ bus.en /\ ~bus'.en /\ hd' = Latch(hd, bus.rs, bus.nib)
     \/ bus.en /\ ~bus'.en /\ hd' = Latch(hd, bus'.rs, bus'.nib)
  /\ lost' = lost /\ garbled' = garbled

Loses ==
  /\ lost < MaxLost /\ lost' = lost + 1 /\ garbled' = TRUE
  /\ bus' = bus /\ hd' = hd

Stays ==
  /\ at < Len(queue[1])
  /\ at' = at + 1 /\ queue' = queue /\ daemon' = daemon

Drops ==
  /\ at = Len(queue[1]) /\ at' = 1
  /\ queue' \in Seq(Seq(IoByte)) /\ Len(queue') = Len(queue) - 1
  /\ \A i \in 1 .. Len(queue') : queue'[i] = queue[i + 1]
  /\ queue' = <<>> <=> Len(queue) = 1
  /\ daemon' = IF Len(queue) > 1 THEN daemon
               ELSE IF daemon = "stop" THEN "off" ELSE "idle"

(* The queue is empty between two calls, and at is within its first write. *)
QueueInv ==
  /\ daemon \in {"off", "setup", "idle", "call", "stop"}
  /\ queue \in Seq(Seq(IoByte)) /\ at \in 1 .. 6
  /\ (queue = <<>>) <=> daemon \in {"off", "idle"}
  /\ queue = <<>> => at = 1
  /\ queue # <<>> => at <= Len(queue[1])
  /\ \A i \in 1 .. Len(queue) : IsWrite(queue[i]) \/ IsLight(queue[i])

LEMMA ByteStep ==
  ASSUME QueueInv, i2cWriteByteDelayed
  PROVE  /\ Len(queue) \in Nat /\ Len(queue) >= 1
         /\ queue[1] \in Seq(IoByte) /\ at \in 1 .. Len(queue[1])
         /\ queue[1][at] \in IoByte
         /\ Sends \/ Loses
         /\ Stays \/ Drops
         /\ want' = want /\ lit' = lit /\ calls' = calls
<1>1. /\ queue \in Seq(Seq(IoByte)) /\ queue # <<>>
      /\ at \in 1 .. 6 /\ at <= Len(queue[1])
  BY DEF QueueInv, i2cWriteByteDelayed
<1>2. /\ Len(queue) \in Nat /\ Len(queue) >= 1
      /\ Head(queue) = queue[1] /\ queue[1] \in Seq(IoByte)
      /\ Tail(queue) \in Seq(Seq(IoByte)) /\ Len(Tail(queue)) = Len(queue) - 1
      /\ \A i \in 1 .. Len(Tail(queue)) : Tail(queue)[i] = queue[i + 1]
  BY <1>1, HeadTailProperties, EmptySeq
<1>3. at \in 1 .. Len(queue[1]) /\ queue[1][at] \in IoByte
  BY <1>1, <1>2, ElementOfSeq
<1>4. Tail(queue) = <<>> <=> Len(queue) = 1
  <2>1. Len(<<>>) = 0
    OBVIOUS
  <2>2. ASSUME Tail(queue) = <<>> PROVE Len(queue) = 1
    <3>1. Len(queue) - 1 = 0
      BY <1>2, <2>1, <2>2, Zenon
    <3>2. Len(queue) \in Nat
      BY <1>2
    <3>3. QED
      BY <3>1, <3>2
  <2>3. ASSUME Len(queue) = 1, Tail(queue) # <<>> PROVE FALSE
    <3>1. Len(Tail(queue)) \in Nat \ {0}
      BY <1>2, <2>3, EmptySeq
    <3>2. QED
      BY <1>2, <2>3, <3>1
  <2>4. QED
    BY <2>2, <2>3
<1>5. Sends \/ Loses
  BY <1>2 DEF i2cWriteByteDelayed, Sends, Loses
<1>6. Stays \/ Drops
  <2>1. CASE /\ at < Len(Head(queue)) /\ at' = at + 1
             /\ UNCHANGED <<queue, daemon>>
    BY <1>2, <2>1 DEF Stays
  <2>2. CASE /\ at = Len(Head(queue)) /\ at' = 1 /\ queue' = Tail(queue)
             /\ daemon' = IF Len(queue) > 1 THEN daemon
                          ELSE IF daemon = "stop" THEN "off" ELSE "idle"
    BY <1>2, <1>4, <2>2 DEF Drops
  <2>3. QED
    BY <2>1, <2>2 DEF i2cWriteByteDelayed
<1>7. QED
  BY <1>2, <1>3, <1>5, <1>6 DEF i2cWriteByteDelayed

(* A text as it was typed fits into its bytes.                             *)
LEMMA TextBytes ==
  ASSUME NEW text \in Texts
  PROVE  /\ Truncated(text) \in Seq(0 .. 255)
         /\ Len(Truncated(text)) =
              IF Len(text) < StrSize - 1 THEN Len(text) ELSE StrSize - 1
         /\ \A i \in 1 .. Len(Truncated(text)) : Truncated(text)[i] = text[i]
<1> DEFINE n == IF Len(text) < StrSize - 1 THEN Len(text) ELSE StrSize - 1
<1>1. Truncated(text) = SubSeq(text, 1, n)
  BY DEF Truncated, FirstChars
<1>2. text \in Seq(1 .. 255) /\ Len(text) \in Nat
  BY CtlAssumption
<1>3. n \in Nat /\ n <= Len(text) /\ StrSize - 1 \in Nat
  BY <1>2, LcdAssumption
<1>4. \A i \in 1 .. n : text[i] \in 0 .. 255
  <2> SUFFICES ASSUME NEW i \in 1 .. n PROVE text[i] \in 0 .. 255
    OBVIOUS
  <2>1. i \in 1 .. Len(text)
    BY <1>2, <1>3
  <2>2. text[i] \in 1 .. 255
    BY <1>2, <2>1, ElementOfSeq
  <2>3. QED
    BY <2>2
<1> HIDE DEF n
<1>5. /\ SubSeq(text, 1, n) \in Seq(0 .. 255)
      /\ Len(SubSeq(text, 1, n)) = n
      /\ \A i \in 1 .. n : SubSeq(text, 1, n)[i] = text[i]
  BY <1>3, <1>4, SubSeqProperties
<1>6. QED
  BY <1>1, <1>5 DEF n

LEMMA PrintStep ==
  ASSUME NEW text \in Texts, NEW line \in Typed, NEW pos \in Typed,
         Prints(text, line, pos)
  PROVE  /\ daemon = "idle" /\ daemon' = "call" /\ at' = at
         /\ TextQueue(queue', Truncated(text),
                      PosCommand(line % 256, pos % 256))
         /\ PosCommand(line % 256, pos % 256) \in 0 .. 255
         /\ want' = Shown(text, line, pos) /\ lit' = lit
         /\ hd' = hd /\ bus' = bus /\ garbled' = garbled /\ lost' = lost
         /\ calls < MaxCalls /\ calls' = calls + 1
<1>1. line \in Int /\ pos \in Int
  BY CtlAssumption DEF Typed
<1>2. PosCommand(line % 256, pos % 256) \in 0 .. 255
  BY <1>1, PosByte
<1>3. TextQueue(lcd_display_string_pos(Truncated(text), line % 256, pos % 256),
                Truncated(text), PosCommand(line % 256, pos % 256))
  BY <1>2, TextBytes, TextQueued
<1>4. QED
  BY <1>2, <1>3 DEF Prints, liblcd_display_string_pos,
                    hal_lcd_display_string_pos, Call

-----------------------------------------------------------------------------
(* Types.                                                                  *)

Flags ==
  lit \in BOOLEAN /\ garbled \in BOOLEAN
  /\ calls \in 0 .. MaxCalls /\ lost \in 0 .. MaxLost

WantType == want \in [Rows \X Columns -> 0 .. 255]

HdType == IsHd(hd) /\ bus \in IoByte

USE DEF hal_lcd_clear, hal_lcd_backlight, Call

LEMMA FlagsStep ==
  ASSUME Flags, QueueInv, [Next]_lcdVars
  PROVE  Flags'
<1>0. MaxCalls \in Nat /\ MaxLost \in Nat
  BY LcdAssumption
<1>1. CASE UNCHANGED lcdVars
  BY <1>1 DEF lcdVars, Flags
<1>2. CASE \E text \in Texts, line, pos \in Typed : Prints(text, line, pos)
  BY <1>0, <1>2, PrintStep DEF Flags
<1>3. CASE Clears \/ \E state \in BOOLEAN : Lights(state)
  BY <1>0, <1>3 DEF Clears, Lights, Flags
<1>4. CASE hal_init
  <2>1. lit' = TRUE /\ garbled' = FALSE /\ calls' = calls + 1 /\ lost' = lost
        /\ calls < MaxCalls
    BY <1>4 DEF hal_init
  <2>2. lit' \in BOOLEAN /\ garbled' \in BOOLEAN
    BY <2>1, Zenon
  <2>3. QED
    BY <1>0, <2>1, <2>2 DEF Flags
<1>5. CASE hal_deinit
  <2>1. lit' = FALSE /\ UNCHANGED <<garbled, calls, lost>>
    BY <1>5 DEF hal_deinit
  <2>2. lit' \in BOOLEAN
    BY <2>1, Zenon
  <2>3. QED
    BY <2>1, <2>2 DEF Flags
<1>6. CASE Kill
  BY <1>6 DEF Kill, Flags
<1>7. CASE i2cWriteByteDelayed
  <2>1. lit' = lit /\ calls' = calls /\ (Sends \/ Loses)
    BY <1>7, ByteStep
  <2>2. garbled' \in {garbled, TRUE}
    BY <2>1 DEF Sends, Loses
  <2>3. garbled' \in BOOLEAN
    BY <2>2, Zenon DEF Flags
  <2>4. lost' \in 0 .. MaxLost
    BY <1>0, <2>1 DEF Sends, Loses, Flags
  <2>5. QED
    BY <2>1, <2>3, <2>4 DEF Flags
<1>8. QED
  BY <1>1, <1>2, <1>3, <1>4, <1>5, <1>6, <1>7, NextCases

LEMMA EmptyType == Empty \in [Rows \X Columns -> 0 .. 255]
BY DEF Empty, Blank

LEMMA WantStep ==
  ASSUME WantType, QueueInv, [Next]_lcdVars
  PROVE  WantType'
<1>1. CASE UNCHANGED want
  BY <1>1 DEF WantType
<1>2. CASE \E text \in Texts, line, pos \in Typed : Prints(text, line, pos)
  <2>1. PICK text \in Texts, line \in Typed, pos \in Typed :
          Prints(text, line, pos)
    BY <1>2
  <2>2. want' = Shown(text, line, pos) /\ pos \in Int
    BY <2>1, PrintStep, CtlAssumption DEF Typed
  <2>3. text \in Seq(1 .. 255) /\ Len(text) \in Nat
    BY CtlAssumption
  <2>4. ASSUME NEW cell \in Rows \X Columns
        PROVE  Shown(text, line, pos)[cell] \in 0 .. 255
    <3>1. cell[2] \in Int
      BY LcdAssumption DEF Columns
    <3>2. CASE cell[1] = Row(line) /\ cell[2] \in pos .. pos + Len(text) - 1
      <4>1. cell[2] - pos + 1 \in 1 .. Len(text)
        BY <2>2, <2>3, <3>1, <3>2
      <4>2. text[cell[2] - pos + 1] \in 1 .. 255
        BY <2>3, <4>1, ElementOfSeq
      <4>3. Shown(text, line, pos)[cell] = text[cell[2] - pos + 1]
        BY <3>2 DEF Shown
      <4>4. QED
        BY <4>2, <4>3
    <3>3. CASE ~(cell[1] = Row(line) /\ cell[2] \in pos .. pos + Len(text) - 1)
      <4>1. Shown(text, line, pos)[cell] = want[cell]
        BY <3>3 DEF Shown
      <4>2. QED
        BY <4>1 DEF WantType
    <3>4. QED
      BY <3>2, <3>3
  <2>5. Shown(text, line, pos) \in [Rows \X Columns -> 0 .. 255]
    BY <2>4 DEF Shown
  <2>6. QED
    BY <2>2, <2>5 DEF WantType
<1>3. CASE want' = Empty
  BY <1>3, EmptyType DEF WantType
<1>4. QED
  BY <1>1, <1>2, <1>3, NextCases, ByteStep
  DEF lcdVars, Clears, Lights, hal_init, hal_deinit, Kill

LEMMA CallLen ==
  ASSUME NEW w, IsWrite(w) \/ IsLight(w)
  PROVE  Len(w) \in {1, 6} /\ Len(w) \in Nat /\ 1 <= Len(w) /\ Len(w) <= 6
<1>1. Len(w) = 1 \/ Len(w) = 6
  BY DEF IsWrite, IsLight
<1>2. \A n : n = 1 \/ n = 6 => n \in {1, 6} /\ n \in Nat /\ 1 <= n /\ n <= 6
  OBVIOUS
<1>3. QED
  BY <1>1, <1>2, Zenon

LEMMA QueueStep ==
  ASSUME QueueInv, [Next]_lcdVars
  PROVE  QueueInv'
<1>0. ASSUME queue' # <<>>, at = 1, at' = at,
             queue' \in Seq(Seq(IoByte)),
             daemon' \in {"setup", "call", "stop"},
             \A i \in 1 .. Len(queue') :
               IsWrite(queue'[i]) \/ IsLight(queue'[i])
      PROVE  QueueInv'
  <2>1. Len(queue') \in Nat \ {0}
    BY <1>0, EmptySeq
  <2>2. 1 \in 1 .. Len(queue')
    BY <2>1
  <2>3. 1 <= Len(queue'[1])
    BY <1>0, <2>2, CallLen
  <2>4. at' = 1 /\ at' <= Len(queue'[1])
    BY <1>0, <2>3
  <2>5. QED
    BY <1>0, <2>4 DEF QueueInv
<1>00. Len(<<>>) = 0
  OBVIOUS
<1>1. CASE UNCHANGED lcdVars
  BY <1>1 DEF lcdVars, QueueInv
<1>2. CASE \E text \in Texts, line, pos \in Typed : Prints(text, line, pos)
  <2>1. PICK text \in Texts, line \in Typed, pos \in Typed :
          Prints(text, line, pos)
    BY <1>2
  <2>2. /\ daemon = "idle" /\ daemon' = "call" /\ at' = at
        /\ TextQueue(queue', Truncated(text),
                     PosCommand(line % 256, pos % 256))
    BY <2>1, PrintStep
  <2>3. queue' # <<>> /\ at = 1
    BY <1>00, <2>2, TextBytes DEF TextQueue, QueueInv
  <2>4. \A i \in 1 .. Len(queue') : IsWrite(queue'[i])
    <3>1. \A i \in 1 .. Len(queue') : i = 1 \/ i \in 2 .. Len(queue')
      BY <2>2 DEF TextQueue
    <3>2. QED
      BY <2>2, <3>1 DEF TextQueue
  <2>5. QED
    BY <1>0, <2>2, <2>3, <2>4 DEF TextQueue
<1>3. CASE Clears
  <2>1. daemon = "idle" /\ daemon' = "call" /\ queue' = lcd_clear /\ at' = at
    BY <1>3 DEF Clears
  <2>2. at = 1 /\ queue' # <<>>
    BY <1>00, <2>1, ClearQueue DEF QueueInv
  <2>3. QED
    BY <1>0, <2>1, <2>2, ClearQueue
<1>4. CASE hal_deinit \/ \E state \in BOOLEAN : Lights(state)
  <2>1. PICK state \in BOOLEAN : queue' = lcd_backlight(state)
    BY <1>4 DEF hal_deinit, Lights
  <2>2. daemon = "idle" /\ daemon' \in {"call", "stop"} /\ at' = at
    BY <1>4 DEF hal_deinit, Lights
  <2>3. at = 1 /\ queue' # <<>>
    BY <1>00, <2>1, <2>2, LightQueue DEF QueueInv
  <2>4. QED
    BY <1>0, <2>1, <2>2, <2>3, LightQueue
<1>5. CASE hal_init
  <2>1. daemon = "off" /\ daemon' = "setup" /\ queue' = lcd_setup /\ at' = at
    BY <1>5 DEF hal_init
  <2>2. at = 1
    BY <2>1 DEF QueueInv
  <2>3. queue' # <<>>
    <3>1. Len(queue') = 8
      BY <2>1, SetupQueue
    <3>2. QED
      BY <1>00, <3>1
  <2>4. QED
    BY <1>0, <2>1, <2>2, <2>3, SetupQueue
<1>6. CASE Kill
  BY <1>6, EmptySeq DEF Kill, QueueInv
<1>7. CASE i2cWriteByteDelayed /\ Stays
  <2>1. 1 \in 1 .. Len(queue) /\ queue # <<>>
    BY <1>00, <1>7, ByteStep
  <2>2. Len(queue[1]) \in Nat /\ Len(queue[1]) <= 6
    BY <2>1, CallLen DEF QueueInv
  <2>3. at' \in 1 .. 6 /\ at' <= Len(queue[1])
    BY <1>7, <2>2, ByteStep DEF Stays
  <2>4. QED
    BY <1>7, <2>1, <2>3 DEF Stays, QueueInv
<1>8. CASE i2cWriteByteDelayed /\ Drops
  <2>1. /\ Len(queue) \in Nat /\ Len(queue) >= 1 /\ queue # <<>>
        /\ daemon \notin {"off", "idle"}
    BY <1>00, <1>8, ByteStep DEF QueueInv
  <2>2. \A i \in 1 .. Len(queue') : i + 1 \in 1 .. Len(queue)
    BY <1>8, <2>1 DEF Drops
  <2>3. \A i \in 1 .. Len(queue') : IsWrite(queue'[i]) \/ IsLight(queue'[i])
    BY <1>8, <2>2 DEF Drops, QueueInv
  <2>4. queue' # <<>> => 1 <= Len(queue'[1])
    <3>1. queue' # <<>> => 1 \in 1 .. Len(queue')
      BY <1>8, <2>1 DEF Drops
    <3>2. QED
      BY <2>3, <3>1, CallLen
  <2>5. daemon' \in {"off", "setup", "idle", "call", "stop"}
    BY <1>8 DEF Drops, QueueInv
  <2>6. (queue' = <<>>) <=> daemon' \in {"off", "idle"}
    BY <1>8, <2>1 DEF Drops
  <2>7. QED
    BY <1>8, <2>3, <2>4, <2>5, <2>6 DEF Drops, QueueInv
<1>9. QED
  BY <1>1, <1>2, <1>3, <1>4, <1>5, <1>6, <1>7, <1>8, NextCases, ByteStep

LEMMA HdStep ==
  ASSUME HdType, QueueInv, [Next]_lcdVars
  PROVE  HdType'
<1>1. CASE UNCHANGED <<hd, bus>>
  BY <1>1 DEF HdType
<1>2. CASE i2cWriteByteDelayed /\ Sends
  <2>1. bus' \in IoByte
    BY <1>2, ByteStep DEF Sends
  <2>2. \A b \in {bus, bus'} : b.rs \in {0, 1} /\ b.nib \in 0 .. 15
    BY <2>1 DEF HdType, IoByte
  <2>3. \A b \in {bus, bus'} : IsHd(Latch(hd, b.rs, b.nib))
    BY <2>2, LatchType DEF HdType
  <2>4. IsHd(hd')
    BY <1>2, <2>3 DEF Sends, HdType
  <2>5. QED
    BY <2>1, <2>4 DEF HdType
<1>3. QED
  BY <1>1, <1>2, NextCases, ByteStep, PrintStep
  DEF lcdVars, Clears, Lights, hal_init, hal_deinit, Kill, Loses

TypeInv == Flags /\ WantType /\ QueueInv /\ HdType

LEMMA TypeInit == LcdInit => TypeInv
<1> SUFFICES ASSUME LcdInit PROVE TypeInv
  OBVIOUS
<1>1. Flags
  <2>1. lit \in BOOLEAN /\ garbled \in BOOLEAN
    BY Zenon DEF LcdInit
  <2>2. QED
    BY <2>1, LcdAssumption DEF LcdInit, Flags
<1>2. WantType
  BY EmptyType DEF LcdInit, WantType
<1>3. QueueInv
  <2>1. Len(<<>>) = 0 /\ <<>> \in Seq(Seq(IoByte))
    BY EmptySeq
  <2>2. QED
    BY <2>1 DEF LcdInit, QueueInv
<1>4. bus \in IoByte
  BY DEF LcdInit, Byte, IoByte
<1>5. PowerOn \in HdRecord /\ PowerOn.bits = 8 /\ PowerOn.half = NoHalf
  <2>1. Cleared \in [Ram -> 0 .. 255] /\ 0 \in Ram
    BY ClearedRam
  <2>2. PowerOn = [bits |-> 8, half |-> NoHalf, ac |-> 0, cg |-> FALSE,
                   on |-> FALSE, left |-> TRUE, shifted |-> FALSE,
                   ram |-> Cleared]
    BY DEF PowerOn, Cleared
  <2>3. QED
    BY <2>1, <2>2 DEF HdRecord
<1>6. QED
  BY <1>1, <1>2, <1>3, <1>4, <1>5 DEF LcdInit, TypeInv, HdType, IsHd

LEMMA TypeStep ==
  ASSUME TypeInv, [Next]_lcdVars
  PROVE  TypeInv'
BY FlagsStep, WantStep, QueueStep, HdStep DEF TypeInv

LEMMA TypeInvHolds == Spec => []TypeInv
BY TypeInit, TypeStep, PTL DEF Spec

(***************************************************************************)
(* lcd.c: every byte and every command fits its eight bits and every       *)
(* nibble its four, whatever is typed for text, line and column, and the   *)
(* controller stays one whatever it is sent and whenever the daemon dies.  *)
(***************************************************************************)
THEOREM LcdTypes == Spec => []LcdTypeOK
<1>1. TypeInv => LcdTypeOK
  BY DEF TypeInv, Flags, WantType, QueueInv, HdType, IsHd, HdRecord, IoByte,
         LcdTypeOK
<1>2. QED
  BY <1>1, TypeInvHolds, PTL

-----------------------------------------------------------------------------
(* The backlight.                                                          *)

LightInv ==
  /\ Settled /\ lit => bus.bl
  /\ daemon \in {"setup", "call"} =>
       \A i \in 1 .. Len(queue) :
         IsWrite(queue[i]) \/ (IsLight(queue[i]) /\ queue[i][1].bl = lit)

LEMMA LightStep ==
  ASSUME TypeInv, LightInv, [Next]_lcdVars
  PROVE  LightInv'
<1>1. CASE UNCHANGED lcdVars
  BY <1>1 DEF lcdVars, LightInv, Settled
<1>2. CASE \E text \in Texts, line, pos \in Typed : Prints(text, line, pos)
  <2>1. PICK text \in Texts, line \in Typed, pos \in Typed :
          Prints(text, line, pos)
    BY <1>2
  <2>2. /\ daemon' = "call"
        /\ TextQueue(queue', Truncated(text),
                     PosCommand(line % 256, pos % 256))
    BY <2>1, PrintStep
  <2>3. \A i \in 1 .. Len(queue') : i = 1 \/ i \in 2 .. Len(queue')
    BY <2>2 DEF TextQueue
  <2>4. \A i \in 1 .. Len(queue') : IsWrite(queue'[i])
    BY <2>2, <2>3 DEF TextQueue
  <2>5. QED
    BY <2>2, <2>4 DEF LightInv, Settled
<1>3. CASE Clears
  <2>1. daemon' = "call" /\ queue' = lcd_clear
    BY <1>3 DEF Clears
  <2>2. \A i \in 1 .. Len(queue') : IsWrite(queue'[i])
    BY <2>1, ClearQueue
  <2>3. QED
    BY <2>1, <2>2 DEF LightInv, Settled
<1>4. CASE \E state \in BOOLEAN : Lights(state)
  <2>1. PICK state \in BOOLEAN : Lights(state)
    BY <1>4
  <2>2. daemon' = "call" /\ queue' = lcd_backlight(state) /\ lit' = state
    BY <2>1 DEF Lights
  <2>3. Len(queue') = 1 /\ IsLight(queue'[1]) /\ queue'[1][1].bl = lit'
    BY <2>2, LightQueue
  <2>4. \A i \in 1 .. Len(queue') :
          IsLight(queue'[i]) /\ queue'[i][1].bl = lit'
    BY <2>3
  <2>5. QED
    BY <2>2, <2>4 DEF LightInv, Settled
<1>5. CASE hal_init
  <2>1. daemon' = "setup" /\ queue' = lcd_setup
    BY <1>5 DEF hal_init
  <2>2. \A i \in 1 .. Len(queue') : IsWrite(queue'[i])
    BY <2>1, SetupQueue
  <2>3. QED
    BY <2>1, <2>2 DEF LightInv, Settled
<1>6. CASE hal_deinit \/ Kill
  BY <1>6 DEF hal_deinit, Kill, LightInv, Settled
<1>7. CASE i2cWriteByteDelayed /\ Stays
  <2>1. daemon # "idle" /\ lit' = lit
    BY <1>7, ByteStep DEF TypeInv, QueueInv, i2cWriteByteDelayed
  <2>2. QED
    BY <1>7, <2>1 DEF Stays, LightInv, Settled
<1>8. CASE i2cWriteByteDelayed /\ Drops
  <2>1. /\ Len(queue) \in Nat /\ Len(queue) >= 1 /\ lit' = lit
        /\ (Sends \/ Loses) /\ daemon # "idle"
    BY <1>8, ByteStep DEF TypeInv, QueueInv, i2cWriteByteDelayed
  <2>2. \A i \in 1 .. Len(queue') : i + 1 \in 1 .. Len(queue)
    BY <1>8, <2>1 DEF Drops
  <2>3. daemon' \in {"setup", "call"} => daemon' = daemon
    BY <1>8 DEF Drops
  <2>4. daemon' \in {"setup", "call"} =>
          \A i \in 1 .. Len(queue') :
            \/ IsWrite(queue'[i])
            \/ IsLight(queue'[i]) /\ queue'[i][1].bl = lit'
    BY <1>8, <2>1, <2>2, <2>3 DEF Drops, LightInv
  <2>5. ASSUME Settled', lit' PROVE bus'.bl
    <3>1. Sends /\ daemon \in {"setup", "call"} /\ 1 \in 1 .. Len(queue)
      BY <1>8, <2>1, <2>5 DEF Settled, Drops, Loses, TypeInv, QueueInv
    <3>2. bus' = queue[1][at] /\ at = Len(queue[1])
      BY <1>8, <3>1 DEF Sends, Drops
    <3>3. IsWrite(queue[1]) \/ (IsLight(queue[1]) /\ queue[1][1].bl = lit)
      BY <3>1 DEF LightInv
    <3>4. CASE IsWrite(queue[1])
      BY <3>2, <3>4 DEF IsWrite, Byte
    <3>5. CASE IsLight(queue[1]) /\ queue[1][1].bl = lit
      <4>1. bus' = queue[1][1]
        BY <3>2, <3>5 DEF IsLight
      <4>2. QED
        BY <2>1, <2>5, <3>5, <4>1
    <3>6. QED
      BY <3>3, <3>4, <3>5
  <2>6. QED
    BY <2>4, <2>5 DEF LightInv
<1>9. QED
  BY <1>1, <1>2, <1>3, <1>4, <1>5, <1>6, <1>7, <1>8, NextCases, ByteStep
  DEF TypeInv

(***************************************************************************)
(* lcd.c:86 and hal_lcd_backlight: between two calls without a lost write  *)
(* the backlight is off only if the last backlight command said so; every  *)
(* other byte has the backlight bit.                                       *)
(***************************************************************************)
THEOREM LitUnlessAsked == Spec => []DarkOnlyIfAsked
<1>1. LcdInit => LightInv
  BY DEF LcdInit, LightInv, Settled
<1>2. Spec => []LightInv
  BY <1>1, TypeInvHolds, LightStep, PTL DEF Spec
<1>3. LightInv => DarkOnlyIfAsked
  BY DEF LightInv, DarkOnlyIfAsked
<1>4. QED
  BY <1>2, <1>3, PTL

-----------------------------------------------------------------------------
(***************************************************************************)
(* The expander holds the byte before the one to be written, except for    *)
(* the first byte of lcd_setup, before which it holds whatever a killed    *)
(* daemon left there.                                                      *)
(***************************************************************************)
FirstByte == daemon = "setup" /\ Len(queue) = 8 /\ at = 1

BusInv ==
  ~garbled =>
    /\ at > 1 => bus = queue[1][at - 1]
    /\ at = 1 /\ daemon # "off" /\ ~FirstByte => bus.en = FALSE

SetupInv ==
  daemon = "setup" =>
    /\ Len(queue) <= 8
    /\ \A i \in 1 .. Len(queue) :
         /\ IsWrite(queue[i]) /\ Rs(queue[i]) = 0
         /\ Cmd(queue[i]) = Codes[8 - Len(queue) + i]

LEMMA SetupStep ==
  ASSUME TypeInv, SetupInv, [Next]_lcdVars
  PROVE  SetupInv'
<1>1. CASE UNCHANGED <<daemon, queue>>
  BY <1>1 DEF SetupInv
<1>2. CASE daemon' # "setup"
  BY <1>2 DEF SetupInv
<1>3. CASE hal_init
  <2>1. queue' = lcd_setup
    BY <1>3 DEF hal_init
  <2>2. Len(queue') = 8
    BY <2>1, SetupQueue
  <2>3. \A i \in 1 .. 8 : 8 - 8 + i = i
    OBVIOUS
  <2>4. \A i \in 1 .. 8 : Codes[8 - 8 + i] = Codes[i]
    BY <2>3
  <2>5. QED
    BY <2>1, <2>2, <2>4, SetupQueue DEF SetupInv
<1>4. CASE i2cWriteByteDelayed /\ Drops /\ daemon' = "setup"
  <2>1. /\ daemon = "setup" /\ Len(queue) \in Nat /\ Len(queue) >= 1
        /\ Len(queue') = Len(queue) - 1
    BY <1>4, ByteStep DEF Drops, TypeInv
  <2>2. \A i \in 1 .. Len(queue') :
          /\ i + 1 \in 1 .. Len(queue) /\ queue'[i] = queue[i + 1]
          /\ 8 - Len(queue') + i = 8 - Len(queue) + (i + 1)
    BY <1>4, <2>1 DEF Drops
  <2>3. \A i \in 1 .. Len(queue') :
          /\ IsWrite(queue'[i]) /\ Rs(queue'[i]) = 0
          /\ Cmd(queue'[i]) = Codes[8 - Len(queue') + i]
    BY <2>1, <2>2 DEF SetupInv
  <2>4. Len(queue') <= 8
    BY <2>1 DEF SetupInv
  <2>5. QED
    BY <2>3, <2>4 DEF SetupInv
<1>5. QED
  BY <1>1, <1>2, <1>3, <1>4, NextCases, PrintStep, ByteStep
  DEF lcdVars, Clears, Lights, hal_deinit, Kill, Stays, TypeInv

LEMMA BusStep ==
  ASSUME TypeInv, BusInv, [Next]_lcdVars
  PROVE  BusInv'
<1>1. CASE UNCHANGED lcdVars
  BY <1>1 DEF lcdVars, BusInv, FirstByte
<1>2. CASE daemon = "idle" /\ daemon' \in {"call", "stop"}
           /\ UNCHANGED <<at, bus, garbled>>
  BY <1>2 DEF BusInv, FirstByte, TypeInv, QueueInv
<1>3. CASE hal_init
  <2>1. at' = 1 /\ daemon' = "setup" /\ queue' = lcd_setup
    BY <1>3 DEF hal_init, TypeInv, QueueInv
  <2>2. Len(queue') = 8
    BY <2>1, SetupQueue
  <2>3. QED
    BY <2>1, <2>2 DEF BusInv, FirstByte
<1>4. CASE Kill
  BY <1>4 DEF Kill, BusInv
<1>5. CASE i2cWriteByteDelayed /\ Stays
  <2>0. QueueInv
    BY DEF TypeInv
  <2>1. at \in Nat /\ at >= 1 /\ (Sends \/ Loses)
    <3>1. at \in 1 .. 6
      BY <2>0 DEF QueueInv
    <3>2. QED
      BY <1>5, <2>0, <3>1, ByteStep
  <2>2. at' > 1 /\ at' - 1 = at /\ queue' = queue
    BY <1>5, <2>1 DEF Stays
  <2>3. ~garbled' => bus' = queue[1][at]
    BY <2>1 DEF Sends, Loses
  <2>4. QED
    BY <2>1, <2>2, <2>3 DEF BusInv
<1>6. CASE i2cWriteByteDelayed /\ Drops
  <2>1. (Sends \/ Loses) /\ 1 \in 1 .. Len(queue)
    BY <1>6, ByteStep DEF TypeInv
  <2>2. ASSUME ~garbled' PROVE bus'.en = FALSE
    <3>1. bus' = queue[1][Len(queue[1])]
      BY <1>6, <2>1, <2>2 DEF Sends, Loses, Drops
    <3>2. IsWrite(queue[1]) \/ IsLight(queue[1])
      BY <2>1 DEF TypeInv, QueueInv
    <3>3. CASE IsWrite(queue[1])
      BY <3>1, <3>3 DEF IsWrite, Byte
    <3>4. CASE IsLight(queue[1])
      BY <3>1, <3>4 DEF IsLight, Byte
    <3>5. QED
      BY <3>2, <3>3, <3>4
  <2>3. ~(at' > 1)
    BY <1>6 DEF Drops
  <2>4. QED
    BY <2>2, <2>3 DEF BusInv
<1>7. QED
  BY <1>1, <1>2, <1>3, <1>4, <1>5, <1>6, NextCases, PrintStep, ByteStep,
     ZenonT(60)
  DEF Clears, Lights, hal_deinit, TypeInv

(* A byte of lcd_write_mode: a nibble is latched at the third and sixth.   *)
LEMMA NibbleStep ==
  ASSUME TypeInv, BusInv, i2cWriteByteDelayed, ~garbled', IsWrite(queue[1])
  PROVE  /\ ~garbled /\ at \in 1 .. 6
         /\ at \in {1, 2, 4, 5} => hd' = hd \/ FirstByte
         /\ at = 3 => hd' = Latch(hd, Rs(queue[1]), queue[1][1].nib)
         /\ at = 6 => hd' = Latch(hd, Rs(queue[1]), queue[1][4].nib)
         /\ at < 6 => Stays
         /\ at = 6 => Drops
<1> DEFINE w == queue[1]
<1>1. Sends /\ ~garbled /\ at \in 1 .. 6 /\ (Stays \/ Drops) /\ daemon # "off"
  <2>1. QueueInv
    BY DEF TypeInv
  <2>2. (Sends \/ Loses) /\ (Stays \/ Drops)
    BY <2>1, ByteStep
  <2>3. Sends /\ ~garbled
    BY <2>2 DEF Sends, Loses
  <2>4. at \in 1 .. 6 /\ daemon # "off"
    BY <2>1 DEF QueueInv, i2cWriteByteDelayed
  <2>5. QED
    BY <2>2, <2>3, <2>4
<1>2. bus' = w[at] /\ Len(w) = 6
  BY <1>1 DEF Sends, IsWrite
<1>3. (at < 6 => Stays) /\ (at = 6 => Drops)
  BY <1>1, <1>2 DEF Stays, Drops
<1>4. /\ w[1].en = FALSE /\ w[2].en = TRUE /\ w[3].en = FALSE
      /\ w[4].en = FALSE /\ w[5].en = TRUE /\ w[6].en = FALSE
      /\ w[2].rs = Rs(w) /\ w[3].rs = Rs(w) /\ w[5].rs = Rs(w)
      /\ w[6].rs = Rs(w) /\ w[2].nib = w[1].nib /\ w[3].nib = w[1].nib
      /\ w[5].nib = w[4].nib /\ w[6].nib = w[4].nib
  BY DEF IsWrite, Byte
<1>5. CASE at = 1
  BY <1>1, <1>3, <1>5 DEF Sends, BusInv
<1>6. CASE at = 2
  BY <1>1, <1>2, <1>3, <1>4, <1>6 DEF Sends
<1>7. CASE at = 3
  <2>1. bus = w[2] /\ bus' = w[3]
    BY <1>1, <1>2, <1>7 DEF BusInv
  <2>2. QED
    BY <1>1, <1>3, <1>4, <1>7, <2>1 DEF Sends
<1>8. CASE at = 4
  <2>1. bus = w[3]
    BY <1>1, <1>8 DEF BusInv
  <2>2. QED
    BY <1>1, <1>3, <1>4, <1>8, <2>1 DEF Sends
<1>9. CASE at = 5
  BY <1>1, <1>2, <1>3, <1>4, <1>9 DEF Sends
<1>10. CASE at = 6
  <2>1. bus = w[5] /\ bus' = w[6]
    BY <1>1, <1>2, <1>10 DEF BusInv
  <2>2. QED
    BY <1>1, <1>3, <1>4, <1>10, <2>1 DEF Sends
<1>11. QED
  BY <1>1, <1>5, <1>6, <1>7, <1>8, <1>9, <1>10

-----------------------------------------------------------------------------
(***************************************************************************)
(* lcd_setup.  The first three writes are 3: their nibbles 0 and 3 leave   *)
(* an 8-bit interface one, and a 4-bit interface, with or without half of  *)
(* a byte pending, where the next 3 finds it.  The 2 after them then makes *)
(* the interface 4 bits wide and leaves nothing pending in every case.     *)
(***************************************************************************)
LEMMA Pending ==
  ASSUME NEW h, IsHd(h), h.bits # 8
  PROVE  h.bits = 4 /\ (h.half = NoHalf \/ h.half \in 0 .. 15)
BY DEF IsHd, HdRecord

LEMMA AnyZero ==
  ASSUME NEW h, IsHd(h)
  PROVE  LET g == Latch(h, 0, 0) IN g.bits = 8 \/ g.half \in {0, NoHalf}
<1>1. CASE h.bits = 8
  BY <1>1, LatchWide
<1>2. CASE h.bits # 8 /\ h.half = NoHalf
  BY <1>2, Pending, LatchFirst DEF IsNarrow
<1>3. CASE h.bits # 8 /\ h.half \in 0 .. 15
  BY <1>3, Pending, LatchSecond DEF IsNarrow
<1>4. QED
  BY <1>1, <1>2, <1>3, Pending

LEMMA LooseZero ==
  ASSUME NEW h, IsHd(h), h.bits = 8 \/ h.half \in {3, NoHalf}
  PROVE  LET g == Latch(h, 0, 0) IN g.bits = 8 \/ g.half = 0
<1>1. CASE h.bits = 8
  BY <1>1, LatchWide
<1>2. CASE h.bits # 8 /\ h.half = NoHalf
  BY <1>2, Pending, LatchFirst DEF IsNarrow
<1>3. CASE h.bits # 8 /\ h.half = 3
  <2> DEFINE u == Half(h, NoHalf)
  <2>1. Latch(h, 0, 0) = Execute(u, 0, 16 * 3 + 0) /\ u \in HdRecord
    BY <1>3, Pending, LatchSecond DEF IsNarrow
  <2>2. 16 * 3 + 0 = 48
    OBVIOUS
  <2> HIDE DEF u
  <2>3. Execute(u, 0, 48).bits = 8
    BY <2>1, ExecWidth
  <2>4. QED
    BY <2>1, <2>2, <2>3
<1>4. QED
  BY <1>1, <1>2, <1>3

LEMMA LooseThree ==
  ASSUME NEW h, IsHd(h), h.bits = 8 \/ h.half \in {0, NoHalf}
  PROVE  LET g == Latch(h, 0, 3) IN
         /\ g.bits = 8 \/ g.half \in {3, NoHalf}
         /\ h.bits = 8 \/ h.half = 0 => g.bits = 8 \/ g.half = NoHalf
<1>1. CASE h.bits = 8
  BY <1>1, LatchWide
<1>2. CASE h.bits # 8 /\ h.half = NoHalf
  BY <1>2, Pending, LatchFirst DEF IsNarrow
<1>3. CASE h.bits # 8 /\ h.half = 0
  BY <1>3, Pending, LatchSecond DEF IsNarrow
<1>4. QED
  BY <1>1, <1>2, <1>3

LEMMA LooseTwo ==
  ASSUME NEW h, IsHd(h), h.bits = 8 \/ h.half = 0
  PROVE  IsNarrow(Latch(h, 0, 2), NoHalf)
<1>1. CASE h.bits = 8
  BY <1>1, LatchWide DEF IsNarrow
<1>2. CASE h.bits # 8
  <2> DEFINE u == Half(h, NoHalf)
  <2>1. /\ Latch(h, 0, 2) = Execute(u, 0, 16 * 0 + 2)
        /\ u \in HdRecord /\ u.half = NoHalf /\ SameBut(u, h)
    BY <1>2, Pending, LatchSecond DEF IsNarrow
  <2>2. 16 * 0 + 2 = 2
    OBVIOUS
  <2> HIDE DEF u
  <2>3. Execute(u, 0, 2).bits = u.bits /\ Execute(u, 0, 2).half = u.half
    BY <2>1, ExecHome
  <2>4. QED
    BY <1>2, <2>1, <2>2, <2>3, Pending DEF IsNarrow, SameBut
<1>3. QED
  BY <1>1, <1>2

(* From there on every write executes its command.                         *)
LEMMA PairLow ==
  ASSUME NEW h, IsHd(h), NEW rs \in {0, 1},
         NEW half \in 0 .. 15, NEW nib \in 0 .. 15, IsNarrow(h, half),
         NEW c, c = 16 * half + nib
  PROVE  \E u \in HdRecord :
           /\ Latch(h, rs, nib) = Execute(u, rs, c)
           /\ u.half = NoHalf /\ SameBut(u, h)
BY LatchSecond

Modes(h) ==
  h.on = TRUE /\ h.left = TRUE /\ h.cg = FALSE /\ h.shifted = FALSE

LEMMA PairSetup ==
  ASSUME NEW h, IsHd(h), NEW half \in 0 .. 15, NEW nib \in 0 .. 15,
         IsNarrow(h, half), NEW c \in {40, 12, 1, 6}, c = 16 * half + nib
  PROVE  LET g == Latch(h, 0, nib) IN
         /\ IsNarrow(g, NoHalf)
         /\ c = 12 => g.on = TRUE
         /\ c = 1 => /\ g.on = h.on /\ g.cg = FALSE /\ g.shifted = FALSE
                     /\ g.ram = Cleared
         /\ c = 6 => /\ g.on = h.on /\ g.left = TRUE /\ g.cg = h.cg
                     /\ g.shifted = h.shifted /\ g.ram = h.ram
<1>1. PICK u \in HdRecord : /\ Latch(h, 0, nib) = Execute(u, 0, c)
                            /\ u.half = NoHalf /\ SameBut(u, h)
  BY PairLow
<1>2. u.bits = 4
  BY <1>1 DEF IsNarrow, SameBut
<1>3. CASE c = 40
  <2>1. Execute(u, 0, 40).half = u.half /\ Execute(u, 0, 40).bits = 4
    BY ExecWidth
  <2>2. QED
    BY <1>1, <1>3, <2>1 DEF IsNarrow
<1>4. CASE c = 12
  <2>1. LET g == Execute(u, 0, 12) IN
        g.bits = u.bits /\ g.half = u.half /\ g.on = TRUE
    BY ExecOn
  <2>2. QED
    BY <1>1, <1>2, <1>4, <2>1 DEF IsNarrow
<1>5. CASE c = 1
  <2>1. LET g == Execute(u, 0, 1) IN
        /\ g.bits = u.bits /\ g.half = u.half /\ g.on = u.on
        /\ g.cg = FALSE /\ g.shifted = FALSE /\ g.ram = Cleared
    BY ExecClear
  <2>2. QED
    BY <1>1, <1>2, <1>5, <2>1 DEF IsNarrow, SameBut
<1>6. CASE c = 6
  <2>1. LET g == Execute(u, 0, 6) IN
        /\ g.bits = u.bits /\ g.half = u.half /\ g.on = u.on
        /\ g.left = TRUE /\ g.cg = u.cg /\ g.shifted = u.shifted
        /\ g.ram = u.ram
    BY ExecLeft
  <2>2. QED
    BY <1>1, <1>2, <1>6, <2>1 DEF IsNarrow, SameBut
<1>7. QED
  BY <1>3, <1>4, <1>5, <1>6

(* The instructions of a call.                                             *)
Benign(rs, c) == rs = 1 \/ c \in {1, 2} \/ c \in 128 .. 255

Put(ram, a, c) == [ram EXCEPT ![a] = c]

(* What it does to the memory and the address.                             *)
Does(g, h, rs, c) ==
  /\ rs = 0 /\ c = 1 => g.ram = Cleared
  /\ rs = 0 /\ c # 1 => g.ram = h.ram
  /\ rs = 0 /\ c \in 128 .. 255 /\ c - 128 \in Ram => g.ac = c - 128
  /\ rs = 1 => g.ram = Put(h.ram, h.ac, c) /\ g.ac = Step(h.ac, TRUE)

LEMMA PairCall ==
  ASSUME NEW h, IsHd(h), NEW rs \in {0, 1},
         NEW half \in 0 .. 15, NEW nib \in 0 .. 15, IsNarrow(h, half),
         Modes(h), NEW c, c = 16 * half + nib, Benign(rs, c)
  PROVE  LET g == Latch(h, rs, nib) IN
         /\ IsNarrow(g, NoHalf) /\ Modes(g)
         /\ Does(g, h, rs, c)
<1>0. c \in 0 .. 255
  OBVIOUS
<1>1. PICK u \in HdRecord : /\ Latch(h, rs, nib) = Execute(u, rs, c)
                            /\ u.half = NoHalf /\ SameBut(u, h)
  BY PairLow
<1>2. u.bits = 4 /\ Modes(u) /\ u.ram = h.ram /\ u.ac = h.ac
  BY <1>1 DEF IsNarrow, SameBut, Modes
<1>3. CASE rs = 1
  <2>1. LET g == Execute(u, 1, c) IN
        /\ g.bits = u.bits /\ g.half = u.half /\ g.ac = Step(u.ac, u.left)
        /\ g.cg = FALSE /\ g.on = u.on /\ g.left = u.left
        /\ g.shifted = u.shifted /\ g.ram = [u.ram EXCEPT ![u.ac] = c]
    BY <1>0, <1>2, ExecData, ZenonT(60) DEF Modes
  <2>2. Modes(Execute(u, 1, c)) /\ IsNarrow(Execute(u, 1, c), NoHalf)
    BY <1>1, <1>2, <2>1 DEF IsNarrow, Modes
  <2>3. /\ Execute(u, 1, c).ram = Put(h.ram, h.ac, c)
        /\ Execute(u, 1, c).ac = Step(h.ac, TRUE)
    BY <1>2, <2>1 DEF Modes, Put
  <2>4. Latch(h, rs, nib) = Execute(u, 1, c)
    BY <1>1, <1>3
  <2>5. rs # 0
    BY <1>3
  <2>6. QED
    BY <2>2, <2>3, <2>4, <2>5, Zenon DEF Does
<1>4. CASE rs = 0 /\ c = 1
  <2>1. LET g == Execute(u, 0, 1) IN
        /\ g.bits = u.bits /\ g.half = u.half /\ g.on = u.on
        /\ g.cg = FALSE /\ g.left = TRUE /\ g.shifted = FALSE
        /\ g.ram = Cleared
    BY ExecClear
  <2>2. QED
    BY <1>1, <1>2, <1>4, <2>1 DEF IsNarrow, Modes, Does
<1>5. CASE rs = 0 /\ c = 2
  <2>1. LET g == Execute(u, 0, 2) IN
        /\ g.bits = u.bits /\ g.half = u.half /\ g.on = u.on
        /\ g.cg = FALSE /\ g.left = u.left /\ g.shifted = FALSE
        /\ g.ram = u.ram
    BY ExecHome
  <2>2. QED
    BY <1>1, <1>2, <1>5, <2>1 DEF IsNarrow, Modes, Does
<1>6. CASE rs = 0 /\ c \in 128 .. 255
  <2>0. LET g == Execute(u, 0, c) IN
        /\ g.bits = u.bits /\ g.half = u.half /\ g.on = u.on
        /\ g.left = u.left /\ g.shifted = u.shifted /\ g.ram = u.ram
        /\ c - 128 \in Ram => g.ac = c - 128 /\ g.cg = FALSE
        /\ c - 128 \notin Ram => g = u
    BY <1>6, ExecPos, ZenonT(60)
  <2>1. /\ Execute(u, 0, c).bits = 4 /\ Execute(u, 0, c).half = NoHalf
        /\ Execute(u, 0, c).on = TRUE /\ Execute(u, 0, c).left = TRUE
        /\ Execute(u, 0, c).shifted = FALSE /\ Execute(u, 0, c).ram = h.ram
    BY <1>1, <1>2, <2>0 DEF Modes
  <2>2. Execute(u, 0, c).cg = FALSE
    BY <1>2, <2>0 DEF Modes
  <2>3. c - 128 \in Ram => Execute(u, 0, c).ac = c - 128
    BY <2>0
  <2>4. c # 1
    BY <1>6
  <2>5. QED
    BY <1>1, <1>6, <2>1, <2>2, <2>3, <2>4 DEF IsNarrow, Modes, Does
<1>7. QED
  BY <1>3, <1>4, <1>5, <1>6 DEF Benign

(* The nibbles of a write, from its command.                               *)
LEMMA NibblesOf ==
  ASSUME NEW w, IsWrite(w)
  PROVE  /\ w[1].nib \in 0 .. 15 /\ w[4].nib \in 0 .. 15 /\ Rs(w) \in {0, 1}
         /\ Cmd(w) = 16 * w[1].nib + w[4].nib /\ Cmd(w) \in 0 .. 255
<1>1. w \in Seq(IoByte) /\ 1 \in 1 .. Len(w) /\ 4 \in 1 .. Len(w)
  BY DEF IsWrite
<1>2. w[1] \in IoByte /\ w[4] \in IoByte
  BY <1>1, ElementOfSeq
<1>3. w[1].nib \in 0 .. 15 /\ w[4].nib \in 0 .. 15 /\ w[1].rs \in {0, 1}
  BY <1>2 DEF IoByte
<1>4. QED
  BY <1>3 DEF Cmd, Rs

LEMMA CodeNibbles ==
  ASSUME NEW hi \in 0 .. 15, NEW lo \in 0 .. 15
  PROVE  /\ 16 * hi + lo = 3 => hi = 0 /\ lo = 3
         /\ 16 * hi + lo = 2 => hi = 0 /\ lo = 2
OBVIOUS

-----------------------------------------------------------------------------
(* Every line and column that is typed gives a position command.           *)
Placed == \A line, pos \in Typed : PosCommand(line % 256, pos % 256) >= 128

CallInv ==
  daemon = "call" =>
    \A i \in 1 .. Len(queue) :
      \/ IsLight(queue[i])
      \/ IsWrite(queue[i]) /\ Benign(Rs(queue[i]), Cmd(queue[i]))

LEMMA CallStep ==
  ASSUME Placed, TypeInv, CallInv, [Next]_lcdVars
  PROVE  CallInv'
<1>1. CASE UNCHANGED <<daemon, queue>>
  BY <1>1 DEF CallInv
<1>2. CASE daemon' # "call"
  BY <1>2 DEF CallInv
<1>3. CASE \E text \in Texts, line, pos \in Typed : Prints(text, line, pos)
  <2>1. PICK text \in Texts, line \in Typed, pos \in Typed :
          Prints(text, line, pos)
    BY <1>3
  <2> DEFINE c == PosCommand(line % 256, pos % 256)
  <2>2. c \in 0 .. 255 /\ TextQueue(queue', Truncated(text), c)
    BY <2>1, PrintStep
  <2>3. c >= 128
    BY DEF Placed
  <2> HIDE DEF c
  <2>4. IsWrite(queue'[1]) /\ Benign(Rs(queue'[1]), Cmd(queue'[1]))
    BY <2>2, <2>3 DEF TextQueue, Benign
  <2>5. \A i \in 2 .. Len(queue') :
          IsWrite(queue'[i]) /\ Benign(Rs(queue'[i]), Cmd(queue'[i]))
    BY <2>2 DEF TextQueue, Benign
  <2>6. \A i \in 1 .. Len(queue') : i = 1 \/ i \in 2 .. Len(queue')
    BY <2>2 DEF TextQueue
  <2>7. QED
    BY <2>4, <2>5, <2>6 DEF CallInv
<1>4. CASE Clears
  <2>1. queue' = lcd_clear
    BY <1>4 DEF Clears
  <2>2. \A i \in 1 .. Len(queue') : i \in {1, 2}
    BY <2>1, ClearQueue
  <2>3. QED
    BY <2>1, <2>2, ClearQueue DEF CallInv, Benign
<1>5. CASE \E state \in BOOLEAN : Lights(state)
  <2>1. PICK state \in BOOLEAN : queue' = lcd_backlight(state)
    BY <1>5 DEF Lights
  <2>2. QED
    BY <2>1, LightQueue DEF CallInv
<1>6. CASE i2cWriteByteDelayed /\ Drops /\ daemon' = "call"
  <2>1. daemon = "call" /\ Len(queue) \in Nat /\ Len(queue) >= 1
    BY <1>6, ByteStep DEF Drops, TypeInv
  <2>2. \A i \in 1 .. Len(queue') :
          i + 1 \in 1 .. Len(queue) /\ queue'[i] = queue[i + 1]
    BY <1>6, <2>1 DEF Drops
  <2>3. QED
    BY <2>1, <2>2 DEF CallInv
<1>7. QED
  BY <1>1, <1>2, <1>3, <1>4, <1>5, <1>6, NextCases, ByteStep
  DEF lcdVars, hal_init, hal_deinit, Kill, Stays, TypeInv

(***************************************************************************)
(* In step: the interface is 4 bits wide, and half of a byte is pending    *)
(* between the third and the sixth of its I2C bytes.  lcd_setup gets there *)
(* before its fifth write; what it sets after that, it keeps.  Here n are  *)
(* the writes left, a is the next byte and hi the first nibble.            *)
(***************************************************************************)
Paired(h, a, hi) == IF a <= 3 THEN IsNarrow(h, NoHalf) ELSE IsNarrow(h, hi)

Loose(h, n, a) ==
  \/ h.bits = 8
  \/ n = 8 /\ (a <= 3 \/ h.half \in {0, NoHalf})
  \/ n = 7 /\ a <= 3 /\ h.half \in {3, NoHalf}
  \/ n < 7 /\ a <= 3 /\ h.half = NoHalf
  \/ a > 3 /\ h.half = 0

SetupSync(h, n, a, hi) ==
  /\ n > 4 => Loose(h, n, a)
  /\ n <= 4 => Paired(h, a, hi)
  /\ n <= 2 => h.on = TRUE
  /\ n = 1 => h.cg = FALSE /\ h.shifted = FALSE /\ h.ram = Cleared

(* The nibbles of lcd_setup's writes.                                      *)
SetupCodes(n, hi, lo) ==
  /\ n > 5 => hi = 0 /\ lo = 3
  /\ n = 5 => hi = 0 /\ lo = 2
  /\ n = 4 => 16 * hi + lo = 40
  /\ n = 3 => 16 * hi + lo = 12
  /\ n = 2 => 16 * hi + lo = 1
  /\ n = 1 => 16 * hi + lo = 6

Hi == queue[1][1].nib
Lo == queue[1][4].nib

LEMMA SetupNext ==
  ASSUME TypeInv, SetupInv, daemon = "setup"
  PROVE  /\ Len(queue) \in 1 .. 8
         /\ IsWrite(queue[1]) /\ Rs(queue[1]) = 0
         /\ Hi \in 0 .. 15 /\ Lo \in 0 .. 15
         /\ SetupCodes(Len(queue), Hi, Lo)
<1>1. Len(queue) \in 1 .. 8
  <2>1. queue \in Seq(Seq(IoByte)) /\ queue # <<>>
    BY DEF TypeInv, QueueInv
  <2>2. Len(queue) \in Nat \ {0}
    BY <2>1, EmptySeq
  <2>3. Len(queue) <= 8
    BY DEF SetupInv
  <2>4. \A n \in Nat \ {0} : n <= 8 => n \in 1 .. 8
    OBVIOUS
  <2>5. QED
    BY <2>2, <2>3, <2>4, Zenon
<1> DEFINE n == Len(queue)
<1>2. 1 \in 1 .. n
  <2>1. \A k \in 1 .. 8 : 1 \in 1 .. k
    OBVIOUS
  <2>2. QED
    BY <1>1, <2>1, Zenon
<1>3. IsWrite(queue[1]) /\ Rs(queue[1]) = 0 /\ Cmd(queue[1]) = Codes[8 - n + 1]
  BY <1>2 DEF SetupInv
<1>4. Hi \in 0 .. 15 /\ Lo \in 0 .. 15 /\ Cmd(queue[1]) = 16 * Hi + Lo
  BY <1>3, NibblesOf DEF Hi, Lo
<1>5. \A k \in 1 .. 8 : /\ k > 5 => Codes[8 - k + 1] = 3
                        /\ k = 5 => Codes[8 - k + 1] = 2
                        /\ k = 4 => Codes[8 - k + 1] = 40
                        /\ k = 3 => Codes[8 - k + 1] = 12
                        /\ k = 2 => Codes[8 - k + 1] = 1
                        /\ k = 1 => Codes[8 - k + 1] = 6
  BY DEF Codes
<1> HIDE DEF n
<1>6. ASSUME NEW hi \in 0 .. 15, NEW lo \in 0 .. 15,
             16 * hi + lo = Codes[8 - n + 1], n \in 1 .. 8
      PROVE  SetupCodes(n, hi, lo)
  BY <1>5, <1>6, CodeNibbles DEF SetupCodes
<1>7. QED
  BY <1>1, <1>3, <1>4, <1>6 DEF n

(* lcd_setup, the first nibble of a write.                                 *)
LEMMA SetupThird ==
  ASSUME NEW h, IsHd(h), NEW n \in 1 .. 8, NEW hi \in 0 .. 15,
         NEW lo \in 0 .. 15, SetupCodes(n, hi, lo), SetupSync(h, n, 3, hi)
  PROVE  SetupSync(Latch(h, 0, hi), n, 4, hi)
<1> DEFINE g == Latch(h, 0, hi)
<1>1. CASE n = 8
  <2>1. hi = 0
    BY <1>1 DEF SetupCodes
  <2>2. g.bits = 8 \/ g.half \in {0, NoHalf}
    BY <2>1, AnyZero
  <2>3. QED
    BY <1>1, <2>2 DEF SetupSync, Loose
<1>2. CASE n \in {5, 6, 7}
  <2>1. h.bits = 8 \/ h.half \in {3, NoHalf}
    BY <1>2 DEF SetupSync, Loose
  <2>2. hi = 0
    BY <1>2 DEF SetupCodes
  <2>3. g.bits = 8 \/ g.half = 0
    BY <2>1, <2>2, LooseZero
  <2>4. QED
    BY <1>2, <2>3 DEF SetupSync, Loose
<1>3. CASE n \in 1 .. 4
  <2>1. IsNarrow(h, NoHalf)
    BY <1>3 DEF SetupSync, Paired
  <2>2. g.half = hi /\ SameBut(g, h)
    BY <2>1, LatchFirst
  <2>3. Paired(g, 4, hi)
    BY <2>1, <2>2 DEF Paired, IsNarrow, SameBut
  <2>4. g.on = h.on /\ g.cg = h.cg /\ g.shifted = h.shifted /\ g.ram = h.ram
    BY <2>2 DEF SameBut
  <2> HIDE DEF g
  <2>5. SetupSync(g, n, 4, hi)
    BY <1>3, <2>3, <2>4 DEF SetupSync
  <2>6. QED
    BY <2>5 DEF g
<1>4. QED
  BY <1>1, <1>2, <1>3

(* lcd_setup, the second nibble: on to the next write, or to the end.      *)
LEMMA SetupSixth ==
  ASSUME NEW h, IsHd(h), NEW n \in 1 .. 8, NEW hi \in 0 .. 15,
         NEW lo \in 0 .. 15, SetupCodes(n, hi, lo), SetupSync(h, n, 6, hi)
  PROVE  LET g == Latch(h, 0, lo) IN
         /\ n > 1 => \A x : SetupSync(g, n - 1, 1, x)
         /\ n = 1 => IsNarrow(g, NoHalf) /\ Modes(g) /\ g.ram = Cleared
<1> DEFINE g == Latch(h, 0, lo)
<1>1. CASE n = 8
  <2>1. lo = 3
    BY <1>1 DEF SetupCodes
  <2>2. h.bits = 8 \/ h.half \in {0, NoHalf}
    BY <1>1 DEF SetupSync, Loose
  <2>3. g.bits = 8 \/ g.half \in {3, NoHalf}
    BY <2>1, <2>2, LooseThree
  <2> HIDE DEF g
  <2>4. QED
    BY <1>1, <2>3 DEF SetupSync, Loose, g
<1>2. CASE n \in {6, 7}
  <2>1. lo = 3
    BY <1>2 DEF SetupCodes
  <2>2. h.bits = 8 \/ h.half = 0
    BY <1>2 DEF SetupSync, Loose
  <2>3. g.bits = 8 \/ g.half = NoHalf
    BY <2>1, <2>2, LooseThree
  <2> HIDE DEF g
  <2>4. n > 1 => \A x : SetupSync(g, n - 1, 1, x)
    BY <1>2, <2>3 DEF SetupSync, Loose
  <2>5. QED
    BY <1>2, <2>4 DEF g
<1>3. CASE n = 5
  <2>1. lo = 2
    BY <1>3 DEF SetupCodes
  <2>2. h.bits = 8 \/ h.half = 0
    BY <1>3 DEF SetupSync, Loose
  <2>3. IsNarrow(g, NoHalf)
    BY <2>1, <2>2, LooseTwo
  <2> HIDE DEF g
  <2>4. QED
    BY <1>3, <2>3 DEF SetupSync, Paired, g
<1>4. CASE n \in 1 .. 4
  <2> DEFINE c == 16 * hi + lo
  <2>1. IsNarrow(h, hi)
    BY <1>4 DEF SetupSync, Paired
  <2>2. /\ c \in {40, 12, 1, 6} /\ c \in Int
        /\ n = 3 => c = 12
        /\ n = 2 => c = 1
        /\ n = 1 => c = 6
    BY <1>4 DEF SetupCodes
  <2>3. c = 16 * hi + lo
    OBVIOUS
  <2> HIDE DEF c
  <2>4. /\ IsNarrow(g, NoHalf)
        /\ c = 12 => g.on = TRUE
        /\ c = 1 => /\ g.on = h.on /\ g.cg = FALSE
                    /\ g.shifted = FALSE /\ g.ram = Cleared
        /\ c = 6 => /\ g.on = h.on /\ g.left = TRUE /\ g.cg = h.cg
                    /\ g.shifted = h.shifted /\ g.ram = h.ram
    BY <2>1, <2>2, <2>3, PairSetup
  <2> HIDE DEF g
  <2>5. n = 3 => g.on = TRUE
    BY <2>2, <2>4
  <2>6. n = 2 => /\ g.on = TRUE /\ g.cg = FALSE
                 /\ g.shifted = FALSE /\ g.ram = Cleared
    BY <2>2, <2>4 DEF SetupSync
  <2>7. n = 1 => Modes(g) /\ g.ram = Cleared
    BY <2>2, <2>4 DEF SetupSync, Modes
  <2>8. n > 1 => \A x : SetupSync(g, n - 1, 1, x)
    BY <1>4, <2>4, <2>5, <2>6 DEF SetupSync, Paired
  <2>9. QED
    BY <2>4, <2>7, <2>8 DEF g
<1>5. QED
  BY <1>1, <1>2, <1>3, <1>4

SyncInv ==
  ~garbled =>
    /\ daemon = "setup" => SetupSync(hd, Len(queue), at, Hi)
    /\ daemon \in {"call", "idle"} => Paired(hd, at, Hi) /\ Modes(hd)

(* The bytes that latch nothing.                                           *)
LEMMA BetweenNibbles ==
  ASSUME NEW h, NEW n, NEW a \in 1 .. 6, a # 3, a # 6, NEW hi
  PROVE  /\ SetupSync(h, n, a, hi) => SetupSync(h, n, a + 1, hi)
         /\ Paired(h, a, hi) => Paired(h, a + 1, hi)
<1>1. (a <= 3 <=> a + 1 <= 3) /\ (a > 3 <=> a + 1 > 3)
  OBVIOUS
<1>2. QED
  BY <1>1 DEF SetupSync, Paired, Loose

LEMMA SyncSetup ==
  ASSUME TypeInv, BusInv, SetupInv, SyncInv,
         i2cWriteByteDelayed, daemon = "setup"
  PROVE  SyncInv'
<1> SUFFICES ASSUME ~garbled' PROVE SyncInv'
  BY DEF SyncInv
<1> DEFINE n == Len(queue)
<1>1. /\ n \in 1 .. 8 /\ IsWrite(queue[1]) /\ Rs(queue[1]) = 0
      /\ Hi \in 0 .. 15 /\ Lo \in 0 .. 15 /\ SetupCodes(n, Hi, Lo)
  BY SetupNext
<1>2. /\ ~garbled /\ at \in 1 .. 6
      /\ at \in {1, 2, 4, 5} => hd' = hd \/ FirstByte
      /\ at = 3 => hd' = Latch(hd, 0, Hi)
      /\ at = 6 => hd' = Latch(hd, 0, Lo)
      /\ at < 6 => Stays
      /\ at = 6 => Drops
  BY <1>1, NibbleStep DEF Hi, Lo
<1>3. SetupSync(hd, n, at, Hi) /\ IsHd(hd)
  BY <1>2 DEF SyncInv, TypeInv, HdType
<1>4. CASE at < 6
  <2>1. /\ daemon' = "setup" /\ Len(queue') = n /\ Hi' = Hi /\ at' = at + 1
    BY <1>2, <1>4 DEF Stays, Hi
  <2>2. CASE at = 3
    <3>1. SetupSync(hd', n, 4, Hi)
      BY <1>1, <1>2, <1>3, <2>2, SetupThird
    <3>2. at' = 4
      BY <2>1, <2>2
    <3>3. QED
      BY <2>1, <3>1, <3>2 DEF SyncInv
  <2>3. CASE at # 3 /\ hd' = hd
    <3>1. SetupSync(hd, n, at + 1, Hi)
      BY <1>2, <1>3, <1>4, <2>3, BetweenNibbles
    <3>2. QED
      BY <2>1, <2>3, <3>1 DEF SyncInv
  <2>4. CASE FirstByte
    <3>1. n = 8 /\ at' = 2
      BY <2>1, <2>4 DEF FirstByte
    <3> HIDE DEF n
    <3>2. SetupSync(hd', n, 2, Hi)
      BY <3>1 DEF SetupSync, Loose
    <3>3. QED
      BY <2>1, <3>1, <3>2 DEF SyncInv, n
  <2>5. QED
    BY <1>2, <1>4, <2>2, <2>3, <2>4
<1>5. CASE at = 6
  <2>1. /\ at' = 1 /\ Len(queue') = n - 1
        /\ daemon' = IF n > 1 THEN "setup" ELSE "idle"
    BY <1>2, <1>5 DEF Drops
  <2>2. SetupSync(hd, n, 6, Hi) /\ hd' = Latch(hd, 0, Lo)
    BY <1>2, <1>3, <1>5
  <2>3. /\ n > 1 => \A x : SetupSync(hd', n - 1, 1, x)
        /\ n = 1 => IsNarrow(hd', NoHalf) /\ Modes(hd')
    BY <1>1, <1>3, <2>2, SetupSixth
  <2> HIDE DEF n
  <2>4. CASE n > 1
    <3>1. daemon' = "setup" /\ SetupSync(hd', n - 1, 1, Hi')
      BY <2>1, <2>3, <2>4
    <3>2. QED
      BY <2>1, <3>1 DEF SyncInv
  <2>5. CASE n = 1
    <3>1. Paired(hd', 1, Hi') /\ Modes(hd') /\ daemon' = "idle"
      BY <2>1, <2>3, <2>5 DEF Paired
    <3>2. QED
      BY <2>1, <3>1 DEF SyncInv
  <2>6. \A k \in 1 .. 8 : k > 1 \/ k = 1
    OBVIOUS
  <2>7. n > 1 \/ n = 1
    BY <1>1, <2>6, Zenon DEF n
  <2>8. QED
    BY <2>4, <2>5, <2>7
<1>6. QED
  BY <1>2, <1>4, <1>5

LEMMA SyncCall ==
  ASSUME TypeInv, BusInv, CallInv, SyncInv,
         i2cWriteByteDelayed, daemon = "call"
  PROVE  SyncInv'
<1> SUFFICES ASSUME ~garbled' PROVE SyncInv'
  BY DEF SyncInv
<1>1. 1 \in 1 .. Len(queue) /\ QueueInv /\ IsHd(hd) /\ (Sends \/ Loses)
      /\ (Stays \/ Drops)
  BY ByteStep DEF TypeInv, HdType
<1>2. Sends /\ ~garbled
  BY <1>1 DEF Sends, Loses
<1>3. Paired(hd, at, Hi) /\ Modes(hd)
  BY <1>2 DEF SyncInv
<1>4. daemon' \in {"call", "idle"}
  BY <1>1 DEF Stays, Drops
<1>5. CASE IsLight(queue[1])
  <2>1. at = 1 /\ bus'.en = FALSE
    BY <1>1, <1>2, <1>5 DEF QueueInv, Sends, IsLight, Byte
  <2>2. bus.en = FALSE
    BY <1>2, <2>1 DEF BusInv, FirstByte
  <2>3. hd' = hd
    BY <1>2, <2>2 DEF Sends
  <2>4. at' = 1
    BY <1>1, <1>5, <2>1 DEF Stays, Drops, IsLight
  <2>5. Paired(hd', at', Hi')
    BY <1>3, <2>1, <2>3, <2>4 DEF Paired
  <2>6. QED
    BY <1>3, <1>4, <2>3, <2>5 DEF SyncInv
<1>6. CASE IsWrite(queue[1]) /\ Benign(Rs(queue[1]), Cmd(queue[1]))
  <2>1. /\ at \in 1 .. 6
        /\ at \in {1, 2, 4, 5} => hd' = hd
        /\ at = 3 => hd' = Latch(hd, Rs(queue[1]), Hi)
        /\ at = 6 => hd' = Latch(hd, Rs(queue[1]), Lo)
        /\ at < 6 => Stays
        /\ at = 6 => Drops
    BY <1>6, NibbleStep DEF Hi, Lo, FirstByte
  <2>2. /\ Hi \in 0 .. 15 /\ Lo \in 0 .. 15 /\ Rs(queue[1]) \in {0, 1}
        /\ Cmd(queue[1]) = 16 * Hi + Lo
    BY <1>6, NibblesOf DEF Hi, Lo
  <2>3. CASE at \in {1, 2, 4, 5}
    <3>1. Paired(hd, at + 1, Hi) /\ at < 6
      BY <1>3, <2>1, <2>3, BetweenNibbles
    <3>2. hd' = hd /\ at' = at + 1 /\ Hi' = Hi
      BY <2>1, <2>3, <3>1 DEF Stays, Hi
    <3>3. QED
      BY <1>3, <1>4, <3>1, <3>2 DEF SyncInv
  <2>4. CASE at = 3
    <3>1. hd' = Latch(hd, Rs(queue[1]), Hi) /\ at' = 4 /\ Hi' = Hi
      BY <2>1, <2>4 DEF Stays, Hi
    <3>2. IsNarrow(hd, NoHalf)
      BY <1>3, <2>4 DEF Paired
    <3>3. hd'.half = Hi /\ SameBut(hd', hd)
      BY <1>1, <2>2, <3>1, <3>2, LatchFirst
    <3>4. Paired(hd', 4, Hi) /\ Modes(hd')
      BY <1>3, <3>2, <3>3 DEF Paired, IsNarrow, SameBut, Modes
    <3>5. QED
      BY <1>4, <3>1, <3>4 DEF SyncInv
  <2>5. CASE at = 6
    <3>1. hd' = Latch(hd, Rs(queue[1]), Lo) /\ at' = 1
      BY <2>1, <2>5 DEF Drops
    <3>2. IsNarrow(hd, Hi)
      BY <1>3, <2>5 DEF Paired
    <3>3. IsNarrow(hd', NoHalf) /\ Modes(hd')
      <4> DEFINE c == Cmd(queue[1])
                 rs == Rs(queue[1])
      <4>1. c \in 0 .. 255 /\ c = 16 * Hi + Lo /\ Benign(rs, c)
        BY <1>6, <2>2
      <4>2. Hi \in 0 .. 15 /\ Lo \in 0 .. 15 /\ rs \in {0, 1}
        BY <2>2
      <4>3. hd' = Latch(hd, rs, Lo)
        BY <3>1
      <4>4. IsHd(hd)
        BY <1>1
      <4> HIDE DEF c, rs, Hi, Lo
      <4>5. LET g == Latch(hd, rs, Lo) IN IsNarrow(g, NoHalf) /\ Modes(g)
        BY <1>3, <3>2, <4>1, <4>2, <4>4, PairCall
      <4>6. QED
        BY <4>3, <4>5
    <3>4. Paired(hd', 1, Hi')
      BY <3>3 DEF Paired
    <3>5. QED
      BY <1>4, <3>1, <3>3, <3>4 DEF SyncInv
  <2>6. QED
    BY <2>1, <2>3, <2>4, <2>5
<1>7. QED
  BY <1>1, <1>5, <1>6 DEF CallInv

LEMMA SyncStep ==
  ASSUME TypeInv, BusInv, SetupInv, CallInv, SyncInv, [Next]_lcdVars
  PROVE  SyncInv'
<1>1. CASE UNCHANGED lcdVars
  BY <1>1 DEF lcdVars, SyncInv, Hi
<1>2. CASE daemon = "idle" /\ daemon' \in {"call", "stop"}
           /\ UNCHANGED <<at, hd, garbled>>
  <2>1. at = 1
    BY <1>2 DEF TypeInv, QueueInv
  <2>2. QED
    BY <1>2, <2>1 DEF SyncInv, Paired
<1>3. CASE hal_init
  <2>1. at' = 1 /\ daemon' = "setup" /\ queue' = lcd_setup
    BY <1>3 DEF hal_init, TypeInv, QueueInv
  <2>2. Len(queue') = 8
    BY <2>1, SetupQueue
  <2>3. \A h, x : SetupSync(h, 8, 1, x)
    BY DEF SetupSync, Loose
  <2>4. QED
    BY <2>1, <2>2, <2>3 DEF SyncInv
<1>4. CASE Kill
  BY <1>4 DEF Kill, SyncInv
<1>5. CASE i2cWriteByteDelayed /\ daemon = "stop"
  BY <1>5, ByteStep DEF TypeInv, Stays, Drops, SyncInv
<1>6. i2cWriteByteDelayed => daemon \in {"setup", "call", "stop"}
  BY DEF i2cWriteByteDelayed, TypeInv, QueueInv
<1>7. CASE i2cWriteByteDelayed
  BY <1>5, <1>6, <1>7, SyncSetup, SyncCall
<1>8. CASE \E text \in Texts, line, pos \in Typed : Prints(text, line, pos)
  BY <1>2, <1>8, PrintStep
<1>9. CASE Clears
  BY <1>2, <1>9 DEF Clears, hal_lcd_clear, Call
<1>10. CASE \E state \in BOOLEAN : Lights(state)
  BY <1>2, <1>10 DEF Lights, hal_lcd_backlight, Call
<1>11. CASE hal_deinit
  BY <1>2, <1>11 DEF hal_deinit
<1>12. QED
  BY <1>1, <1>3, <1>4, <1>7, <1>8, <1>9, <1>10, <1>11, NextCases, Zenon

StepInv == TypeInv /\ BusInv /\ SetupInv /\ CallInv /\ SyncInv

LEMMA StepInvHolds ==
  ASSUME Placed
  PROVE  Spec => []StepInv
<1>1. LcdInit => StepInv
  BY TypeInit DEF LcdInit, StepInv, BusInv, SetupInv, CallInv, SyncInv
<1>2. StepInv /\ [Next]_lcdVars => StepInv'
  BY TypeStep, BusStep, SetupStep, CallStep, SyncStep DEF StepInv
<1>3. QED
  BY <1>1, <1>2, PTL DEF Spec

(***************************************************************************)
(* lcd_setup, lcd_clear and lcd_display_string_pos: between two calls of a *)
(* daemon none of whose I2C writes failed, the controller is in step,      *)
(* wherever the daemons before it were killed, as long as line and column  *)
(* make a position command.                                                *)
(***************************************************************************)
THEOREM DaemonsInStep ==
  ASSUME Placed
  PROVE  Spec => []InStep
<1>1. StepInv => InStep
  <2> SUFFICES ASSUME StepInv, Settled
               PROVE  /\ hd.bits = 4 /\ hd.half = NoHalf /\ ~bus.en
                      /\ hd.on /\ hd.left /\ ~hd.cg /\ ~hd.shifted
    BY DEF InStep
  <2>1. at = 1 /\ daemon = "idle" /\ ~garbled
    BY DEF Settled, StepInv, TypeInv, QueueInv
  <2>2. Paired(hd, 1, Hi) /\ Modes(hd)
    BY <2>1 DEF StepInv, SyncInv
  <2>3. bus.en = FALSE
    BY <2>1 DEF StepInv, BusInv, FirstByte
  <2>4. QED
    BY <2>2, <2>3 DEF Paired, IsNarrow, Modes
<1>2. QED
  BY <1>1, StepInvHolds, PTL

-----------------------------------------------------------------------------
(* What is shown.                                                          *)

Cells == Rows \X Columns

Address(cell) == 64 * (cell[1] - 1) + cell[2]

Agrees(ram, w) == \A cell \in Cells : ram[Address(cell)] = w[cell]

LEMMA AddressInRam ==
  ASSUME NEW cell \in Cells
  PROVE  /\ cell[1] \in {1, 2} /\ cell[2] \in 0 .. StrSize - 2
         /\ cell[2] \in 0 .. 18 /\ Address(cell) \in Ram
<1>1. cell[1] \in {1, 2} /\ cell[2] \in 0 .. StrSize - 2
  BY DEF Cells, Rows, Columns
<1>2. cell[2] \in 0 .. 18
  BY <1>1, LcdAssumption
<1>3. QED
  BY <1>1, <1>2 DEF Address, Ram

LEMMA ClearedAgrees == Agrees(Cleared, Empty)
BY AddressInRam DEF Agrees, Cleared, Empty, Cells

(* Every text that is typed stays within the memory of its row.            *)
Fits ==
  \A line, pos \in Typed :
    /\ line \in 0 .. 255 /\ pos \in Nat
    /\ (LineOffset(line) % 64) + pos + StrSize - 1 <= 40

InRow(b, m) ==
  \/ b \in 0 .. 39 /\ b + m <= 40
  \/ b \in 64 .. 103 /\ b + m <= 104

(* From the f-th on, q writes characters to the addresses from b on; the   *)
(* cells are those characters or are right already.                        *)
Rest(q, f, b, ram, w) ==
  /\ InRow(b, Len(q) + 1 - f)
  /\ \A i \in f .. Len(q) : IsWrite(q[i]) /\ Rs(q[i]) = 1
  /\ \A cell \in Cells :
       IF Address(cell) \in b .. b + Len(q) - f
       THEN w[cell] = Cmd(q[f + (Address(cell) - b)])
       ELSE ram[Address(cell)] = w[cell]

Dims(q, ram, w) == Len(q) = 1 /\ IsLight(q[1]) /\ Agrees(ram, w)

Wipes(q, ram, w) ==
  /\ w = Empty /\ IsWrite(q[1]) /\ Rs(q[1]) = 0
  /\ \/ /\ Len(q) = 2 /\ Cmd(q[1]) = 1
        /\ IsWrite(q[2]) /\ Rs(q[2]) = 0 /\ Cmd(q[2]) = 2
     \/ Len(q) = 1 /\ Cmd(q[1]) = 2 /\ Agrees(ram, w)

Places(q, ram, w) ==
  /\ IsWrite(q[1]) /\ Rs(q[1]) = 0
  /\ Cmd(q[1]) - 128 \in Ram /\ Rest(q, 2, Cmd(q[1]) - 128, ram, w)

ShowInv ==
  ~garbled =>
    /\ daemon = "idle" => Agrees(hd.ram, want)
    /\ daemon = "setup" => want = Empty
    /\ daemon = "call" =>
         \/ Dims(queue, hd.ram, want)
         \/ Wipes(queue, hd.ram, want)
         \/ Places(queue, hd.ram, want)
         \/ Rest(queue, 1, hd.ac, hd.ram, want)

(* A typed line and column, as the address the position command sets.      *)
LEMMA TypedAddress ==
  ASSUME Fits, NEW line \in Typed, NEW pos \in Typed, NEW m \in Nat,
         m <= StrSize - 1
  PROVE  LET b == LineOffset(line) + pos IN
         /\ PosCommand(line % 256, pos % 256) - 128 = b
         /\ b \in Ram /\ InRow(b, m) /\ pos \in Nat
<1>1. /\ line \in 0 .. 255 /\ pos \in Nat
      /\ (LineOffset(line) % 64) + pos + StrSize - 1 <= 40
  BY DEF Fits
<1>2. StrSize \in 2 .. 20
  BY LcdAssumption
<1>3. LineOffset(line) \in {0, 20, 64, 84} /\ line % 256 = line
  BY <1>1 DEF LineOffset
<1>4. pos \in 0 .. 39 /\ pos % 256 = pos
  BY <1>1, <1>2, <1>3
<1> DEFINE o == LineOffset(line)
<1>5. o \in {0, 20, 64, 84} /\ (o % 64) + pos + StrSize - 1 <= 40
  BY <1>1, <1>3
<1>6. PosCommand(line % 256, pos % 256) = (128 + ((pos + o) % 256)) % 256
  BY <1>3, <1>4 DEF PosCommand
<1> HIDE DEF o
<1>7. CASE o \in {0, 20}
  <2>1. o + pos \in 0 .. 39 /\ o + pos + m <= 40
    BY <1>2, <1>4, <1>5, <1>7
  <2>2. ((128 + ((pos + o) % 256)) % 256) - 128 = o + pos
    BY <1>4, <1>7, <2>1
  <2>3. QED
    BY <1>1, <1>6, <2>1, <2>2 DEF InRow, Ram, o
<1>8. CASE o \in {64, 84}
  <2>1. o + pos \in 64 .. 103 /\ o + pos + m <= 104
    BY <1>2, <1>4, <1>5, <1>8
  <2>2. ((128 + ((pos + o) % 256)) % 256) - 128 = o + pos
    BY <1>4, <1>8, <2>1
  <2>3. QED
    BY <1>1, <1>6, <2>1, <2>2 DEF InRow, Ram, o
<1>9. QED
  BY <1>5, <1>7, <1>8

(* A cell is within what is written there exactly if it is within the text *)
(* as it was typed.                                                        *)
LEMMA WithinText ==
  ASSUME Fits, NEW line \in Typed, NEW pos \in Typed, NEW cell \in Cells,
         NEW n \in Nat, NEW m \in Nat,
         m = IF n < StrSize - 1 THEN n ELSE StrSize - 1
  PROVE  LET b == LineOffset(line) + pos
             a == Address(cell) IN
         /\ a \in b .. b + m - 1 <=>
              cell[1] = Row(line) /\ cell[2] \in pos .. pos + n - 1
         /\ a \in b .. b + m - 1 =>
              a - b = cell[2] - pos /\ a - b + 1 \in 1 .. m
<1> DEFINE o == LineOffset(line)
           r == cell[1]
           c == cell[2]
           a == Address(cell)
<1>1. /\ line \in 0 .. 255 /\ pos \in Nat
      /\ (o % 64) + pos + StrSize - 1 <= 40
  BY DEF Fits
<1>2. StrSize \in 2 .. 20
  BY LcdAssumption
<1>3. r \in {1, 2} /\ c \in 0 .. StrSize - 2 /\ c \in 0 .. 18
      /\ a = 64 * (r - 1) + c
  BY AddressInRam DEF Address
<1>4. \/ line \notin 2 .. 4 /\ o = 0 /\ Row(line) = 1
      \/ line = 2 /\ o = 64 /\ Row(line) = 2
      \/ line = 3 /\ o = 20 /\ Row(line) = 3
      \/ line = 4 /\ o = 84 /\ Row(line) = 4
  BY <1>1 DEF LineOffset, Row
<1> HIDE DEF o, r, c, a
<1>5. CASE o = 0 /\ Row(line) = 1
  BY <1>1, <1>2, <1>3, <1>5 DEF o, r, c, a
<1>6. CASE o = 64 /\ Row(line) = 2
  <2>1. CASE r = 1
    BY <1>1, <1>2, <1>3, <1>6, <2>1 DEF o, r, c, a
  <2>2. CASE r = 2
    <3>1. a = 64 + c
      BY <1>3, <2>2
    <3>2. /\ a \in 64 + pos .. 64 + pos + m - 1 <=> c \in pos .. pos + n - 1
          /\ a \in 64 + pos .. 64 + pos + m - 1 =>
               a - (64 + pos) = c - pos /\ a - (64 + pos) + 1 \in 1 .. m
      BY <1>1, <1>2, <1>3, <3>1
    <3>3. QED
      BY <1>6, <2>2, <3>2 DEF o, r, c, a
  <2>3. QED
    BY <1>3, <2>1, <2>2
<1>7. CASE o = 20 /\ Row(line) = 3
  BY <1>1, <1>2, <1>3, <1>7 DEF o, r, c, a
<1>8. CASE o = 84 /\ Row(line) = 4
  BY <1>1, <1>2, <1>3, <1>8 DEF o, r, c, a
<1>9. QED
  BY <1>4, <1>5, <1>6, <1>7, <1>8

(* A text is asked for.                                                    *)
LEMMA ShowPrint ==
  ASSUME Fits, TypeInv, ShowInv, NEW text \in Texts, NEW line \in Typed,
         NEW pos \in Typed, Prints(text, line, pos)
  PROVE  ShowInv'
<1> SUFFICES ASSUME ~garbled PROVE Places(queue', hd.ram, want')
  BY PrintStep DEF ShowInv
<1> DEFINE t == Truncated(text)
           n == Len(text)
           m == Len(t)
           c == PosCommand(line % 256, pos % 256)
           b == LineOffset(line) + pos
<1>1. /\ TextQueue(queue', t, c) /\ want' = Shown(text, line, pos)
      /\ Agrees(hd.ram, want)
  BY PrintStep DEF ShowInv
<1>2. /\ n \in Nat /\ m \in Nat /\ m <= StrSize - 1
      /\ m = IF n < StrSize - 1 THEN n ELSE StrSize - 1
      /\ \A i \in 1 .. m : t[i] = text[i]
  <2>1. n \in Nat
    BY CtlAssumption
  <2>2. StrSize - 1 \in Nat
    BY LcdAssumption
  <2>3. /\ m = IF n < StrSize - 1 THEN n ELSE StrSize - 1
        /\ \A i \in 1 .. m : t[i] = text[i]
    BY TextBytes
  <2> HIDE DEF n, m
  <2>4. QED
    BY <2>1, <2>2, <2>3
<1>3. c - 128 = b /\ b \in Ram /\ InRow(b, m) /\ pos \in Nat
  BY <1>2, TypedAddress
<1>4. \A cell \in Cells :
        LET a == Address(cell) IN
        /\ a \in b .. b + m - 1 <=>
             cell[1] = Row(line) /\ cell[2] \in pos .. pos + n - 1
        /\ a \in b .. b + m - 1 =>
             a - b = cell[2] - pos /\ a - b + 1 \in 1 .. m
  BY <1>2, WithinText
<1> HIDE DEF t, n, m, c, b
<1>5. /\ Len(queue') = m + 1
      /\ IsWrite(queue'[1]) /\ Rs(queue'[1]) = 0 /\ Cmd(queue'[1]) = c
      /\ \A i \in 2 .. m + 1 : /\ IsWrite(queue'[i]) /\ Rs(queue'[i]) = 1
                               /\ Cmd(queue'[i]) = t[i - 1]
  BY <1>1 DEF TextQueue, m
<1>6. ASSUME NEW cell \in Cells
      PROVE  IF Address(cell) \in b .. b + m - 1
             THEN want'[cell] = Cmd(queue'[2 + (Address(cell) - b)])
             ELSE hd.ram[Address(cell)] = want'[cell]
  <2> DEFINE a == Address(cell)
  <2>1. a \in Nat /\ b \in Nat /\ cell \in Rows \X Columns
        /\ cell[2] \in 0 .. 18
    BY <1>3, AddressInRam DEF Ram, Cells
  <2>2. /\ a \in b .. b + m - 1 <=>
             cell[1] = Row(line) /\ cell[2] \in pos .. pos + n - 1
        /\ a \in b .. b + m - 1 =>
             a - b = cell[2] - pos /\ a - b + 1 \in 1 .. m
    BY <1>4
  <2>3. want'[cell] = IF cell[1] = Row(line) /\ cell[2] \in pos .. pos + n - 1
                      THEN text[cell[2] - pos + 1] ELSE want[cell]
    BY <1>1, <2>1 DEF Shown, n
  <2>4. hd.ram[a] = want[cell]
    BY <1>1 DEF Agrees
  <2> HIDE DEF a
  <2>5. CASE a \in b .. b + m - 1
    <3> DEFINE i == a - b + 1
    <3>1. i \in 1 .. m /\ cell[2] - pos + 1 = i
      BY <1>3, <2>1, <2>2, <2>5
    <3>2. want'[cell] = text[i]
      BY <2>2, <2>3, <2>5, <3>1, Zenon
    <3> DEFINE j == i + 1
    <3>3. j \in 2 .. m + 1 /\ j - 1 = i /\ 2 + (a - b) = j
      BY <1>2, <2>1, <3>1
    <3> HIDE DEF i, j
    <3>4. Cmd(queue'[j]) = t[i]
      BY <1>5, <3>3
    <3>5. QED
      BY <1>2, <2>5, <3>1, <3>2, <3>3, <3>4 DEF a
  <2>6. CASE a \notin b .. b + m - 1
    <3>1. want'[cell] = want[cell]
      BY <2>2, <2>3, <2>6, Zenon
    <3>2. QED
      BY <2>4, <2>6, <3>1 DEF a
  <2>7. QED
    BY <2>5, <2>6
<1>7. Rest(queue', 2, b, hd.ram, want')
  <2>1. m + 1 + 1 - 2 = m /\ b + (m + 1) - 2 = b + m - 1
    BY <1>2, <1>3 DEF Ram
  <2>2. /\ Len(queue') + 1 - 2 = m
        /\ b + Len(queue') - 2 = b + m - 1
    BY <1>5, <2>1
  <2>3. QED
    BY <1>3, <1>5, <1>6, <2>2 DEF Rest
<1>8. QED
  BY <1>3, <1>5, <1>7 DEF Places

(* The other requests.                                                     *)
LEMMA ShowAsked ==
  ASSUME TypeInv, ShowInv, Clears \/ \E state \in BOOLEAN : Lights(state)
  PROVE  ShowInv'
<1> SUFFICES ASSUME ~garbled
             PROVE  \/ Dims(queue', hd.ram, want')
                    \/ Wipes(queue', hd.ram, want')
  BY DEF ShowInv, Clears, Lights
<1>1. Agrees(hd.ram, want)
  BY DEF ShowInv, Clears, Lights
<1>2. CASE Clears
  <2>1. queue' = lcd_clear /\ want' = Empty
    BY <1>2 DEF Clears
  <2>2. QED
    BY <2>1, ClearQueue DEF Wipes
<1>3. CASE \E state \in BOOLEAN : Lights(state)
  <2>1. PICK state \in BOOLEAN : queue' = lcd_backlight(state) /\ want' = want
    BY <1>3 DEF Lights
  <2>2. QED
    BY <1>1, <2>1, LightQueue DEF Dims
<1>4. QED
  BY <1>2, <1>3

(* What a byte of a call does to the display's memory.                     *)
LEMMA CallByte ==
  ASSUME TypeInv, BusInv, CallInv, SyncInv,
         i2cWriteByteDelayed, daemon = "call", ~garbled'
  PROVE  LET w == queue[1] IN
         /\ ~garbled /\ Len(queue) \in Nat /\ Len(queue) >= 1
         /\ hd.ac \in Ram /\ hd.ram \in [Ram -> 0 .. 255]
         /\ \/ Stays /\ hd'.ram = hd.ram /\ hd'.ac = hd.ac
            \/ IsLight(w) /\ Drops /\ hd'.ram = hd.ram
            \/ /\ IsWrite(w) /\ Drops
               /\ Does(hd', hd, Rs(w), Cmd(w))
<1>1. 1 \in 1 .. Len(queue) /\ QueueInv /\ IsHd(hd) /\ (Sends \/ Loses)
      /\ (Stays \/ Drops) /\ Len(queue) \in Nat /\ Len(queue) >= 1
  BY ByteStep DEF TypeInv, HdType
<1>2. Sends /\ ~garbled
  BY <1>1 DEF Sends, Loses
<1>3. Paired(hd, at, Hi) /\ Modes(hd)
  BY <1>2 DEF SyncInv
<1>4. hd.ac \in Ram /\ hd.ram \in [Ram -> 0 .. 255]
  BY <1>1 DEF IsHd, HdRecord
<1>5. CASE IsLight(queue[1])
  <2>1. at = 1 /\ bus'.en = FALSE
    BY <1>1, <1>2, <1>5 DEF QueueInv, Sends, IsLight, Byte
  <2>2. bus.en = FALSE
    BY <1>2, <2>1 DEF BusInv, FirstByte
  <2>3. hd' = hd
    BY <1>2, <2>2 DEF Sends
  <2>4. Drops
    BY <1>1, <1>5, <2>1 DEF Stays, Drops, IsLight
  <2>5. QED
    BY <1>1, <1>2, <1>4, <1>5, <2>3, <2>4
<1>6. CASE IsWrite(queue[1]) /\ Benign(Rs(queue[1]), Cmd(queue[1]))
  <2> DEFINE w == queue[1]
             c == Cmd(w)
             rs == Rs(w)
  <2>1. /\ at \in 1 .. 6
        /\ at \in {1, 2, 4, 5} => hd' = hd
        /\ at = 3 => hd' = Latch(hd, rs, Hi)
        /\ at = 6 => hd' = Latch(hd, rs, Lo)
        /\ at < 6 => Stays
        /\ at = 6 => Drops
    BY <1>6, NibbleStep DEF Hi, Lo, FirstByte
  <2>2. /\ Hi \in 0 .. 15 /\ Lo \in 0 .. 15 /\ rs \in {0, 1}
        /\ c \in 0 .. 255 /\ c = 16 * Hi + Lo /\ Benign(rs, c)
    BY <1>6, NibblesOf DEF Hi, Lo
  <2>3. CASE at \in {1, 2, 4, 5}
    <3>1. at < 6
      BY <2>3
    <3>2. hd' = hd /\ Stays
      BY <2>1, <2>3, <3>1
    <3>3. QED
      BY <1>1, <1>2, <1>4, <3>2
  <2>4. CASE at = 3
    <3>1. IsNarrow(hd, NoHalf)
      BY <1>3, <2>4 DEF Paired
    <3>2. SameBut(hd', hd) /\ Stays
      BY <1>1, <2>1, <2>2, <2>4, <3>1, LatchFirst, SMTT(30)
    <3>3. QED
      BY <1>1, <1>2, <1>4, <3>2 DEF SameBut
  <2>5. CASE at = 6
    <3>1. hd' = Latch(hd, rs, Lo) /\ Drops
      BY <2>1, <2>5
    <3>2. IsNarrow(hd, Hi)
      BY <1>3, <2>5 DEF Paired
    <3> HIDE DEF w, c, rs, Hi, Lo
    <3>3. IsHd(hd) /\ Modes(hd)
      BY <1>1, <1>3
    <3>4. Does(hd', hd, rs, c)
      BY <2>2, <3>1, <3>2, <3>3, PairCall
    <3>5. QED
      BY <1>1, <1>2, <1>4, <1>6, <3>1, <3>4 DEF w, c, rs
  <2>6. at \in {1, 2, 4, 5} \/ at = 3 \/ at = 6
    BY <2>1
  <2>7. QED
    BY <2>3, <2>4, <2>5, <2>6, Zenon
<1>7. QED
  BY <1>1, <1>5, <1>6 DEF CallInv

LEMMA NextAddress ==
  ASSUME NEW b \in Ram, NEW m \in Nat, m > 1, InRow(b, m)
  PROVE  Step(b, TRUE) = b + 1 /\ InRow(b + 1, m - 1)
BY DEF Step, InRow, Ram

LEMMA RamNat == \A a \in Ram : a \in Nat
BY DEF Ram

(* A character is written: the others remain to be written.                *)
LEMMA RestStep ==
  ASSUME NEW q, NEW p, NEW b \in Ram, NEW ram \in [Ram -> 0 .. 255], NEW w,
         Len(q) \in Nat, Len(q) >= 1, Len(p) = Len(q) - 1,
         \A i \in 1 .. Len(p) : p[i] = q[i + 1],
         Rest(q, 1, b, ram, w)
  PROVE  LET g == Put(ram, b, Cmd(q[1])) IN
         /\ Len(q) > 1 => Rest(p, 1, Step(b, TRUE), g, w)
         /\ Len(q) = 1 => Agrees(g, w)
<1> DEFINE g == Put(ram, b, Cmd(q[1]))
           n == Len(q)
<1>1. \A a \in Ram : g[a] = IF a = b THEN Cmd(q[1]) ELSE ram[a]
  BY DEF Put
<1>2. /\ n \in Nat /\ n >= 1 /\ b \in Nat /\ Len(p) = n - 1
      /\ \A i \in 1 .. n - 1 : p[i] = q[i + 1]
  <2>1. b \in Nat
    BY RamNat
  <2>2. QED
    BY <2>1, Zenon
<1>3. /\ InRow(b, n + 1 - 1)
      /\ \A i \in 1 .. n : IsWrite(q[i]) /\ Rs(q[i]) = 1
      /\ \A cell \in Cells :
           IF Address(cell) \in b .. b + n - 1
           THEN w[cell] = Cmd(q[1 + (Address(cell) - b)])
           ELSE ram[Address(cell)] = w[cell]
  BY DEF Rest
<1> HIDE DEF g, n
<1>4. \A cell \in Cells : Address(cell) \in Ram /\ Address(cell) \in Nat
  BY AddressInRam, RamNat
<1>5. ASSUME NEW cell \in Cells, Address(cell) = b
      PROVE  g[Address(cell)] = w[cell]
  <2>1. Address(cell) \in b .. b + n - 1 /\ 1 + (Address(cell) - b) = 1
    BY <1>2, <1>5
  <2>2. w[cell] = Cmd(q[1])
    BY <1>3, <2>1
  <2>3. QED
    BY <1>1, <1>4, <1>5, <2>2
<1>6. ASSUME NEW cell \in Cells, Address(cell) \notin b .. b + n - 1
      PROVE  g[Address(cell)] = w[cell]
  <2>1. Address(cell) # b
    BY <1>2, <1>6
  <2>2. ram[Address(cell)] = w[cell]
    BY <1>3, <1>6
  <2>3. QED
    BY <1>1, <1>4, <2>1, <2>2
<1>7. ASSUME n = 1 PROVE Agrees(g, w)
  <2>1. \A cell \in Cells : Address(cell) = b
                            \/ Address(cell) \notin b .. b + n - 1
    BY <1>2, <1>4, <1>7
  <2>2. QED
    BY <1>5, <1>6, <2>1 DEF Agrees
<1>8. ASSUME n > 1 PROVE Rest(p, 1, Step(b, TRUE), g, w)
  <2>1. InRow(b, n) /\ n + 1 - 1 = n
    BY <1>2, <1>3
  <2>2. Step(b, TRUE) = b + 1 /\ InRow(b + 1, n - 1)
    BY <1>2, <1>8, <2>1, NextAddress
  <2>3. \A i \in 1 .. n - 1 : IsWrite(p[i]) /\ Rs(p[i]) = 1
    BY <1>2, <1>3
  <2>4. ASSUME NEW cell \in Cells
        PROVE  IF Address(cell) \in b + 1 .. b + 1 + (n - 1) - 1
               THEN w[cell] = Cmd(p[1 + (Address(cell) - (b + 1))])
               ELSE g[Address(cell)] = w[cell]
    <3> DEFINE a == Address(cell)
    <3>1. a \in Nat
      BY <1>4
    <3>2. CASE a \in b + 1 .. b + 1 + (n - 1) - 1
      <4> DEFINE i == 1 + (a - (b + 1))
      <4>1. i \in 1 .. n - 1 /\ 1 + (a - b) = i + 1 /\ a \in b .. b + n - 1
        BY <1>2, <3>1, <3>2, SMTT(30)
      <4>2. w[cell] = Cmd(q[1 + (a - b)])
        BY <1>3, <4>1
      <4> HIDE DEF i
      <4>3. p[i] = q[i + 1]
        BY <1>2, <4>1
      <4>4. w[cell] = Cmd(p[i])
        BY <4>1, <4>2, <4>3
      <4>5. QED
        BY <3>2, <4>4 DEF i
    <3>3. CASE a \notin b + 1 .. b + 1 + (n - 1) - 1
      <4>1. a = b \/ a \notin b .. b + n - 1
        BY <1>2, <3>1, <3>3
      <4>2. QED
        BY <1>5, <1>6, <3>3, <4>1
    <3>4. QED
      BY <3>2, <3>3
  <2>5. n - 1 + 1 - 1 = n - 1 /\ b + 1 + (n - 1) - 1 = b + 1 + (n - 1) - 1
    BY <1>2
  <2>6. QED
    BY <1>2, <2>2, <2>3, <2>4, <2>5 DEF Rest
<1>9. QED
  BY <1>2, <1>7, <1>8 DEF g, n

(* The position is set: all characters remain to be written.               *)
LEMMA RestAll ==
  ASSUME NEW q, NEW p, NEW b \in Ram, NEW ram, NEW w,
         Len(q) \in Nat, Len(q) >= 1, Len(p) = Len(q) - 1,
         \A i \in 1 .. Len(p) : p[i] = q[i + 1],
         Rest(q, 2, b, ram, w)
  PROVE  /\ Rest(p, 1, b, ram, w)
         /\ Len(q) = 1 => Agrees(ram, w)
<1> DEFINE n == Len(q)
<1>1. /\ n \in Nat /\ n >= 1 /\ b \in Nat /\ Len(p) = n - 1
      /\ \A i \in 1 .. n - 1 : p[i] = q[i + 1]
  <2>1. b \in Nat
    BY RamNat
  <2>2. QED
    BY <2>1, Zenon
<1>2. /\ InRow(b, n + 1 - 2)
      /\ \A i \in 2 .. n : IsWrite(q[i]) /\ Rs(q[i]) = 1
      /\ \A cell \in Cells :
           IF Address(cell) \in b .. b + n - 2
           THEN w[cell] = Cmd(q[2 + (Address(cell) - b)])
           ELSE ram[Address(cell)] = w[cell]
  BY DEF Rest
<1> HIDE DEF n
<1>3. \A cell \in Cells : Address(cell) \in Nat
  BY AddressInRam, RamNat
<1>4. \A i \in 1 .. n - 1 : IsWrite(p[i]) /\ Rs(p[i]) = 1
  <2>1. \A i \in 1 .. n - 1 : i + 1 \in 2 .. n
    BY <1>1
  <2>2. QED
    BY <1>1, <1>2, <2>1
<1>5. n + 1 - 2 = n - 1 + 1 - 1 /\ b + n - 2 = b + (n - 1) - 1
  BY <1>1
<1>6. ASSUME NEW cell \in Cells
      PROVE  IF Address(cell) \in b .. b + (n - 1) - 1
             THEN w[cell] = Cmd(p[1 + (Address(cell) - b)])
             ELSE ram[Address(cell)] = w[cell]
  <2> DEFINE a == Address(cell)
             i == 1 + (a - b)
  <2>1. CASE a \in b .. b + n - 2
    <3>1. i \in 1 .. n - 1 /\ 2 + (a - b) = i + 1
      BY <1>1, <1>3, <2>1
    <3>2. w[cell] = Cmd(q[2 + (a - b)])
      BY <1>2, <2>1
    <3> HIDE DEF i
    <3>3. w[cell] = Cmd(p[i])
      BY <1>1, <3>1, <3>2
    <3>4. QED
      BY <1>5, <2>1, <3>3 DEF i
  <2>2. CASE a \notin b .. b + n - 2
    BY <1>2, <1>5, <2>2
  <2>3. QED
    BY <2>1, <2>2
<1>7. Rest(p, 1, b, ram, w)
  BY <1>1, <1>2, <1>4, <1>5, <1>6 DEF Rest
<1>8. ASSUME n = 1 PROVE Agrees(ram, w)
  <2>1. \A cell \in Cells : Address(cell) \notin b .. b + n - 2
    BY <1>1, <1>3, <1>8
  <2>2. QED
    BY <1>2, <2>1 DEF Agrees
<1>9. QED
  BY <1>7, <1>8 DEF n

(* A byte of a call.                                                       *)
LEMMA ShowCall ==
  ASSUME TypeInv, BusInv, CallInv, SyncInv, ShowInv,
         i2cWriteByteDelayed, daemon = "call"
  PROVE  ShowInv'
<1> SUFFICES ASSUME ~garbled' PROVE ShowInv'
  BY DEF ShowInv
<1> DEFINE w == queue[1]
           n == Len(queue)
<1>1. /\ ~garbled /\ n \in Nat /\ n >= 1
      /\ hd.ac \in Ram /\ hd.ram \in [Ram -> 0 .. 255]
      /\ \/ Stays /\ hd'.ram = hd.ram /\ hd'.ac = hd.ac
         \/ IsLight(w) /\ Drops /\ hd'.ram = hd.ram
         \/ IsWrite(w) /\ Drops /\ Does(hd', hd, Rs(w), Cmd(w))
  BY CallByte
<1>2. /\ want' = want
      /\ \/ Dims(queue, hd.ram, want)
         \/ Wipes(queue, hd.ram, want)
         \/ Places(queue, hd.ram, want)
         \/ Rest(queue, 1, hd.ac, hd.ram, want)
  BY <1>1, ByteStep DEF ShowInv, TypeInv
<1>3. CASE Stays /\ hd'.ram = hd.ram /\ hd'.ac = hd.ac
  <2>1. queue' = queue /\ daemon' = "call"
    BY <1>3 DEF Stays
  <2>2. QED
    BY <1>2, <1>3, <2>1 DEF ShowInv
<1>4. Drops => /\ daemon' = IF n > 1 THEN "call" ELSE "idle"
               /\ Len(queue') = n - 1
               /\ \A i \in 1 .. Len(queue') : queue'[i] = queue[i + 1]
  BY DEF Drops
<1>5. n > 1 \/ n = 1
  <2>1. \A k \in Nat : k >= 1 => k > 1 \/ k = 1
    OBVIOUS
  <2>2. QED
    BY <1>1, <2>1, Zenon
<1>6. CASE IsLight(w) /\ Drops /\ hd'.ram = hd.ram
  <2>1. ~IsWrite(w)
    BY <1>6 DEF IsLight, IsWrite
  <2>2. ~Rest(queue, 1, hd.ac, hd.ram, want)
    <3>1. 1 \in 1 .. n
      BY <1>1
    <3>2. QED
      BY <2>1, <3>1 DEF Rest
  <2>3. n = 1 /\ Agrees(hd.ram, want)
    BY <1>2, <2>1, <2>2 DEF Wipes, Places, Dims
  <2>4. daemon' = "idle" /\ Agrees(hd'.ram, want')
    BY <1>2, <1>4, <1>6, <2>3
  <2>5. QED
    BY <2>4 DEF ShowInv
<1>7. CASE IsWrite(w) /\ Drops /\ Does(hd', hd, Rs(w), Cmd(w))
  <2>0. ~Dims(queue, hd.ram, want)
    BY <1>7 DEF Dims, IsLight, IsWrite
  <2>1. CASE Wipes(queue, hd.ram, want)
    <3>1. CASE n = 2
      <4>1. /\ want = Empty /\ Rs(w) = 0 /\ Cmd(w) = 1
            /\ IsWrite(queue[2]) /\ Rs(queue[2]) = 0 /\ Cmd(queue[2]) = 2
        BY <2>1, <3>1 DEF Wipes
      <4>2. hd'.ram = Cleared
        BY <1>7, <4>1 DEF Does
      <4>3. daemon' = "call" /\ Len(queue') = 1 /\ queue'[1] = queue[2]
        BY <1>4, <1>7, <3>1
      <4>4. Wipes(queue', hd'.ram, want')
        BY <1>2, <4>1, <4>2, <4>3, ClearedAgrees DEF Wipes
      <4>5. QED
        BY <4>3, <4>4 DEF ShowInv
    <3>2. CASE n = 1
      <4>1. Rs(w) = 0 /\ Cmd(w) # 1 /\ Agrees(hd.ram, want)
        BY <2>1, <3>2 DEF Wipes
      <4>2. hd'.ram = hd.ram /\ daemon' = "idle"
        BY <1>4, <1>7, <3>2, <4>1 DEF Does
      <4>3. QED
        BY <1>2, <4>1, <4>2 DEF ShowInv
    <3>3. QED
      BY <2>1, <3>1, <3>2 DEF Wipes
  <2>2. CASE Places(queue, hd.ram, want)
    <3> DEFINE b == Cmd(w) - 128
    <3>1. Rs(w) = 0 /\ b \in Ram /\ Rest(queue, 2, b, hd.ram, want)
      BY <2>2 DEF Places
    <3>2. Cmd(w) \in 0 .. 255
      BY <1>7, NibblesOf
    <3>3. Cmd(w) \in 128 .. 255 /\ Cmd(w) # 1
      BY <3>1, <3>2 DEF Ram
    <3>4. hd'.ram = hd.ram /\ hd'.ac = b
      BY <1>7, <3>1, <3>3 DEF Does
    <3> HIDE DEF b, n
    <3>5. /\ Rest(queue', 1, b, hd.ram, want)
          /\ n = 1 => Agrees(hd.ram, want)
      BY <1>1, <1>4, <1>7, <3>1, RestAll DEF n
    <3>6. QED
      <4>1. CASE n > 1
        BY <1>2, <1>4, <1>7, <3>4, <3>5, <4>1 DEF ShowInv
      <4>2. CASE n = 1
        BY <1>2, <1>4, <1>7, <3>4, <3>5, <4>2 DEF ShowInv
      <4>3. QED
        BY <1>5, <4>1, <4>2
  <2>3. CASE Rest(queue, 1, hd.ac, hd.ram, want)
    <3> DEFINE b == hd.ac
               g == Put(hd.ram, b, Cmd(w))
    <3>1. 1 \in 1 .. n
      BY <1>1
    <3>2. Rs(w) = 1
      BY <2>3, <3>1 DEF Rest
    <3>3. hd'.ram = g /\ hd'.ac = Step(b, TRUE)
      BY <1>7, <3>2 DEF Does
    <3> HIDE DEF n
    <3>4. /\ n > 1 => Rest(queue', 1, Step(b, TRUE), g, want)
          /\ n = 1 => Agrees(g, want)
      BY <1>1, <1>4, <1>7, <2>3, RestStep DEF n
    <3> HIDE DEF g, b
    <3>5. CASE n > 1
      BY <1>2, <1>4, <1>7, <3>3, <3>4, <3>5 DEF ShowInv
    <3>6. CASE n = 1
      BY <1>2, <1>4, <1>7, <3>3, <3>4, <3>6 DEF ShowInv
    <3>7. QED
      BY <1>5, <3>5, <3>6
  <2>4. QED
    BY <1>2, <2>0, <2>1, <2>2, <2>3
<1>8. QED
  BY <1>1, <1>3, <1>6, <1>7

(* The last byte of lcd_setup leaves the display cleared.                  *)
LEMMA ShowSetup ==
  ASSUME TypeInv, BusInv, SetupInv, SyncInv, ShowInv,
         i2cWriteByteDelayed, daemon = "setup"
  PROVE  ShowInv'
<1> SUFFICES ASSUME ~garbled' PROVE ShowInv'
  BY DEF ShowInv
<1>1. want' = want /\ (Stays \/ Drops)
  BY ByteStep DEF TypeInv
<1>2. /\ IsWrite(queue[1]) /\ Rs(queue[1]) = 0 /\ Len(queue) \in 1 .. 8
      /\ Hi \in 0 .. 15 /\ Lo \in 0 .. 15
      /\ SetupCodes(Len(queue), Hi, Lo)
  BY SetupNext
<1>3. /\ ~garbled /\ at \in 1 .. 6
      /\ at < 6 => Stays
      /\ at = 6 => hd' = Latch(hd, 0, Lo)
  BY <1>2, NibbleStep DEF Lo
<1>4. want = Empty /\ SetupSync(hd, Len(queue), at, Hi) /\ IsHd(hd)
  BY <1>3 DEF ShowInv, SyncInv, TypeInv, HdType
<1>5. daemon' \in {"setup", "idle"}
  BY <1>1 DEF Stays, Drops
<1>6. ASSUME daemon' = "idle" PROVE hd'.ram = Cleared
  <2>1. ~Stays /\ at = 6
    BY <1>3, <1>6 DEF Stays
  <2>2. Drops /\ ~(Len(queue) > 1)
    BY <1>1, <1>6, <2>1 DEF Drops
  <2>3. Len(queue) = 1
    BY <1>2, <2>2, SMTT(30)
  <2>4. LET g == Latch(hd, 0, Lo) IN g.ram = Cleared
    BY <1>2, <1>4, <2>1, <2>3, SetupSixth
  <2>5. QED
    BY <1>3, <2>1, <2>4
<1>7. QED
  BY <1>1, <1>4, <1>5, <1>6, ClearedAgrees DEF ShowInv

LEMMA ShowStep ==
  ASSUME Fits, StepInv, ShowInv, [Next]_lcdVars
  PROVE  ShowInv'
<1> USE DEF StepInv
<1>1. CASE UNCHANGED lcdVars
  BY <1>1 DEF lcdVars, ShowInv
<1>2. CASE \E text \in Texts, line, pos \in Typed : Prints(text, line, pos)
  BY <1>2, ShowPrint
<1>3. CASE Clears \/ \E state \in BOOLEAN : Lights(state)
  BY <1>3, ShowAsked
<1>4. CASE hal_init \/ hal_deinit \/ Kill
  BY <1>4 DEF hal_init, hal_deinit, Kill, ShowInv
<1>5. CASE i2cWriteByteDelayed /\ daemon \in {"setup", "call"}
  BY <1>5, ShowCall, ShowSetup
<1>6. CASE i2cWriteByteDelayed /\ daemon = "stop"
  BY <1>6, ByteStep DEF TypeInv, Stays, Drops, ShowInv
<1>7. i2cWriteByteDelayed => daemon \in {"setup", "call", "stop"}
  BY DEF i2cWriteByteDelayed, TypeInv, QueueInv
<1>8. QED
  BY <1>1, <1>2, <1>3, <1>4, <1>5, <1>6, <1>7, NextCases

LEMMA FitsPlaced == Fits => Placed
<1> SUFFICES ASSUME Fits, NEW line \in Typed, NEW pos \in Typed
             PROVE  PosCommand(line % 256, pos % 256) >= 128
  BY DEF Placed
<1>1. 0 \in Nat /\ 0 <= StrSize - 1
  BY LcdAssumption
<1>2. PosCommand(line % 256, pos % 256) - 128 \in Ram
  BY <1>1, TypedAddress
<1>3. line \in Int /\ pos \in Int
  BY DEF Fits
<1>4. PosCommand(line % 256, pos % 256) \in 0 .. 255
  BY <1>3, PosByte
<1>5. \A c \in 0 .. 255 : c - 128 \in Ram => c >= 128
  BY DEF Ram
<1>6. QED
  BY <1>2, <1>4, <1>5

(***************************************************************************)
(* From the command line to the cells: between two calls of a daemon none  *)
(* of whose I2C writes failed the display shows what mmlcdctl's commands   *)
(* since the start of that daemon asked for, and nothing else, wherever    *)
(* the daemons before it were killed, as long as every text that is asked  *)
(* for stays within the 40 cells of its row.                               *)
(***************************************************************************)
THEOREM CommandsShown ==
  ASSUME Fits
  PROVE  Spec => []ShowsWanted
<1>1. LcdInit => ShowInv
  BY DEF LcdInit, ShowInv
<1>2. Spec => []StepInv
  BY FitsPlaced, StepInvHolds
<1>3. StepInv /\ ShowInv /\ [Next]_lcdVars => ShowInv'
  BY ShowStep
<1>4. ShowInv => ShowsWanted
  BY DEF ShowInv, ShowsWanted, Settled, Agrees, Address, Cells
<1>5. QED
  BY <1>1, <1>2, <1>3, <1>4, PTL DEF Spec
=============================================================================
