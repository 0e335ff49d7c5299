------------------------------ MODULE Mmlcdctl ------------------------------
(***************************************************************************)
(* mmlcdctl (common/cli/src) on the device: a command line is parsed,      *)
(* turned into a library call (libmmlcd.c) and executed by the daemon's    *)
(* HAL.  want and lit follow the command lines, so that what LcdController *)
(* states about them is stated from the user's words to the cells.         *)
(*                                                                         *)
(* The way of a request through the daemon is MmlcdDaemon's subject; here  *)
(* a request is executed at once, or, without a daemon, not at all.        *)
(***************************************************************************)
EXTENDS LcdController, Integers

CONSTANTS
  Words,     \* what the user may type as the command
  Texts,     \* texts to print: sequences of character codes
  Switches,  \* what the user may type as the state of the backlight
  Numbers    \* numbers the user may type for line, column and button

ASSUME CtlAssumption ==
  /\ Texts \subseteq Seq(1 .. 255) /\ Numbers \subseteq Int

-----------------------------------------------------------------------------
cli_cmd_strings ==
  [print |-> {"print", "p"}, clear |-> {"clear", "c"},
   backlight |-> {"backlight", "bl"},
   get_btn_state |-> {"get_button_state", "gb"}]

(* The commands a word stands for: one, or none.                           *)
cli_string_to_cmd(word) ==
  {cmd \in DOMAIN cli_cmd_strings : word \in cli_cmd_strings[cmd]}

(* strncpy of at most so many characters.                                  *)
FirstChars(text, n) == SubSeq(text, 1, IF Len(text) < n THEN Len(text) ELSE n)

(* Mutant of Truncated: room for the terminator is kept twice.             *)
Truncated_TooShort(text) == FirstChars(text, StrSize - 2)

Truncated(text) == FirstChars(text, StrSize - 1)

(* Usage is printed and the exit code is CLI_RES_INVALID_ARGS.             *)
Rejects == UNCHANGED lcdVars

(* Lines 3 and 4 lie outside a display of two rows; any other number but 2 *)
(* stands for the first row.                                               *)
Row(line) == IF line \in 2 .. 4 THEN line ELSE 1

(* The display with a text that starts at a column of a line.              *)
Shown(text, line, pos) ==
  [cell \in Rows \X Columns |->
     IF cell[1] = Row(line) /\ cell[2] \in pos .. pos + Len(text) - 1
     THEN text[cell[2] - pos + 1] ELSE want[cell]]

(* The request for a text at a line and a column that were typed; both are *)
(* cut to eight bits.                                                      *)
liblcd_display_string_pos(text, line, pos) ==
  /\ hal_lcd_display_string_pos(Truncated(text), line % 256, pos % 256)
  /\ want' = Shown(text, line, pos)
  /\ UNCHANGED lit

(* Line and column are 0 when they are not given.                          *)
cli_handle_cmd_print(argc) ==
  IF argc < 3 THEN Rejects
  ELSE \E text \in Texts, n1, n2 \in Numbers :
         liblcd_display_string_pos(text, IF argc >= 4 THEN n1 ELSE 0,
                                   IF argc >= 5 THEN n2 ELSE 0)

cli_handle_cmd_clear ==
  hal_lcd_clear /\ want' = Empty /\ UNCHANGED lit

cli_handle_cmd_backlight(argc) ==
  IF argc < 3 THEN Rejects
  ELSE \E switch \in Switches :
         \/ /\ switch \in {"on", "1", "off", "0"}
            /\ hal_lcd_backlight(switch \in {"on", "1"})
            /\ lit' = (switch \in {"on", "1"})
            /\ UNCHANGED want
         \/ switch \notin {"on", "1", "off", "0"} /\ Rejects

(* The index is unsigned: button 0 becomes a huge one and is rejected with *)
(* those above 3.  The HAL only reads a pin, the display is left alone.    *)
cli_handle_get_button_state(argc) ==
  IF argc < 3 THEN Rejects
  ELSE \E n \in Numbers :
         \/ n - 1 \in 0 .. 2 /\ daemon = "idle" /\ UNCHANGED lcdVars
         \/ n - 1 \notin 0 .. 2 /\ Rejects

cli_parse(argc, word) ==
  \/ (argc < 2 \/ cli_string_to_cmd(word) = {}) /\ Rejects
  \/ /\ argc >= 2
     /\ \E cmd \in cli_string_to_cmd(word) :
          \/ cmd = "print" /\ cli_handle_cmd_print(argc)
          \/ cmd = "clear" /\ cli_handle_cmd_clear
          \/ cmd = "backlight" /\ cli_handle_cmd_backlight(argc)
          \/ cmd = "get_btn_state" /\ cli_handle_get_button_state(argc)

(* Without a daemon that listens liblcd_init fails and nothing is sent.    *)
main ==
  /\ daemon \in {"idle", "call"}
  /\ \E argc \in 1 .. 5, word \in Words : cli_parse(argc, word)

Next == main \/ Device

Spec == LcdInit /\ [][Next]_lcdVars
=============================================================================
