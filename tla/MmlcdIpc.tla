------------------------------ MODULE MmlcdIpc ------------------------------
(***************************************************************************)
(* The request format shared by libmmlcd, the mmlcd daemon and the host    *)
(* kernel module (common/lib/inc/libmmlcd_ipc.h).  A request is a header   *)
(* (address, command) that is followed, for three of the four commands, by *)
(* a parameter block.  The bytes are abstracted: the parameter block is    *)
(* one number, 0 standing for the all-zero block the daemon starts from    *)
(* (empty string on line 0 column 0, backlight off, button index 0).       *)
(***************************************************************************)
EXTENDS Naturals

CONSTANTS
  Args,       \* parameter blocks in use; a button index for get_btn_state
  BtnCount    \* liblcd_ipc_btn_count

ASSUME ArgsAssumption == Args \subseteq Nat /\ 0 \in Args
ASSUME BtnAssumption  == BtnCount \in Nat \ {0}

(* liblcd_ipc_cmd; every value from liblcd_ipc_cmd_count on is "invalid".  *)
Cmds == {"print", "clear", "backlight", "get_btn_state"}

AnyCmd == Cmds \cup {"invalid"}

(* The commands whose request structure has a params member.               *)
HasParams(cmd) == cmd \in {"print", "backlight", "get_btn_state"}

Reqs == {r \in [cmd : AnyCmd, arg : Args] : HasParams(r.cmd) \/ r.arg = 0}

(* The request the daemon acts on when no parameter byte arrived.          *)
Zeroed(r) == [r EXCEPT !.arg = 0]

(***************************************************************************)
(* A request as it sits in the socket.  A writer that is killed between    *)
(* two write calls leaves a request that is cut off for good: in the       *)
(* header, just after it, or in the parameter block.                       *)
(***************************************************************************)
CutPoints == {"mid_head", "no_params", "mid_params"}

Wire == [req : Reqs, cut : CutPoints \cup {"none"}]
=============================================================================
