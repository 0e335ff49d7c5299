---------------------------- MODULE MmlcdDriver -----------------------------
(***************************************************************************)
(* The mmlcd kernel module on the USB host (host/src): binding to devices, *)
(* the /dev/mmlcd<minor> files that commands are written to, the           *)
(* /proc/mmlcd<minor>_btn<n>_state files that button states are read from, *)
(* and the interrupt URB that delivers button events.                      *)
(*                                                                         *)
(* Every successful mmlcd_create_ctx yields a new context, named by the    *)
(* number of the probe; a freed context is never live again, so a handler  *)
(* that uses one is recorded even if the allocator has handed its memory   *)
(* out again.  The steps of the USB core and of procfs that the module     *)
(* relies on (minor numbers, killing URBs before disconnect, proc_remove   *)
(* ending all use of an entry) are modelled from how src/ uses them.       *)
(***************************************************************************)
EXTENDS Naturals, Sequences

CONSTANTS
  Devs,       \* displays that can be plugged in
  Files,      \* open files user space can hold at a time
  BtnCount,   \* liblcd_ipc_btn_count
  Minors,     \* how many minor numbers the USB core has left
  MaxProbes,  \* bound: contexts created
  Fails,      \* what may fail: "ctx", "submit", "resubmit", "proc", "transfer"
  Unpluggable,\* displays that may be unplugged
  Unload      \* may the module be unloaded?

ASSUME DriverAssumption ==
  /\ BtnCount \in Nat \ {0} /\ Minors \in Nat \ {0} /\ MaxProbes \in Nat
  /\ Fails \subseteq {"ctx", "submit", "resubmit", "proc", "transfer"}
  /\ Unpluggable \subseteq Devs /\ Unload \in BOOLEAN

Btns    == 0 .. BtnCount - 1
States  == {"released", "pressed"}
Ctxs    == 1 .. MaxProbes
NoCtx   == 0
NoMinor == Minors

VARIABLES
  loaded,    \* the module is registered with the USB core
  plugged,   \* displays on the bus
  phase,     \* where each display's probe or disconnect has got to
  nproc,     \* loop index of mmlcd_proc_init
  intfdata,  \* usb_set_intfdata: each interface's context
  minor,     \* interface->minor
  probes,    \* contexts created so far
  devOf,     \* ctx->dev
  live,      \* contexts allocated and not freed
  submitted, \* contexts whose interrupt URB the USB core holds
  last_btn_state, \* ctx->last_btn_state
  proc,      \* entries in /proc: <<minor, button>>
  file,      \* open files
  out,       \* the file whose command each display received last
  val,       \* what the last read of a file returned
  kept,      \* files whose display has been bound ever since they were opened
  stale,     \* handlers that have used a freed context
  reported   \* last event of each button since the display was bound

devVars  == <<phase, nproc, intfdata, minor>>
ctxVars  == <<probes, devOf, live, submitted, last_btn_state>>
fileVars == <<file, out, val, kept>>
vars == <<loaded, plugged, phase, nproc, intfdata, minor, probes, devOf,
          live, submitted, last_btn_state, proc, file, out, val, kept, stale,
          reported>>

Closed == [kind |-> "closed"]
Opened ==
  [kind : {"dev"}, minor : 0 .. Minors - 1, dev : Devs, ctx : Ctxs]
    \cup [kind : {"opening", "proc"}, entry : (0 .. Minors - 1) \X Btns,
          ctx : Ctxs]

Phases == {"none", "failed", "created", "registered", "proc", "bound",
           "disabled", "unlisted", "deregistered"}

TypeOK ==
  /\ loaded \in BOOLEAN
  /\ plugged \in SUBSET Devs
  /\ phase \in [Devs -> Phases]
  /\ nproc \in [Devs -> 0 .. BtnCount]
  /\ intfdata \in [Devs -> Ctxs \cup {NoCtx}]
  /\ minor \in [Devs -> 0 .. NoMinor]
  /\ probes \in 0 .. MaxProbes
  /\ devOf \in [1 .. probes -> Devs]
  /\ live \in SUBSET Ctxs /\ submitted \in SUBSET Ctxs
  /\ last_btn_state \in [Ctxs -> [Btns -> States]]
  /\ proc \in SUBSET ((0 .. Minors - 1) \X Btns)
  /\ file \in [Files -> Opened \cup {Closed}]
  /\ out \in [Devs -> Files \cup {"none"}]
  /\ val \in [Files -> States \cup {"none"}]
  /\ kept \in SUBSET Files
  /\ stale \in SUBSET {"dev_write", "proc_read", "irq"}
  /\ reported \in [Devs -> [Btns -> States \cup {"none"}]]

Init ==
  /\ loaded = FALSE
  /\ plugged = {}
  /\ phase = [d \in Devs |-> "none"]
  /\ nproc = [d \in Devs |-> 0]
  /\ intfdata = [d \in Devs |-> NoCtx]
  /\ minor = [d \in Devs |-> NoMinor]
  /\ probes = 0 /\ devOf = <<>> /\ live = {} /\ submitted = {}
  /\ last_btn_state = [c \in Ctxs |-> [b \in Btns |-> "released"]]
  /\ proc = {}
  /\ file = [f \in Files |-> Closed]
  /\ out = [d \in Devs |-> "none"]
  /\ val = [f \in Files |-> "none"]
  /\ kept = {} /\ stale = {}
  /\ reported = [d \in Devs |-> [b \in Btns |-> "none"]]

-----------------------------------------------------------------------------
(* The bus and the module.                                                 *)

CtxsOf(d) == {c \in 1 .. probes : devOf[c] = d}

Plug(d) ==
  /\ d \notin plugged /\ phase[d] = "none"
  /\ plugged' = plugged \cup {d}
  /\ UNCHANGED <<loaded, devVars, ctxVars, proc, fileVars, stale, reported>>

(* A display whose probe failed is not disconnected by the module; the USB *)
(* core kills the URBs that are left on its endpoints.                     *)
Unplug(d) ==
  /\ d \in plugged \cap Unpluggable
  /\ plugged' = plugged \ {d}
  /\ phase' = [phase EXCEPT ![d] = IF @ = "failed" THEN "none" ELSE @]
  /\ submitted' = IF phase[d] = "failed"
                  THEN submitted \ CtxsOf(d) ELSE submitted
  /\ kept' = {f \in kept : file[f].dev # d}
  /\ UNCHANGED <<loaded, nproc, intfdata, minor, probes, devOf, live,
                 last_btn_state, proc, file, out, val, stale, reported>>

(* usb_register: displays that are already there are probed.               *)
mmlcd_init ==
  /\ ~loaded /\ \A d \in Devs : phase[d] \in {"none", "failed"}
  /\ loaded' = TRUE
  /\ phase' = [d \in Devs |-> "none"]
  /\ UNCHANGED <<plugged, nproc, intfdata, minor, ctxVars, proc, fileVars,
                 stale, reported>>

(* usb_deregister: from here on every bound display is disconnected.       *)
mmlcd_cleanup ==
  /\ loaded /\ Unload
  /\ loaded' = FALSE
  /\ kept' = {}
  /\ UNCHANGED <<plugged, devVars, ctxVars, proc, file, out, val, stale,
                 reported>>

-----------------------------------------------------------------------------
(* mmlcd_probe, one action per step that another actor can see.            *)

(* Mutant of mmlcd_destroy_ctx: the context is not freed.                  *)
mmlcd_destroy_ctx_Leaks(d) == UNCHANGED live

mmlcd_destroy_ctx(d) == live' = live \ {intfdata[d]}

(***************************************************************************)
(* An error return of mmlcd_probe after the context was created: the minor *)
(* number is given back and the context freed.  The URB, if it was         *)
(* submitted, stays with the USB core, and proc entries stay in /proc.     *)
(***************************************************************************)
ProbeFails(d) ==
  /\ phase' = [phase EXCEPT ![d] = "failed"]
  /\ minor' = [minor EXCEPT ![d] = NoMinor]
  /\ intfdata' = [intfdata EXCEPT ![d] = NoCtx]
  /\ mmlcd_destroy_ctx(d)

(* mmlcd_create_ctx and usb_set_intfdata.                                  *)
mmlcd_create_ctx(d) ==
  /\ loaded /\ d \in plugged /\ phase[d] = "none"
  /\ \/ /\ probes < MaxProbes
        /\ probes' = probes + 1
        /\ devOf' = Append(devOf, d)
        /\ live' = live \cup {probes'}
        /\ intfdata' = [intfdata EXCEPT ![d] = probes']
        /\ phase' = [phase EXCEPT ![d] = "created"]
     \/ /\ "ctx" \in Fails
        /\ phase' = [phase EXCEPT ![d] = "failed"]
        /\ UNCHANGED <<probes, devOf, live, intfdata>>
  /\ UNCHANGED <<loaded, plugged, nproc, minor, submitted, last_btn_state,
                 proc, fileVars, stale, reported>>

FreeMinors == {m \in 0 .. Minors - 1 : \A d \in Devs : minor[d] # m}

(* usb_register_dev takes the lowest free minor, or fails without one.     *)
usb_register_dev(d) ==
  /\ phase[d] = "created"
  /\ \/ /\ \E m \in FreeMinors :
             /\ \A other \in FreeMinors : m <= other
             /\ minor' = [minor EXCEPT ![d] = m]
        /\ phase' = [phase EXCEPT ![d] = "registered"]
        /\ UNCHANGED <<live, intfdata>>
     \/ FreeMinors = {} /\ ProbeFails(d)
  /\ UNCHANGED <<loaded, plugged, nproc, probes, devOf, submitted,
                 last_btn_state, proc, fileVars, stale, reported>>

usb_submit_urb(d) ==
  /\ phase[d] = "registered"
  /\ \/ /\ submitted' = submitted \cup {intfdata[d]}
        /\ phase' = [phase EXCEPT ![d] = "proc"]
        /\ nproc' = [nproc EXCEPT ![d] = 0]
        /\ UNCHANGED <<minor, live, intfdata>>
     \/ /\ "submit" \in Fails
        /\ ProbeFails(d)
        /\ UNCHANGED <<submitted, nproc>>
  /\ UNCHANGED <<loaded, plugged, probes, devOf, last_btn_state, proc,
                 fileVars, stale, reported>>

(* Mutant of MoreButtons: the loop runs once too often.                    *)
MoreButtons_TooMany(d) == nproc[d] <= BtnCount

MoreButtons(d) == nproc[d] < BtnCount

(***************************************************************************)
(* One round of mmlcd_proc_init's loop, or its end.  proc_create fails for *)
(* want of memory or because the name exists.                              *)
(***************************************************************************)
mmlcd_proc_init(d) ==
  /\ phase[d] = "proc"
  /\ LET b == nproc[d] IN
     \/ /\ MoreButtons(d) /\ <<minor[d], b>> \notin proc
        /\ proc' = proc \cup {<<minor[d], b>>}
        /\ last_btn_state' =
             [last_btn_state EXCEPT ![intfdata[d]][b] = "released"]
        /\ nproc' = [nproc EXCEPT ![d] = b + 1]
        /\ UNCHANGED <<phase, minor, live, intfdata>>
     \/ /\ MoreButtons(d) /\ ("proc" \in Fails \/ <<minor[d], b>> \in proc)
        /\ ProbeFails(d)
        /\ UNCHANGED <<proc, last_btn_state, nproc>>
     \/ /\ ~MoreButtons(d)
        /\ phase' = [phase EXCEPT ![d] = "bound"]
        /\ UNCHANGED <<proc, last_btn_state, nproc, minor, live, intfdata>>
  /\ UNCHANGED <<loaded, plugged, probes, devOf, submitted, fileVars,
                 stale, reported>>

-----------------------------------------------------------------------------
(* mmlcd_disconnect, when a bound display leaves or the module is unloaded *)

(* Before it calls mmlcd_disconnect the USB core kills the interface's     *)
(* URBs; mmlcd_proc_int_in_irq returns on -ESHUTDOWN.                      *)
usb_disable_interface(d) ==
  /\ phase[d] = "bound" /\ (d \notin plugged \/ ~loaded)
  /\ submitted' = submitted \ CtxsOf(d)
  /\ phase' = [phase EXCEPT ![d] = "disabled"]
  /\ reported' = [reported EXCEPT ![d] = [b \in Btns |-> "none"]]
  /\ UNCHANGED <<loaded, plugged, nproc, intfdata, minor, probes, devOf, live,
                 last_btn_state, proc, fileVars, stale>>

(***************************************************************************)
(* proc_remove of the given entries: it waits for the calls on them that   *)
(* are in progress, such as an open, and releases the files open on them.  *)
(***************************************************************************)
proc_remove(gone) ==
  /\ \A f \in Files : ~(file[f].kind = "opening" /\ file[f].entry \in gone)
  /\ proc' = proc \ gone
  /\ file' = [f \in Files |->
                IF file[f].kind = "proc" /\ file[f].entry \in gone
                THEN Closed ELSE file[f]]

(* Mutant of mmlcd_proc_deinit: the loop stops one button short.           *)
mmlcd_proc_deinit_StopsShort(d) ==
  /\ phase[d] = "disabled"
  /\ phase' = [phase EXCEPT ![d] = "unlisted"]
  /\ proc_remove({<<minor[d], b>> : b \in 0 .. BtnCount - 2})
  /\ UNCHANGED <<loaded, plugged, nproc, intfdata, minor, ctxVars, out, val,
                 kept, stale, reported>>

mmlcd_proc_deinit(d) ==
  /\ phase[d] = "disabled"
  /\ phase' = [phase EXCEPT ![d] = "unlisted"]
  /\ proc_remove({minor[d]} \X Btns)
  /\ UNCHANGED <<loaded, plugged, nproc, intfdata, minor, ctxVars, out, val,
                 kept, stale, reported>>

(* Mutant of usb_deregister_dev: the minor number is given back only       *)
(* after the context was freed.                                            *)
usb_deregister_dev_AfterFree(d) ==
  /\ phase[d] = "unlisted"
  /\ phase' = [phase EXCEPT ![d] = "deregistered"]
  /\ mmlcd_destroy_ctx(d)
  /\ UNCHANGED <<loaded, plugged, nproc, intfdata, minor, probes, devOf,
                 submitted, last_btn_state, proc, fileVars, stale, reported>>

usb_deregister_dev(d) ==
  /\ phase[d] = "unlisted"
  /\ minor' = [minor EXCEPT ![d] = NoMinor]
  /\ phase' = [phase EXCEPT ![d] = "deregistered"]
  /\ UNCHANGED <<loaded, plugged, nproc, intfdata, ctxVars, proc, fileVars,
                 stale, reported>>

(* The context is freed; nothing clears the private_data of open files.    *)
mmlcd_disconnect(d) ==
  /\ phase[d] = "deregistered"
  /\ mmlcd_destroy_ctx(d)
  /\ minor' = [minor EXCEPT ![d] = NoMinor]
  /\ phase' = [phase EXCEPT ![d] = "none"]
  /\ intfdata' = [intfdata EXCEPT ![d] = NoCtx]
  /\ UNCHANGED <<loaded, plugged, nproc, probes, devOf, submitted,
                 last_btn_state, proc, fileVars, stale, reported>>

-----------------------------------------------------------------------------
(* Interrupts and files.                                                   *)

StoreEvent(c, b, s) ==
  last_btn_state' = [last_btn_state EXCEPT ![c][b] = s]

(***************************************************************************)
(* mmlcd_proc_int_in_irq for the URB of context c: the event is stored, or *)
(* the transfer failed; either way the URB is submitted again, which may   *)
(* itself fail.                                                            *)
(***************************************************************************)
mmlcd_proc_int_in_irq(c, b, s) ==
  LET d == devOf[c] IN
  /\ c \in submitted /\ d \in plugged
  /\ \/ /\ c \in live
        /\ StoreEvent(c, b, s)
        /\ reported' = IF phase[d] = "bound"
                       THEN [reported EXCEPT ![d][b] = s] ELSE reported
        /\ UNCHANGED stale
     \/ /\ c \notin live
        /\ stale' = stale \cup {"irq"}
        /\ UNCHANGED <<last_btn_state, reported>>
     \/ /\ "transfer" \in Fails
        /\ UNCHANGED <<last_btn_state, reported, stale>>
  /\ \/ UNCHANGED submitted
     \/ "resubmit" \in Fails /\ submitted' = submitted \ {c}
  /\ UNCHANGED <<loaded, plugged, devVars, probes, devOf, live, proc,
                 fileVars>>

(* The interface with a given minor number: none or one.                   *)
ByMinor(m) == {d \in Devs : minor[d] = m}

Bound(d) == phase[d] = "bound" /\ d \in plugged /\ loaded

(* Mutant of dev_open: the minor number is always 0, as in a proc file.    *)
dev_open_Minor0(f, m) ==
  /\ file[f] = Closed
  /\ \E d \in ByMinor(m), e \in ByMinor(0) :
       /\ file' = [file EXCEPT ![f] = [kind |-> "dev", minor |-> m, dev |-> d,
                                       ctx |-> intfdata[e]]]
       /\ kept' = IF Bound(d) THEN kept \cup {f} ELSE kept
  /\ UNCHANGED <<loaded, plugged, devVars, ctxVars, proc, out, val, stale,
                 reported>>

(***************************************************************************)
(* The look-up and the store of dev_open are one step: the USB core calls  *)
(* it under the lock that usb_deregister_dev takes to give the minor       *)
(* number back.                                                            *)
(***************************************************************************)
dev_open(f, m) ==
  /\ file[f] = Closed
  /\ \E d \in ByMinor(m) :
       /\ file' = [file EXCEPT ![f] = [kind |-> "dev", minor |-> m, dev |-> d,
                                       ctx |-> intfdata[d]]]
       /\ kept' = IF Bound(d) THEN kept \cup {f} ELSE kept
  /\ UNCHANGED <<loaded, plugged, devVars, ctxVars, proc, out, val, stale,
                 reported>>

(***************************************************************************)
(* mmlcd_get_ctx_by_inode for a proc file: its inode is no device node, so *)
(* iminor is 0 whatever the file.                                          *)
(***************************************************************************)
ProcMinor(entry) == 0

(***************************************************************************)
(* mmlcd_proc_open looks the context up here and stores it in the next     *)
(* action; in between nothing but proc_remove of the entry itself waits,   *)
(* and the display whose context was found may be another one.  (An        *)
(* interface that leaves between usb_find_interface and usb_get_intfdata   *)
(* gives a freed context too, or none, which is an open that fails.)       *)
(***************************************************************************)
mmlcd_proc_open(f, entry) ==
  /\ file[f] = Closed /\ entry \in proc
  /\ \E d \in ByMinor(ProcMinor(entry)) :
       file' = [file EXCEPT ![f] = [kind |-> "opening", entry |-> entry,
                                    ctx |-> intfdata[d]]]
  /\ UNCHANGED <<loaded, plugged, devVars, ctxVars, proc, out, val, kept,
                 stale, reported>>

mmlcd_proc_open_store(f) ==
  /\ file[f].kind = "opening"
  /\ file' = [file EXCEPT ![f].kind = "proc"]
  /\ UNCHANGED <<loaded, plugged, devVars, ctxVars, proc, out, val, kept,
                 stale, reported>>

(* dev_release and mmlcd_proc_release.                                     *)
dev_release(f) ==
  /\ file[f].kind \in {"dev", "proc"}
  /\ file' = [file EXCEPT ![f] = Closed]
  /\ val' = [val EXCEPT ![f] = "none"]
  /\ kept' = kept \ {f}
  /\ UNCHANGED <<loaded, plugged, devVars, ctxVars, proc, out, stale,
                 reported>>

(* The command of file f goes to the device of context c.                  *)
Sends(f, c) == devOf[c] \in plugged /\ out' = [out EXCEPT ![devOf[c]] = f]

(***************************************************************************)
(* dev_write: a bulk transfer to the context's device, which fails if the  *)
(* device is no longer there.  The memory of a freed context may be the    *)
(* context of any display by now, which then receives the command.         *)
(***************************************************************************)
dev_write(f) ==
  /\ file[f].kind = "dev"
  /\ \/ /\ file[f].ctx \in live
        /\ Sends(f, file[f].ctx)
        /\ UNCHANGED stale
     \/ /\ file[f].ctx \notin live
        /\ stale' = stale \cup {"dev_write"}
        /\ UNCHANGED out \/ \E c \in live : Sends(f, c)
  /\ UNCHANGED <<loaded, plugged, devVars, ctxVars, proc, file, val, kept,
                 reported>>

(* Mutant of mmlcd_get_btn_idx_by_file: only the button is compared.       *)
mmlcd_get_btn_idx_by_file_AnyMinor(d, entry) ==
  {b \in Btns : b = entry[2]}

(* The button whose name for the context's interface is the file's name;   *)
(* no button if the file belongs to another interface.                     *)
mmlcd_get_btn_idx_by_file(d, entry) ==
  {b \in Btns : <<minor[d], b>> = entry}

(* mmlcd_proc_read; without a button it returns end of file.               *)
mmlcd_proc_read(f) ==
  /\ file[f].kind = "proc"
  /\ LET c == file[f].ctx IN
     \/ /\ c \in live
        /\ \E b \in mmlcd_get_btn_idx_by_file(devOf[c], file[f].entry) :
             val' = [val EXCEPT ![f] = last_btn_state[c][b]]
        /\ UNCHANGED stale
     \/ /\ c \notin live
        /\ stale' = stale \cup {"proc_read"}
        /\ \E v \in States : val' = [val EXCEPT ![f] = v]
  /\ UNCHANGED <<loaded, plugged, devVars, ctxVars, proc, file, out, kept,
                 reported>>

-----------------------------------------------------------------------------
Probe(d) ==
  \/ mmlcd_create_ctx(d) \/ usb_register_dev(d)
  \/ usb_submit_urb(d) \/ mmlcd_proc_init(d)

Disconnect(d) ==
  \/ usb_disable_interface(d) \/ mmlcd_proc_deinit(d)
  \/ usb_deregister_dev(d) \/ mmlcd_disconnect(d)

User(f) ==
  \/ \E m \in 0 .. Minors - 1 : dev_open(f, m)
  \/ \E entry \in proc : mmlcd_proc_open(f, entry)
  \/ mmlcd_proc_open_store(f)
  \/ dev_release(f) \/ dev_write(f) \/ mmlcd_proc_read(f)

Next ==
  \/ mmlcd_init \/ mmlcd_cleanup
  \/ \E d \in Devs : Plug(d) \/ Unplug(d) \/ Probe(d) \/ Disconnect(d)
  \/ \E c \in 1 .. probes, b \in Btns, s \in States :
       mmlcd_proc_int_in_irq(c, b, s)
  \/ \E f \in Files : User(f)

Spec == Init /\ [][Next]_vars

-----------------------------------------------------------------------------
(* Properties.                                                             *)

(***************************************************************************)
(* mmlcd_proc_read and mmlcd_proc_int_in_irq never use a context that was  *)
(* freed: mmlcd_disconnect removes the proc entries before it frees the    *)
(* context, and the USB core has killed the URB by then.                   *)
(***************************************************************************)
ContextsOutliveUse == stale \cap {"proc_read", "irq"} = {}

(***************************************************************************)
(* What dev_open, and mmlcd_proc_open of a file of minor number 0, store   *)
(* in the file is a context that is alive at that moment, also while a     *)
(* probe fails, a disconnect is half done, or the display whose context    *)
(* mmlcd_proc_open has found leaves before it is stored: mmlcd_proc_deinit *)
(* waits for that open.  A proc file of another display gets the context   *)
(* of minor number 0 as well, and nothing waits for its open.              *)
(***************************************************************************)
OpenedLive ==
  [][\A f \in Files :
       /\ file'[f] # file[f]
       /\ \/ file'[f].kind = "dev"
          \/ file'[f].kind = "proc" /\ file'[f].entry[1] = 0
       => file'[f].ctx \in live']_vars

(***************************************************************************)
(* A command written to a file reaches the display the file was opened on, *)
(* and no other, as long as that display stays bound, whatever other       *)
(* displays do meanwhile.  (Once it has left, the freed context may be the *)
(* next display's: see NoStaleWrite.)                                      *)
(***************************************************************************)
WriteReachesOpened ==
  [][\A d \in Devs : out'[d] # out[d] /\ out'[d] \in kept =>
       file[out'[d]].dev = d]_vars

(***************************************************************************)
(* A read of /proc/mmlcd<m>_btn<n>_state that finds its context alive and  *)
(* returns a state returns that of button n of the display with minor      *)
(* number m, although every such file is opened with the context of minor  *)
(* number 0.                                                               *)
(***************************************************************************)
ReadsOwnDevice ==
  [][\A f \in Files :
       val'[f] \notin {val[f], "none"} /\ file[f].ctx \in live =>
         \E d \in ByMinor(file[f].entry[1]) :
           val'[f] = last_btn_state[intfdata[d]][file[f].entry[2]]]_vars

(***************************************************************************)
(* A display that is not bound, be it after a disconnect or after any of   *)
(* the error returns of mmlcd_probe, holds neither a minor number nor a    *)
(* context.                                                                *)
(***************************************************************************)
UnboundHoldsNothing ==
  \A d \in Devs : phase[d] \in {"none", "failed"} =>
    minor[d] = NoMinor /\ CtxsOf(d) \cap live = {}

(***************************************************************************)
(* A proc entry belongs to a display that has its minor number; one left   *)
(* behind would make mmlcd_proc_init fail for the next display that gets   *)
(* the number.                                                             *)
(***************************************************************************)
ProcEntriesOwned == \A entry \in proc : ByMinor(entry[1]) # {}

(***************************************************************************)
(* dev_write does not use a freed context: it has a branch for a context   *)
(* that is missing, "Unable to send data - private context is missing".    *)
(***************************************************************************)
NoStaleWrite == "dev_write" \notin stale
=============================================================================
