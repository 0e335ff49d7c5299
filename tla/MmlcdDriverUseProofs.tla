------------------------ MODULE MmlcdDriverUseProofs ------------------------
(***************************************************************************)
(* Proofs about how open files and interrupts use the contexts of the      *)
(* mmlcd kernel module, on top of MmlcdDriverProofs, which shows that a    *)
(* display's context and minor number are its own.                         *)
(***************************************************************************)
EXTENDS MmlcdDriverProofs

USE DEF devVars, ctxVars, fileVars

-----------------------------------------------------------------------------
(* Which steps touch which variables.                                      *)

(* Files are opened and closed by user space, and closed by proc_remove.   *)
LEMMA FileFrame ==
  ASSUME [Next]_vars
  PROVE  \/ UNCHANGED <<file, out, val>>
         \/ \E f \in Files : User(f)
         \/ \E d \in Devs : mmlcd_proc_deinit(d)
BY DEF Next, vars, mmlcd_init, mmlcd_cleanup, Plug, Unplug, Probe,
       mmlcd_create_ctx, usb_register_dev, usb_submit_urb, mmlcd_proc_init,
       Disconnect, usb_disable_interface, usb_deregister_dev,
       mmlcd_disconnect, mmlcd_proc_int_in_irq

(* The files of displays that have stayed bound.                           *)
LEMMA KeptFrame ==
  ASSUME [Next]_vars
  PROVE  \/ UNCHANGED kept
         \/ mmlcd_cleanup
         \/ \E d \in Devs : Unplug(d)
         \/ \E f \in Files : User(f)
BY DEF Next, vars, mmlcd_init, Plug, Probe, mmlcd_create_ctx,
       usb_register_dev, usb_submit_urb, mmlcd_proc_init, Disconnect,
       usb_disable_interface, mmlcd_proc_deinit, usb_deregister_dev,
       mmlcd_disconnect, mmlcd_proc_int_in_irq

(* Contexts are only added.                                                *)
LEMMA CtxFrame ==
  ASSUME [Next]_vars
  PROVE  UNCHANGED <<probes, devOf>> \/ \E d \in Devs : mmlcd_create_ctx(d)
<1>1. ASSUME NEW f \in Files, User(f)
      PROVE  UNCHANGED <<probes, devOf>>
  BY <1>1, UserFrame
<1>2. QED
  BY <1>1 DEF Next, vars, mmlcd_init, mmlcd_cleanup, Plug, Unplug, Probe,
       usb_register_dev, usb_submit_urb, mmlcd_proc_init, Disconnect,
       usb_disable_interface, mmlcd_proc_deinit, usb_deregister_dev,
       mmlcd_disconnect, mmlcd_proc_int_in_irq

LEMMA ContextsKept ==
  ASSUME CtxInv, [Next]_vars
  PROVE  /\ 1 .. probes \subseteq 1 .. probes'
         /\ \A c \in 1 .. probes : devOf'[c] = devOf[c]
<1>1. probes \in Nat /\ devOf \in Seq(Devs) /\ Len(devOf) = probes
  BY DEF CtxInv, CtxType
<1>2. CASE UNCHANGED <<probes, devOf>>
  BY <1>2
<1>3. ASSUME NEW d \in Devs, probes' = probes + 1,
             devOf' = Append(devOf, d)
      PROVE  /\ 1 .. probes \subseteq 1 .. probes'
             /\ \A c \in 1 .. probes : devOf'[c] = devOf[c]
  BY <1>1, <1>3, AppendProperties
<1>4. QED
  BY <1>2, <1>3, CtxFrame DEF mmlcd_create_ctx

(* A display with a minor number has a context, which is its own.          *)
LEMMA MinorHasContext ==
  ASSUME CtxInv, NEW d \in Devs, minor[d] # NoMinor
  PROVE  /\ intfdata[d] \in live /\ intfdata[d] \in 1 .. probes
         /\ devOf[intfdata[d]] = d
BY DEF CtxInv, CtxType, Held

-----------------------------------------------------------------------------
(* Open files.                                                             *)

(***************************************************************************)
(* The file of a display keeps the context of that display, also after the *)
(* context was freed and its minor number went to another one.             *)
(***************************************************************************)
FileInv ==
  /\ probes <= MaxProbes
  /\ file \in [Files -> Opened \cup {Closed}]
  /\ \A f \in Files : file[f].kind = "dev" =>
       file[f].ctx \in 1 .. probes /\ devOf[file[f].ctx] = file[f].dev
  /\ out \in [Devs -> Files \cup {"none"}]

(* The loop of mmlcd_proc_init and the entries it creates.                 *)
ProcType ==
  /\ nproc \in [Devs -> 0 .. BtnCount]
  /\ proc \subseteq (0 .. Minors - 1) \X Btns

(* Minor numbers are held from usb_register_dev on.                        *)
HasMinor(d) ==
  phase[d] \in {"registered", "proc", "bound", "disabled", "unlisted"}

MinorInv ==
  /\ \A d \in Devs : HasMinor(d) => minor[d] # NoMinor
  /\ \A d, e \in Devs : d # e /\ minor[d] = minor[e] => minor[d] = NoMinor

(* Button states.                                                          *)
StateInv ==
  /\ reported \in [Devs -> [Btns -> States \cup {"none"}]]
  /\ last_btn_state \in [Ctxs -> [Btns -> States]]

(***************************************************************************)
(* A file whose display has stayed bound still has that display's context. *)
(***************************************************************************)
KeptInv ==
  /\ kept \subseteq Files
  /\ \A f \in kept : /\ file[f].kind = "dev" /\ Bound(file[f].dev)
                     /\ intfdata[file[f].dev] = file[f].ctx

(***************************************************************************)
(* Without a failing proc_create: an entry's display is at work between    *)
(* the creation and the removal of its entries; a URB the USB core holds   *)
(* is that of a live context; and a file of the display with minor number  *)
(* 0, also while mmlcd_proc_open is at work, has that display's context.   *)
(***************************************************************************)
Owns(d, entry) ==
  /\ minor[d] = entry[1]
  /\ \/ phase[d] \in {"bound", "disabled"}
     \/ phase[d] = "proc" /\ entry[2] < nproc[d]

ListedPhases == {"proc", "bound", "disabled"}
Listed(d) == phase[d] \in ListedPhases

EntriesOwned == \A entry \in proc : \E d \in Devs : Owns(d, entry)

UrbsLive ==
  \A c \in submitted : c \in live /\ phase[devOf[c]] \in {"proc", "bound"}

OfProc(r) == r.kind \in {"opening", "proc"}

FilesLive ==
  \A f \in Files : OfProc(file[f]) /\ file[f].entry[1] = 0 =>
    /\ file[f].ctx \in live
    /\ Listed(devOf[file[f].ctx]) /\ minor[devOf[file[f].ctx]] = 0

UseInv == EntriesOwned /\ UrbsLive /\ FilesLive /\ "irq" \notin stale

-----------------------------------------------------------------------------
(* Minor numbers.                                                          *)

(* A display gives its number back, or nobody's number changes.            *)
LEMMA MinorKept ==
  ASSUME MinorInv, UNCHANGED minor,
         \A e \in Devs : HasMinor(e)' => HasMinor(e)
  PROVE  MinorInv'
BY DEF MinorInv

LEMMA MinorGiven ==
  ASSUME CtxInv, MinorInv, NEW d \in Devs,
         minor' = [minor EXCEPT ![d] = NoMinor],
         \A e \in Devs : HasMinor(e)' => HasMinor(e) /\ e # d
  PROVE  MinorInv'
<1>1. minor \in [Devs -> 0 .. NoMinor]
  BY DEF CtxInv, CtxType
<1>2. QED
  BY <1>1 DEF MinorInv

(* A phase of one display changes.                                         *)
LEMMA PhaseMoves ==
  ASSUME CtxInv, NEW d \in Devs, NEW p, phase' = [phase EXCEPT ![d] = p]
  PROVE  phase'[d] = p /\ \A e \in Devs \ {d} : phase'[e] = phase[e]
BY DEF CtxInv, CtxType

LEMMA ProbeFailsMinor ==
  ASSUME CtxInv, MinorInv, NEW d \in Devs, ProbeFails(d)
  PROVE  MinorInv'
<1>1. phase'[d] = "failed" /\ \A e \in Devs \ {d} : phase'[e] = phase[e]
  BY PhaseMoves DEF ProbeFails
<1>2. \A e \in Devs : HasMinor(e)' => HasMinor(e) /\ e # d
  BY <1>1 DEF HasMinor
<1>3. QED
  BY <1>2, MinorGiven DEF ProbeFails

(* usb_register_dev hands out a number nobody has.                         *)
LEMMA RegisterMinor ==
  ASSUME CtxInv, MinorInv, NEW d \in Devs, usb_register_dev(d)
  PROVE  MinorInv'
<1>1. CASE ProbeFails(d)
  BY <1>1, ProbeFailsMinor
<1>2. ASSUME NEW m \in FreeMinors, minor' = [minor EXCEPT ![d] = m],
             phase' = [phase EXCEPT ![d] = "registered"]
      PROVE  MinorInv'
  <2>1. /\ m # NoMinor /\ minor'[d] = m
        /\ \A e \in Devs \ {d} : minor'[e] = minor[e] /\ minor[e] # m
    BY <1>2, DriverAssumption DEF CtxInv, CtxType, FreeMinors, NoMinor
  <2>2. \A e \in Devs \ {d} : HasMinor(e)' => HasMinor(e)
    BY <1>2, PhaseMoves DEF HasMinor
  <2>3. QED
    BY <2>1, <2>2 DEF MinorInv
<1>3. QED
  BY <1>1, <1>2 DEF usb_register_dev

LEMMA MinorStep == CtxInv /\ MinorInv /\ [Next]_vars => MinorInv'
<1> SUFFICES ASSUME CtxInv, MinorInv, [Next]_vars PROVE MinorInv'
  OBVIOUS
<1>0. ASSUME UNCHANGED <<phase, minor>> PROVE MinorInv'
  BY <1>0 DEF MinorInv, HasMinor
<1>1. CASE mmlcd_init
  BY <1>1, MinorKept DEF mmlcd_init, HasMinor
<1>2. ASSUME NEW d \in Devs, Unplug(d) PROVE MinorInv'
  <2>1. \A e \in Devs : HasMinor(e)' => HasMinor(e)
    BY <1>2, PhaseMoves DEF Unplug, HasMinor
  <2>2. QED
    BY <1>2, <2>1, MinorKept DEF Unplug
<1>3. ASSUME NEW d \in Devs, Probe(d) PROVE MinorInv'
  <2>1. CASE mmlcd_create_ctx(d)
    <3>1. PICK p \in {"created", "failed"} :
            phase' = [phase EXCEPT ![d] = p]
      BY <2>1 DEF mmlcd_create_ctx
    <3>2. phase'[d] = p /\ \A e \in Devs \ {d} : phase'[e] = phase[e]
      BY <3>1, PhaseMoves
    <3>3. \A e \in Devs : HasMinor(e)' => HasMinor(e)
      BY <3>2 DEF HasMinor
    <3>4. QED
      BY <2>1, <3>3, MinorKept DEF mmlcd_create_ctx
  <2>2. CASE usb_register_dev(d)
    BY <2>2, RegisterMinor
  <2>3. CASE ProbeFails(d)
    BY <2>3, ProbeFailsMinor
  <2>4. CASE usb_submit_urb(d) /\ ~ProbeFails(d)
    <3>1. \A e \in Devs : HasMinor(e)' => HasMinor(e)
      BY <2>4, PhaseMoves DEF usb_submit_urb, HasMinor
    <3>2. QED
      BY <2>4, <3>1, MinorKept DEF usb_submit_urb
  <2>5. CASE mmlcd_proc_init(d) /\ ~ProbeFails(d)
    <3>1. \A e \in Devs : HasMinor(e)' => HasMinor(e)
      BY <2>5, PhaseMoves DEF mmlcd_proc_init, HasMinor
    <3>2. QED
      BY <2>5, <3>1, MinorKept DEF mmlcd_proc_init
  <2>6. QED
    BY <1>3, <2>1, <2>2, <2>3, <2>4, <2>5 DEF Probe
<1>4. ASSUME NEW d \in Devs, Disconnect(d) PROVE MinorInv'
  <2>1. CASE usb_disable_interface(d)
    <3>1. \A e \in Devs : HasMinor(e)' => HasMinor(e)
      BY <2>1, PhaseMoves DEF usb_disable_interface, HasMinor
    <3>2. QED
      BY <2>1, <3>1, MinorKept DEF usb_disable_interface
  <2>2. CASE mmlcd_proc_deinit(d)
    <3>1. \A e \in Devs : HasMinor(e)' => HasMinor(e)
      BY <2>2, PhaseMoves DEF mmlcd_proc_deinit, HasMinor
    <3>2. QED
      BY <2>2, <3>1, MinorKept DEF mmlcd_proc_deinit
  <2>3. CASE usb_deregister_dev(d)
    <3>1. /\ phase'[d] = "deregistered"
          /\ \A e \in Devs \ {d} : phase'[e] = phase[e]
      BY <2>3, PhaseMoves DEF usb_deregister_dev
    <3>2. \A e \in Devs : HasMinor(e)' => HasMinor(e) /\ e # d
      BY <3>1 DEF HasMinor
    <3>3. QED
      BY <2>3, <3>2, MinorGiven DEF usb_deregister_dev
  <2>4. CASE mmlcd_disconnect(d)
    <3>1. \A e \in Devs : HasMinor(e)' => HasMinor(e) /\ e # d
      BY <2>4, PhaseMoves DEF mmlcd_disconnect, HasMinor
    <3>2. QED
      BY <2>4, <3>1, MinorGiven DEF mmlcd_disconnect
  <2>5. QED
    BY <1>4, <2>1, <2>2, <2>3, <2>4 DEF Disconnect
<1>5. ASSUME NEW f \in Files, User(f) PROVE MinorInv'
  BY <1>0, <1>5, UserFrame
<1>6. QED
  BY <1>0, <1>1, <1>2, <1>3, <1>4, <1>5
  DEF Next, vars, mmlcd_cleanup, Plug, mmlcd_proc_int_in_irq

(* Minor numbers are unique, and held exactly while they are needed.       *)
LEMMA MinorInvHolds == Spec => [](CtxInv /\ MinorInv)
<1>1. Init => MinorInv
  BY DEF Init, MinorInv, HasMinor
<1>2. QED
  BY <1>1, MinorStep, InitCtxInv, NextCtxInv, PTL DEF Spec

-----------------------------------------------------------------------------
(* Proc entries and files.                                                 *)

(* Entries are created by mmlcd_proc_init and removed by mmlcd_proc_deinit;*)
(* usb_submit_urb precedes the loop.                                       *)
LEMMA ProcFrame ==
  ASSUME [Next]_vars
  PROVE  \/ UNCHANGED <<nproc, proc>>
         \/ \E d \in Devs : \/ usb_submit_urb(d) \/ mmlcd_proc_init(d)
                            \/ mmlcd_proc_deinit(d)
BY DEF Next, vars, mmlcd_init, mmlcd_cleanup, Plug, Unplug, Probe,
       mmlcd_create_ctx, usb_register_dev, Disconnect,
       usb_disable_interface, usb_deregister_dev, mmlcd_disconnect,
       mmlcd_proc_int_in_irq, User, dev_open, mmlcd_proc_open,
       mmlcd_proc_open_store, dev_release, dev_write, mmlcd_proc_read

LEMMA ProcTypeStep ==
  ASSUME CtxInv, MinorInv, ProcType, [Next]_vars
  PROVE  ProcType'
<1>1. CASE UNCHANGED <<nproc, proc>>
  BY <1>1 DEF ProcType
<1>2. ASSUME NEW d \in Devs, usb_submit_urb(d) PROVE ProcType'
  BY <1>2, DriverAssumption DEF ProcType, usb_submit_urb
<1>3. ASSUME NEW d \in Devs, mmlcd_proc_deinit(d) PROVE ProcType'
  BY <1>3 DEF ProcType, mmlcd_proc_deinit, proc_remove
<1>4. ASSUME NEW d \in Devs, mmlcd_proc_init(d) PROVE ProcType'
  <2>1. CASE UNCHANGED <<nproc, proc>>
    BY <2>1 DEF ProcType
  <2>2. CASE /\ MoreButtons(d) /\ proc' = proc \cup {<<minor[d], nproc[d]>>}
             /\ nproc' = [nproc EXCEPT ![d] = nproc[d] + 1]
    <3>1. minor[d] \in 0 .. Minors - 1
      BY <1>4, DriverAssumption
      DEF mmlcd_proc_init, MinorInv, HasMinor, CtxInv, CtxType, NoMinor
    <3>2. nproc[d] \in Btns /\ nproc[d] + 1 \in 0 .. BtnCount
      BY <2>2, DriverAssumption DEF MoreButtons, ProcType, Btns
    <3>3. QED
      BY <2>2, <3>1, <3>2 DEF ProcType
  <2>3. QED
    BY <1>4, <2>1, <2>2 DEF mmlcd_proc_init
<1>5. QED
  BY <1>1, <1>2, <1>3, <1>4, ProcFrame

(* What a file is opened with.                                             *)
LEMMA DevOpenType ==
  ASSUME CtxInv, FileInv, NEW f \in Files, NEW m \in 0 .. Minors - 1,
         dev_open(f, m)
  PROVE  /\ \E d \in Devs :
              /\ file' = [file EXCEPT ![f] =
                            [kind |-> "dev", minor |-> m, dev |-> d,
                             ctx |-> intfdata[d]]]
              /\ intfdata[d] \in Ctxs /\ intfdata[d] \in 1 .. probes
              /\ devOf[intfdata[d]] = d
<1>1. PICK d \in ByMinor(m) :
        file' = [file EXCEPT ![f] = [kind |-> "dev", minor |-> m, dev |-> d,
                                     ctx |-> intfdata[d]]]
  BY DEF dev_open
<1>2. d \in Devs /\ minor[d] # NoMinor
  BY <1>1, DriverAssumption DEF ByMinor, NoMinor
<1>3. intfdata[d] \in 1 .. probes /\ devOf[intfdata[d]] = d
  BY <1>2, MinorHasContext
<1>4. intfdata[d] \in Ctxs
  BY <1>3, DriverAssumption DEF FileInv, Ctxs, CtxInv, CtxType
<1>5. QED
  BY <1>1, <1>2, <1>3, <1>4

LEMMA ProcOpenType ==
  ASSUME CtxInv, FileInv, NEW f \in Files, NEW entry \in proc,
         mmlcd_proc_open(f, entry)
  PROVE  \E d \in Devs :
           /\ minor[d] = 0
           /\ file' = [file EXCEPT ![f] = [kind |-> "opening",
                                           entry |-> entry,
                                           ctx |-> intfdata[d]]]
           /\ intfdata[d] \in Ctxs /\ intfdata[d] \in live
           /\ devOf[intfdata[d]] = d
<1>1. PICK d \in ByMinor(0) :
        file' = [file EXCEPT ![f] = [kind |-> "opening", entry |-> entry,
                                     ctx |-> intfdata[d]]]
  BY DEF mmlcd_proc_open, ProcMinor
<1>2. d \in Devs /\ minor[d] = 0 /\ minor[d] # NoMinor
  BY <1>1, DriverAssumption DEF ByMinor, NoMinor
<1>3. /\ intfdata[d] \in 1 .. probes /\ intfdata[d] \in live
      /\ devOf[intfdata[d]] = d
  BY <1>2, MinorHasContext
<1>4. intfdata[d] \in Ctxs
  BY <1>3, DriverAssumption DEF FileInv, Ctxs, CtxInv, CtxType
<1>5. QED
  BY <1>1, <1>2, <1>3, <1>4

(* Live contexts are contexts, and displays at work have different ones.   *)
LEMMA LiveCtx ==
  ASSUME CtxInv, FileInv, NEW c \in live
  PROVE  c \in Ctxs /\ c \in 1 .. probes /\ devOf[c] \in Devs
         /\ intfdata[devOf[c]] = c
BY DriverAssumption DEF CtxInv, CtxType, Held, FileInv, Ctxs

LEMMA OwnContexts ==
  ASSUME CtxInv, NEW d \in Devs, NEW e \in Devs, d # e,
         ~Unbound(d), ~Unbound(e)
  PROVE  /\ intfdata[d] \in live /\ intfdata[e] \in live
         /\ intfdata[d] # intfdata[e]
BY DEF CtxInv, Held

(* A record that may be stored in a file.                                  *)
LEMMA FilePut ==
  ASSUME FileInv, NEW f \in Files, NEW r \in Opened \cup {Closed},
         file' = [file EXCEPT ![f] = r]
  PROVE  /\ file' \in [Files -> Opened \cup {Closed}] /\ file'[f] = r
         /\ \A g \in Files \ {f} : file'[g] = file[g]
BY DEF FileInv

(* What mmlcd_proc_open stores in the end.                                 *)
LEMMA StoredType ==
  ASSUME FileInv, NEW f \in Files, mmlcd_proc_open_store(f)
  PROVE  LET r == [kind |-> "proc", entry |-> file[f].entry,
                   ctx |-> file[f].ctx]
         IN  /\ file[f].kind = "opening" /\ r \in Opened
             /\ file' = [file EXCEPT ![f] = r]
<1>1. file[f].kind = "opening" /\ file[f] \in Opened \cup {Closed}
  BY DEF mmlcd_proc_open_store, FileInv
<1>2. file[f] \in [kind : {"opening", "proc"},
                   entry : (0 .. Minors - 1) \X Btns, ctx : Ctxs]
  BY <1>1 DEF Opened, Closed
<1>3. [file[f] EXCEPT !.kind = "proc"]
        = [kind |-> "proc", entry |-> file[f].entry, ctx |-> file[f].ctx]
  BY <1>2
<1>4. file' = [file EXCEPT ![f] = [file[f] EXCEPT !.kind = "proc"]]
  BY DEF mmlcd_proc_open_store
<1>5. QED
  BY <1>1, <1>2, <1>3, <1>4 DEF Opened

LEMMA UserFiles ==
  ASSUME CtxInv, FileInv, ProcType, NEW f \in Files, User(f)
  PROVE  /\ file' \in [Files -> Opened \cup {Closed}]
         /\ \A g \in Files : file'[g].kind = "dev" =>
              /\ file'[g].ctx \in 1 .. probes
              /\ devOf[file'[g].ctx] = file'[g].dev
<1> DEFINE Goal ==
      /\ file' \in [Files -> Opened \cup {Closed}]
      /\ \A g \in Files : file'[g].kind = "dev" =>
           /\ file'[g].ctx \in 1 .. probes
           /\ devOf[file'[g].ctx] = file'[g].dev
<1>1. CASE UNCHANGED file
  BY <1>1 DEF FileInv
<1>2. ASSUME NEW m \in 0 .. Minors - 1, dev_open(f, m) PROVE Goal
  <2>1. PICK d \in Devs :
          /\ file' = [file EXCEPT ![f] =
                        [kind |-> "dev", minor |-> m, dev |-> d,
                         ctx |-> intfdata[d]]]
          /\ intfdata[d] \in Ctxs /\ intfdata[d] \in 1 .. probes
          /\ devOf[intfdata[d]] = d
    BY <1>2, DevOpenType
  <2>2. [kind |-> "dev", minor |-> m, dev |-> d, ctx |-> intfdata[d]]
           \in Opened \cup {Closed}
    BY <2>1 DEF Opened
  <2>3. QED
    BY <2>1, <2>2, FilePut DEF FileInv
<1>3. ASSUME NEW entry \in proc, mmlcd_proc_open(f, entry) PROVE Goal
  <2>1. PICK d \in Devs :
          /\ file' = [file EXCEPT ![f] = [kind |-> "opening",
                                          entry |-> entry,
                                          ctx |-> intfdata[d]]]
          /\ intfdata[d] \in Ctxs
    BY <1>3, ProcOpenType
  <2>2. [kind |-> "opening", entry |-> entry, ctx |-> intfdata[d]]
           \in Opened \cup {Closed}
    BY <2>1 DEF Opened, ProcType
  <2>3. QED
    BY <2>1, <2>2, FilePut DEF FileInv
<1>4. CASE dev_release(f)
  <2>1. file' = [file EXCEPT ![f] = Closed] /\ Closed.kind = "closed"
    BY <1>4 DEF dev_release, Closed
  <2>2. QED
    BY <2>1, FilePut DEF FileInv
<1>5. CASE mmlcd_proc_open_store(f)
  <2>1. PICK r : /\ file' = [file EXCEPT ![f] = r] /\ r.kind = "proc"
                 /\ r \in Opened
    BY <1>5, StoredType
  <2>2. QED
    BY <2>1, FilePut DEF FileInv
<1>6. QED
  BY <1>1, <1>2, <1>3, <1>4, <1>5 DEF User, dev_write, mmlcd_proc_read

(* A command goes to the display its file was opened on, as long as the    *)
(* file's context is alive.                                                *)
LEMMA UserOut ==
  ASSUME CtxInv, FileInv, NEW f \in Files, User(f)
  PROVE  /\ out' \in [Devs -> Files \cup {"none"}]
         /\ \A d \in Devs : out'[d] # out[d] =>
              /\ out'[d] = f /\ file[f].kind = "dev"
              /\ file[f].ctx \in live => file[f].dev = d
<1>1. CASE UNCHANGED out
  BY <1>1 DEF FileInv
<1>2. ASSUME dev_write(f), NEW c \in live, Sends(f, c),
             file[f].ctx \in live => c = file[f].ctx
      PROVE  /\ out' \in [Devs -> Files \cup {"none"}]
             /\ \A d \in Devs : out'[d] # out[d] =>
                  /\ out'[d] = f /\ file[f].kind = "dev"
                  /\ file[f].ctx \in live => file[f].dev = d
  <2>1. /\ out' = [out EXCEPT ![devOf[c]] = f]
        /\ out \in [Devs -> Files \cup {"none"}]
        /\ file[f].kind = "dev"
        /\ file[f].ctx \in live => devOf[c] = file[f].dev
    BY <1>2 DEF dev_write, Sends, FileInv
  <2>2. devOf[c] \in Devs
    BY LiveCtx
  <2>3. QED
    BY <2>1, <2>2
<1>3. QED
  BY <1>1, <1>2
  DEF User, dev_open, mmlcd_proc_open, mmlcd_proc_open_store, dev_release,
      dev_write, mmlcd_proc_read

LEMMA FileInvStep ==
  ASSUME CtxInv, FileInv, ProcType, [Next]_vars
  PROVE  FileInv'
<1>1. probes' <= MaxProbes
  BY CtxFrame, DriverAssumption DEF mmlcd_create_ctx, FileInv, CtxInv, CtxType
<1>2. CASE UNCHANGED <<file, out, val>>
  BY <1>1, <1>2, ContextsKept DEF FileInv
<1>3. ASSUME NEW f \in Files, User(f) PROVE FileInv'
  BY <1>1, <1>3, UserFiles, UserOut, UserFrame DEF FileInv
<1>4. ASSUME NEW d \in Devs, mmlcd_proc_deinit(d) PROVE FileInv'
  <2>1. UNCHANGED <<probes, devOf, out>>
    BY <1>4 DEF mmlcd_proc_deinit
  <2>2. \A f \in Files : file'[f] = Closed \/ file'[f] = file[f]
    BY <1>4 DEF mmlcd_proc_deinit, proc_remove
  <2>3. file' \in [Files -> Opened \cup {Closed}]
    BY <1>4 DEF mmlcd_proc_deinit, proc_remove, FileInv
  <2>4. Closed.kind = "closed"
    BY DEF Closed
  <2>5. QED
    BY <1>1, <2>1, <2>2, <2>3, <2>4 DEF FileInv
<1>5. QED
  BY <1>2, <1>3, <1>4, FileFrame

(* What holds of files and entries whichever calls fail.                   *)
DriverInv == CtxInv /\ MinorInv /\ ProcType /\ FileInv

LEMMA DriverInvHolds == Spec => []DriverInv
<1>1. Init => DriverInv
  <2> SUFFICES ASSUME Init PROVE DriverInv
    OBVIOUS
  <2>1. MinorInv /\ ProcType
    BY DriverAssumption DEF Init, MinorInv, HasMinor, ProcType
  <2>2. FileInv
    BY DriverAssumption DEF Init, FileInv, Closed
  <2>3. QED
    BY <2>1, <2>2, InitCtxInv DEF DriverInv
<1>2. DriverInv /\ [Next]_vars => DriverInv'
  BY NextCtxInv, MinorStep, ProcTypeStep, FileInvStep DEF DriverInv
<1>3. QED
  BY <1>1, <1>2, PTL DEF Spec

(* The values reads return: nobody else stores them.                       *)
LEMMA ValFrame ==
  ASSUME [Next]_vars, FileInv, val \in [Files -> States \cup {"none"}],
         NEW f \in Files, val'[f] \notin {val[f], "none"}
  PROVE  mmlcd_proc_read(f)
<1>1. CASE UNCHANGED val
  BY <1>1
<1>2. ASSUME NEW g \in Files, User(g) PROVE mmlcd_proc_read(f)
  <2>1. CASE dev_release(g)
    BY <2>1 DEF dev_release
  <2>2. CASE mmlcd_proc_read(g)
    <3>1. f = g
      BY <2>2 DEF mmlcd_proc_read
    <3>2. QED
      BY <2>2, <3>1
  <2>3. CASE UNCHANGED val
    BY <2>3
  <2>4. QED
    BY <1>2, <2>1, <2>2, <2>3
    DEF User, dev_open, mmlcd_proc_open, mmlcd_proc_open_store, dev_write
<1>3. QED
  BY <1>1, <1>2, FileFrame DEF mmlcd_proc_deinit

LEMMA StateFrame ==
  ASSUME [Next]_vars
  PROVE  \/ UNCHANGED <<last_btn_state, reported>>
         \/ \E c \in 1 .. probes, b \in Btns, s \in States :
              mmlcd_proc_int_in_irq(c, b, s)
         \/ \E d \in Devs : mmlcd_proc_init(d) \/ usb_disable_interface(d)
BY DEF Next, vars, mmlcd_init, mmlcd_cleanup, Plug, Unplug, Probe,
       mmlcd_create_ctx, usb_register_dev, usb_submit_urb, Disconnect,
       mmlcd_proc_deinit, usb_deregister_dev, mmlcd_disconnect, User,
       dev_open, mmlcd_proc_open, mmlcd_proc_open_store, dev_release,
       dev_write, mmlcd_proc_read

(* A display becomes bound at the end of mmlcd_proc_init, and stops being  *)
(* so in usb_disable_interface; it keeps its context between.              *)
LEMMA BoundFrame ==
  ASSUME CtxInv, [Next]_vars, NEW d \in Devs,
         phase[d] = "bound" \/ phase'[d] = "bound"
  PROVE  \/ phase'[d] = phase[d] /\ intfdata'[d] = intfdata[d]
         \/ mmlcd_proc_init(d) \/ usb_disable_interface(d)
<1> DEFINE Goal == \/ phase'[d] = phase[d] /\ intfdata'[d] = intfdata[d]
                   \/ mmlcd_proc_init(d) \/ usb_disable_interface(d)
<1>0. phase \in [Devs -> Phases] /\ intfdata \in [Devs -> Nat]
  BY DEF CtxInv, CtxType
<1>1. CASE UNCHANGED <<phase, intfdata>>
  BY <1>1
<1>2. CASE mmlcd_init
  BY <1>2 DEF mmlcd_init
<1>3. ASSUME NEW e \in Devs, Unplug(e) PROVE Goal
  BY <1>0, <1>3 DEF Unplug
<1>4. ASSUME NEW e \in Devs, Probe(e) PROVE Goal
  <2>1. CASE mmlcd_create_ctx(e)
    BY <1>0, <2>1 DEF mmlcd_create_ctx
  <2>2. CASE usb_register_dev(e)
    BY <1>0, <2>2 DEF usb_register_dev, ProbeFails
  <2>3. CASE usb_submit_urb(e)
    BY <1>0, <2>3 DEF usb_submit_urb, ProbeFails
  <2>4. CASE mmlcd_proc_init(e) /\ e # d
    BY <1>0, <2>4 DEF mmlcd_proc_init, ProbeFails
  <2>5. QED
    BY <1>4, <2>1, <2>2, <2>3, <2>4 DEF Probe
<1>5. ASSUME NEW e \in Devs, Disconnect(e) PROVE Goal
  <2>1. CASE usb_disable_interface(e) /\ e # d
    BY <1>0, <2>1 DEF usb_disable_interface
  <2>2. CASE mmlcd_proc_deinit(e)
    BY <1>0, <2>2 DEF mmlcd_proc_deinit
  <2>3. CASE usb_deregister_dev(e)
    BY <1>0, <2>3 DEF usb_deregister_dev
  <2>4. CASE mmlcd_disconnect(e)
    BY <1>0, <2>4 DEF mmlcd_disconnect
  <2>5. QED
    BY <1>5, <2>1, <2>2, <2>3, <2>4 DEF Disconnect
<1>6. ASSUME NEW f \in Files, User(f) PROVE Goal
  BY <1>1, <1>6, UserFrame
<1>7. QED
  BY <1>1, <1>2, <1>3, <1>4, <1>5, <1>6
  DEF Next, vars, mmlcd_cleanup, Plug, mmlcd_proc_int_in_irq

(* A display stays bound until it is unplugged or the module unloaded.     *)
LEMMA BoundKept ==
  ASSUME CtxInv, [Next]_vars, NEW d \in Devs, Bound(d)
  PROVE  \/ Bound(d)' /\ intfdata'[d] = intfdata[d]
         \/ Unplug(d) \/ mmlcd_cleanup
<1>1. phase[d] = "bound" /\ d \in plugged /\ loaded
  BY DEF Bound
<1>2. phase'[d] = phase[d] /\ intfdata'[d] = intfdata[d]
  BY <1>1, BoundFrame DEF mmlcd_proc_init, usb_disable_interface
<1>3. (d \in plugged' /\ loaded') \/ Unplug(d) \/ mmlcd_cleanup
  <2>1. CASE UNCHANGED <<plugged, loaded>>
    BY <1>1, <2>1
  <2>2. ASSUME NEW e \in Devs, Plug(e) \/ Unplug(e)
        PROVE  (d \in plugged' /\ loaded') \/ Unplug(d)
    BY <1>1, <2>2 DEF Plug, Unplug
  <2>3. CASE mmlcd_init
    BY <1>1, <2>3 DEF mmlcd_init
  <2>4. ASSUME NEW e \in Devs, Probe(e) \/ Disconnect(e)
        PROVE  UNCHANGED <<plugged, loaded>>
    BY <2>4 DEF Probe, mmlcd_create_ctx, usb_register_dev, usb_submit_urb,
         mmlcd_proc_init, Disconnect, usb_disable_interface,
         mmlcd_proc_deinit, usb_deregister_dev, mmlcd_disconnect
  <2>5. ASSUME NEW f \in Files, User(f)
        PROVE  UNCHANGED <<plugged, loaded>>
    BY <2>5 DEF User, dev_open, mmlcd_proc_open, mmlcd_proc_open_store,
         dev_release, dev_write, mmlcd_proc_read
  <2>6. QED
    BY <2>1, <2>2, <2>3, <2>4, <2>5
    DEF Next, vars, mmlcd_proc_int_in_irq
<1>4. QED
  BY <1>1, <1>2, <1>3 DEF Bound

-----------------------------------------------------------------------------
(* Writes.                                                                 *)

LEMMA KeptStep ==
  ASSUME DriverInv, KeptInv, [Next]_vars
  PROVE  KeptInv'
<1> DEFINE Fine(f) == /\ file'[f].kind = "dev"
                      /\ phase'[file'[f].dev] = "bound"
                      /\ file'[f].dev \in plugged' /\ loaded'
                      /\ intfdata'[file'[f].dev] = file'[f].ctx
<1>0. CtxInv /\ FileInv /\ ProcType /\ file \in [Files -> Opened \cup {Closed}]
  BY DEF DriverInv, FileInv
<1>1. ASSUME NEW f \in kept, file'[f] = file[f],
             ~Unplug(file[f].dev), ~mmlcd_cleanup
      PROVE  Fine(f)
  <2>1. /\ f \in Files /\ file[f].kind = "dev" /\ Bound(file[f].dev)
        /\ intfdata[file[f].dev] = file[f].ctx
    BY <1>1 DEF KeptInv
  <2>2. file[f].dev \in Devs
    BY <1>0, <2>1 DEF Opened, Closed
  <2>3. QED
    BY <1>0, <1>1, <2>1, <2>2, BoundKept DEF Bound
<1>2. CASE mmlcd_cleanup
  BY <1>2 DEF mmlcd_cleanup, KeptInv
<1>3. ASSUME NEW d \in Devs, Unplug(d) PROVE KeptInv'
  <2>1. kept' \subseteq kept /\ UNCHANGED file /\ plugged' = plugged \ {d}
        /\ \A f \in kept' : file[f].dev # d
    BY <1>3 DEF Unplug
  <2>2. ~mmlcd_cleanup
    BY <1>3 DEF Unplug, mmlcd_cleanup
  <2>3. ASSUME NEW f \in kept' PROVE ~Unplug(file[f].dev)
    BY <2>1, <2>3, <1>3 DEF Unplug
  <2>4. \A f \in kept' : Fine(f)
    BY <1>1, <2>1, <2>2, <2>3
  <2>5. QED
    BY <2>1, <2>4 DEF KeptInv, Bound
<1>4. ASSUME ~mmlcd_cleanup, \A d \in Devs : ~Unplug(d),
             kept' \subseteq kept, \A f \in kept' : file'[f] = file[f]
      PROVE  KeptInv'
  <2>1. \A f \in kept : file[f].dev \in Devs
    BY <1>0 DEF KeptInv, Opened, Closed
  <2>2. \A f \in kept' : Fine(f)
    BY <1>1, <1>4, <2>1
  <2>3. QED
    BY <1>4, <2>2 DEF KeptInv, Bound
<1>5. ASSUME ~mmlcd_cleanup, \A d \in Devs : ~Unplug(d),
             NEW f \in Files, User(f)
      PROVE  KeptInv'
  <2>1. ASSUME NEW m \in 0 .. Minors - 1, dev_open(f, m) PROVE KeptInv'
    <3>1. PICK d \in ByMinor(m) :
            /\ file' = [file EXCEPT ![f] = [kind |-> "dev", minor |-> m,
                                            dev |-> d, ctx |-> intfdata[d]]]
            /\ kept' = IF Bound(d) THEN kept \cup {f} ELSE kept
      BY <2>1 DEF dev_open
    <3>2. f \notin kept
      BY <2>1 DEF dev_open, KeptInv, Closed
    <3>3. \A g \in kept : file'[g] = file[g] /\ Fine(g)
      <4>1. \A g \in kept : g # f /\ g \in Files
        BY <3>2 DEF KeptInv
      <4>2. \A g \in kept : file'[g] = file[g] /\ file[g].dev \in Devs
        BY <1>0, <3>1, <4>1 DEF KeptInv, Opened, Closed
      <4>3. QED
        BY <1>1, <1>5, <4>2
    <3>4. /\ file'[f].kind = "dev" /\ file'[f].dev = d
          /\ file'[f].ctx = intfdata[d]
      BY <1>0, <3>1
    <3>5. UNCHANGED <<phase, plugged, loaded, intfdata>>
      BY <2>1 DEF dev_open
    <3>6. Bound(d) => Fine(f)
      BY <3>4, <3>5 DEF Bound
    <3>7. \A g \in kept' : Fine(g)
      BY <3>1, <3>3, <3>6
    <3>8. QED
      BY <3>1, <3>7 DEF KeptInv, Bound
  <2>2. CASE dev_release(f)
    BY <1>4, <1>5, <2>2 DEF dev_release, KeptInv
  <2>3. CASE mmlcd_proc_open_store(f) \/ \E entry \in proc : mmlcd_proc_open(f, entry)
    <3>1. f \notin kept /\ UNCHANGED kept
      BY <2>3 DEF mmlcd_proc_open, mmlcd_proc_open_store, KeptInv, Closed
    <3>2. \A g \in Files \ {f} : file'[g] = file[g]
      BY <1>0, <2>3 DEF mmlcd_proc_open, mmlcd_proc_open_store
    <3>3. QED
      BY <1>4, <1>5, <3>1, <3>2 DEF KeptInv
  <2>4. CASE UNCHANGED <<file, kept>>
    BY <1>4, <1>5, <2>4
  <2>5. QED
    BY <1>5, <2>1, <2>2, <2>3, <2>4 DEF User, dev_write, mmlcd_proc_read
<1>6. ASSUME ~mmlcd_cleanup, \A d \in Devs : ~Unplug(d),
             \A f \in Files : ~User(f)
      PROVE  KeptInv'
  <2>1. UNCHANGED kept
    BY <1>6, KeptFrame
  <2>2. \A f \in Files : file[f].kind = "dev" => file'[f] = file[f]
    BY <1>6, FileFrame DEF mmlcd_proc_deinit, proc_remove
  <2>3. QED
    BY <1>4, <1>6, <2>1, <2>2 DEF KeptInv
<1>7. QED
  BY <1>2, <1>3, <1>5, <1>6

LEMMA KeptInvHolds == Spec => []KeptInv
<1>1. Init => KeptInv
  BY DEF Init, KeptInv
<1>2. QED
  BY <1>1, KeptStep, DriverInvHolds, PTL DEF Spec

(***************************************************************************)
(* dev_write: while the display a file was opened on stays bound, its      *)
(* context is neither freed nor handed to another display, so that a       *)
(* command goes to that display and to no other, however many others come, *)
(* go and fail to be probed.                                               *)
(***************************************************************************)
THEOREM WritesReachOpened == Spec => WriteReachesOpened
<1>1. DriverInv /\ KeptInv /\ [Next]_vars =>
        [\A d \in Devs : out'[d] # out[d] /\ out'[d] \in kept =>
           file[out'[d]].dev = d]_vars
  <2> SUFFICES ASSUME DriverInv, KeptInv, [Next]_vars, NEW d \in Devs,
                      out'[d] # out[d], out'[d] \in kept
               PROVE  file[out'[d]].dev = d
    OBVIOUS
  <2>1. PICK f \in Files : User(f)
    BY FileFrame DEF mmlcd_proc_deinit
  <2>2. out'[d] = f /\ (file[f].ctx \in live => file[f].dev = d)
    BY <2>1, UserOut DEF DriverInv
  <2>3. /\ file[f].kind = "dev" /\ Bound(file[f].dev)
        /\ intfdata[file[f].dev] = file[f].ctx
    BY <2>2 DEF KeptInv
  <2>4. file[f].dev \in Devs
    BY <2>3 DEF DriverInv, FileInv, Opened, Closed
  <2>5. file[f].ctx \in live
    BY <2>3, <2>4 DEF Bound, DriverInv, CtxInv, Held, Unbound
  <2>6. QED
    BY <2>2, <2>5
<1>2. QED
  BY <1>1, DriverInvHolds, KeptInvHolds, PTL DEF Spec, WriteReachesOpened

-----------------------------------------------------------------------------
(* Button states and what reads return.                                    *)

(* Storing a state in one button of one context.                           *)
LEMMA StorePut ==
  ASSUME StateInv, NEW c \in Ctxs, NEW b \in Btns, NEW s \in States,
         last_btn_state' = [last_btn_state EXCEPT ![c][b] = s]
  PROVE  /\ last_btn_state' \in [Ctxs -> [Btns -> States]]
         /\ last_btn_state'[c][b] = s
         /\ \A x \in Btns \ {b} : last_btn_state'[c][x] = last_btn_state[c][x]
         /\ \A e \in Ctxs \ {c} : last_btn_state'[e] = last_btn_state[e]
BY DEF StateInv

LEMMA StateStep ==
  ASSUME DriverInv, StateInv, [Next]_vars
  PROVE  StateInv'
<1>0. CtxInv /\ FileInv /\ ProcType
  BY DEF DriverInv
<1>1. CASE UNCHANGED <<last_btn_state, reported>>
  BY <1>1 DEF StateInv
<1>2. ASSUME NEW d \in Devs, usb_disable_interface(d) PROVE StateInv'
  BY <1>2 DEF usb_disable_interface, StateInv
<1>3. ASSUME NEW d \in Devs, mmlcd_proc_init(d),
             ~UNCHANGED <<last_btn_state, reported>>
      PROVE  StateInv'
  <2>1. /\ phase[d] = "proc" /\ nproc[d] \in Btns
        /\ last_btn_state' = [last_btn_state EXCEPT
                                ![intfdata[d]][nproc[d]] = "released"]
        /\ UNCHANGED reported
    BY <1>0, <1>3, DriverAssumption
    DEF mmlcd_proc_init, MoreButtons, ProcType, Btns
  <2>2. intfdata[d] \in Ctxs
    BY <1>0, <2>1, LiveCtx DEF CtxInv, Held, Unbound
  <2>3. QED
    BY <2>1, <2>2, StorePut DEF StateInv, States
<1>4. ASSUME NEW c \in 1 .. probes, NEW b \in Btns, NEW s \in States,
             mmlcd_proc_int_in_irq(c, b, s),
             ~UNCHANGED <<last_btn_state, reported>>
      PROVE  StateInv'
  <2> DEFINE d == devOf[c]
  <2>1. /\ c \in live
        /\ last_btn_state' = [last_btn_state EXCEPT ![c][b] = s]
        /\ reported' = IF phase[d] = "bound"
                       THEN [reported EXCEPT ![d][b] = s] ELSE reported
    BY <1>4 DEF mmlcd_proc_int_in_irq, StoreEvent
  <2>2. c \in Ctxs /\ d \in Devs
    BY <1>0, <2>1, LiveCtx
  <2>3. last_btn_state' \in [Ctxs -> [Btns -> States]]
    BY <2>1, <2>2, StorePut
  <2>4. reported' \in [Devs -> [Btns -> States \cup {"none"}]]
    BY <2>1, <2>2 DEF StateInv
  <2>5. QED
    BY <2>3, <2>4 DEF StateInv
<1>5. QED
  BY <1>1, <1>2, <1>3, <1>4, StateFrame

LEMMA StateInvHolds == Spec => []StateInv
<1>1. Init => StateInv
  BY DEF Init, StateInv, States
<1>2. QED
  BY <1>1, StateStep, DriverInvHolds, PTL DEF Spec

(* What reads return is a state.                                           *)
ValType == val \in [Files -> States \cup {"none"}]

LEMMA ValTypeStep ==
  ASSUME DriverInv, StateInv, ValType, [Next]_vars
  PROVE  ValType'
<1>1. CASE UNCHANGED val
  BY <1>1 DEF ValType
<1>2. ASSUME NEW f \in Files, dev_release(f) PROVE ValType'
  BY <1>2 DEF dev_release, ValType
<1>3. ASSUME NEW f \in Files, mmlcd_proc_read(f) PROVE ValType'
  <2>1. ASSUME file[f].ctx \in live, NEW b \in Btns
        PROVE  last_btn_state[file[f].ctx][b] \in States
    BY <2>1, LiveCtx DEF DriverInv, StateInv
  <2>2. QED
    BY <1>3, <2>1 DEF mmlcd_proc_read, mmlcd_get_btn_idx_by_file, ValType
<1>4. QED
  BY <1>1, <1>2, <1>3, FileFrame
  DEF User, dev_open, mmlcd_proc_open, mmlcd_proc_open_store, dev_write,
      mmlcd_proc_deinit

LEMMA ValTypeHolds == Spec => []ValType
<1>1. Init => ValType
  BY DEF Init, ValType
<1>2. QED
  BY <1>1, ValTypeStep, DriverInvHolds, StateInvHolds, PTL DEF Spec

(***************************************************************************)
(* mmlcd_proc_read: the file name decides, not the minor number 0 under    *)
(* which every proc file finds its context; a file of another display      *)
(* reads as end of file, never as a button of the wrong display.           *)
(***************************************************************************)
THEOREM ReadsAreOwn == Spec => ReadsOwnDevice
<1>1. DriverInv /\ ValType /\ [Next]_vars =>
        [\A f \in Files :
           val'[f] \notin {val[f], "none"} /\ file[f].ctx \in live =>
             \E d \in ByMinor(file[f].entry[1]) :
               val'[f] = last_btn_state[intfdata[d]][file[f].entry[2]]]_vars
  <2> SUFFICES ASSUME DriverInv, ValType, [Next]_vars, NEW f \in Files,
                      val'[f] \notin {val[f], "none"}, file[f].ctx \in live
               PROVE  \E d \in ByMinor(file[f].entry[1]) :
                 val'[f] = last_btn_state[intfdata[d]][file[f].entry[2]]
    OBVIOUS
  <2> DEFINE c == file[f].ctx
  <2>1. mmlcd_proc_read(f)
    BY ValFrame DEF DriverInv, ValType
  <2>2. PICK b \in Btns : /\ <<minor[devOf[c]], b>> = file[f].entry
                          /\ val' = [val EXCEPT ![f] = last_btn_state[c][b]]
    BY <2>1 DEF mmlcd_proc_read, mmlcd_get_btn_idx_by_file
  <2>3. devOf[c] \in Devs /\ intfdata[devOf[c]] = c
    BY LiveCtx DEF DriverInv
  <2>4. devOf[c] \in ByMinor(file[f].entry[1]) /\ file[f].entry[2] = b
    BY <2>2, <2>3 DEF ByMinor
  <2>5. val'[f] = last_btn_state[intfdata[devOf[c]]][file[f].entry[2]]
    BY <2>2, <2>3, <2>4 DEF ValType
  <2>6. QED
    BY <2>4, <2>5
<1>2. QED
  BY <1>1, DriverInvHolds, ValTypeHolds, PTL DEF Spec, ReadsOwnDevice

-----------------------------------------------------------------------------
(* Type correctness.                                                       *)

BusType ==
  /\ loaded \in BOOLEAN /\ plugged \in SUBSET Devs
  /\ stale \in SUBSET {"dev_write", "proc_read", "irq"}

LEMMA BusStep == BusType /\ [Next]_vars => BusType'
<1> SUFFICES ASSUME BusType, [Next]_vars PROVE BusType'
  OBVIOUS
<1>1. CASE UNCHANGED <<loaded, plugged, stale>>
  BY <1>1 DEF BusType
<1>2. ASSUME NEW f \in Files, User(f) PROVE BusType'
  BY <1>2 DEF BusType, User, dev_open, mmlcd_proc_open,
              mmlcd_proc_open_store, dev_release, dev_write, mmlcd_proc_read
<1>3. ASSUME NEW d \in Devs, Plug(d) \/ Unplug(d) PROVE BusType'
  BY <1>3 DEF BusType, Plug, Unplug
<1>4. CASE mmlcd_init \/ mmlcd_cleanup
  BY <1>4 DEF BusType, mmlcd_init, mmlcd_cleanup
<1>5. ASSUME NEW c \in 1 .. probes, NEW b \in Btns, NEW s \in States,
             mmlcd_proc_int_in_irq(c, b, s)
      PROVE  BusType'
  BY <1>5 DEF BusType, mmlcd_proc_int_in_irq
<1>6. ASSUME NEW d \in Devs, Probe(d) \/ Disconnect(d)
      PROVE  UNCHANGED <<loaded, plugged, stale>>
  BY <1>6 DEF Probe, mmlcd_create_ctx, usb_register_dev, usb_submit_urb,
              mmlcd_proc_init, Disconnect, usb_disable_interface,
              mmlcd_proc_deinit, usb_deregister_dev, mmlcd_disconnect
<1>7. QED
  BY <1>1, <1>2, <1>3, <1>4, <1>5, <1>6 DEF Next, vars

(* Only mmlcd_probe hands a new URB to the USB core.                       *)
LEMMA UrbFrame ==
  ASSUME [Next]_vars
  PROVE  submitted' \subseteq submitted \/ \E d \in Devs : usb_submit_urb(d)
<1>1. ASSUME NEW f \in Files, User(f) PROVE UNCHANGED submitted
  BY <1>1 DEF User, dev_open, mmlcd_proc_open, mmlcd_proc_open_store,
              dev_release, dev_write, mmlcd_proc_read
<1>2. ASSUME NEW d \in Devs, Disconnect(d) \/ Unplug(d)
      PROVE  submitted' \subseteq submitted
  BY <1>2 DEF Disconnect, usb_disable_interface, mmlcd_proc_deinit,
              usb_deregister_dev, mmlcd_disconnect, Unplug
<1>3. QED
  BY <1>1, <1>2
  DEF Next, vars, mmlcd_init, mmlcd_cleanup, Plug, Probe, mmlcd_create_ctx,
      usb_register_dev, mmlcd_proc_init, mmlcd_proc_int_in_irq

(* The USB core holds URBs of contexts there have been.                    *)
UrbType == submitted \subseteq Ctxs

LEMMA UrbStep ==
  ASSUME DriverInv, UrbType, [Next]_vars
  PROVE  UrbType'
<1>1. CASE submitted' \subseteq submitted
  BY <1>1 DEF UrbType
<1>2. ASSUME NEW d \in Devs, usb_submit_urb(d) PROVE UrbType'
  <2>1. intfdata[d] \in live
    BY <1>2 DEF usb_submit_urb, DriverInv, CtxInv, Held, Unbound
  <2>2. QED
    BY <1>2, <2>1, LiveCtx DEF usb_submit_urb, UrbType, DriverInv
<1>3. QED
  BY <1>1, <1>2, UrbFrame

(***************************************************************************)
(* Type correctness of the module's state; in particular no index of       *)
(* last_btn_state or of the proc entries is ever out of bounds, and no     *)
(* file is opened without a context.                                       *)
(***************************************************************************)
THEOREM DriverTypes == Spec => []TypeOK
<1>1. /\ DriverInv /\ StateInv /\ ValType /\ BusType /\ UrbType
      /\ kept \subseteq Files
      => TypeOK
  <2> SUFFICES ASSUME DriverInv, StateInv, ValType, BusType, UrbType,
                      kept \subseteq Files
               PROVE  TypeOK
    OBVIOUS
  <2>1. probes \in 0 .. MaxProbes /\ live \in SUBSET Ctxs
    BY DriverAssumption DEF DriverInv, CtxInv, CtxType, FileInv, Ctxs
  <2>2. intfdata \in [Devs -> Ctxs \cup {NoCtx}]
    <3>1. \A d \in Devs : intfdata[d] \in Ctxs \cup {NoCtx}
      BY <2>1 DEF DriverInv, CtxInv, Held
    <3>2. QED
      BY <3>1 DEF DriverInv, CtxInv, CtxType
  <2>3. devOf \in [1 .. probes -> Devs]
    BY DEF DriverInv, CtxInv, CtxType
  <2>4. QED
    BY <2>1, <2>2, <2>3
    DEF TypeOK, DriverInv, CtxInv, CtxType, ProcType, FileInv, StateInv,
        ValType, BusType, UrbType
<1>2. Init => BusType /\ UrbType
  BY DEF Init, BusType, UrbType
<1>3. Spec => []BusType /\ []UrbType
  BY <1>2, BusStep, UrbStep, DriverInvHolds, PTL DEF Spec
<1>4. KeptInv => kept \subseteq Files
  BY DEF KeptInv
<1>5. QED
  BY <1>1, <1>3, <1>4, DriverInvHolds, StateInvHolds, ValTypeHolds,
     KeptInvHolds, PTL

-----------------------------------------------------------------------------
(* Use of contexts.  The error return of mmlcd_proc_init leaves the entries*)
(* made so far and the submitted URB behind, so the rest holds as long as  *)
(* proc_create has memory.                                                 *)

(* The other reason for proc_create to fail, a name that exists, does not  *)
(* arise: the entries under a display's number are its own.                *)
LEMMA ProcInitCases ==
  ASSUME "proc" \notin Fails, DriverInv, EntriesOwned, NEW d \in Devs,
         mmlcd_proc_init(d)
  PROVE  \/ /\ proc' = proc \cup {<<minor[d], nproc[d]>>}
            /\ nproc' = [nproc EXCEPT ![d] = nproc[d] + 1]
            /\ UNCHANGED <<phase, minor, live, intfdata>>
         \/ /\ phase' = [phase EXCEPT ![d] = "bound"]
            /\ UNCHANGED <<proc, nproc, minor, live, intfdata>>
<1>1. minor[d] # NoMinor
  BY DEF mmlcd_proc_init, DriverInv, MinorInv, HasMinor
<1>2. <<minor[d], nproc[d]>> \notin proc
  <2> SUFFICES ASSUME <<minor[d], nproc[d]>> \in proc PROVE FALSE
    OBVIOUS
  <2>1. PICK e \in Devs : Owns(e, <<minor[d], nproc[d]>>)
    BY DEF EntriesOwned
  <2>2. e = d
    BY <1>1, <2>1 DEF Owns, DriverInv, MinorInv
  <2>3. nproc[d] < nproc[d] /\ nproc[d] \in 0 .. BtnCount
    BY <2>1, <2>2 DEF Owns, mmlcd_proc_init, DriverInv, ProcType
  <2>4. QED
    BY <2>3, DriverAssumption
<1>3. QED
  BY <1>2 DEF mmlcd_proc_init

(* A display with entries keeps its number, its phase and its context in   *)
(* all steps but three of its own.                                         *)
LEMMA ListedFrame ==
  ASSUME "proc" \notin Fails, DriverInv, EntriesOwned, [Next]_vars,
         NEW d \in Devs, Listed(d)
  PROVE  /\ \/ /\ minor'[d] = minor[d] /\ phase'[d] = phase[d]
               /\ nproc'[d] = nproc[d]
            \/ mmlcd_proc_init(d) \/ usb_disable_interface(d)
            \/ mmlcd_proc_deinit(d)
         /\ intfdata'[d] = intfdata[d] /\ intfdata[d] \in live'
<1> DEFINE Goal ==
      /\ \/ /\ minor'[d] = minor[d] /\ phase'[d] = phase[d]
            /\ nproc'[d] = nproc[d]
         \/ mmlcd_proc_init(d) \/ usb_disable_interface(d)
         \/ mmlcd_proc_deinit(d)
      /\ intfdata'[d] = intfdata[d] /\ intfdata[d] \in live'
<1>0. /\ phase \in [Devs -> Phases] /\ intfdata \in [Devs -> Nat]
      /\ minor \in [Devs -> 0 .. NoMinor] /\ nproc \in [Devs -> 0 .. BtnCount]
      /\ intfdata[d] \in live
  BY DEF DriverInv, CtxInv, CtxType, Held, Unbound, ProcType, Listed,
         ListedPhases
<1>1. CASE UNCHANGED <<minor, phase, nproc, intfdata, live>>
  BY <1>0, <1>1
<1>2. CASE mmlcd_init
  BY <1>2 DEF mmlcd_init, Listed, ListedPhases
<1>3. ASSUME NEW e \in Devs, Unplug(e) PROVE Goal
  BY <1>0, <1>3 DEF Unplug, Listed, ListedPhases
<1>4. ASSUME NEW e \in Devs, e # d, ~Unbound(e), ProbeFails(e), UNCHANGED nproc
      PROVE  Goal
  <2>1. intfdata[e] # intfdata[d]
    BY <1>4, OwnContexts DEF DriverInv, Listed, ListedPhases, Unbound
  <2>2. QED
    BY <1>0, <1>4, <2>1 DEF ProbeFails, mmlcd_destroy_ctx
<1>5. ASSUME NEW e \in Devs, Probe(e) PROVE Goal
  <2>1. CASE mmlcd_create_ctx(e)
    BY <1>0, <2>1 DEF mmlcd_create_ctx, Listed, ListedPhases
  <2>2. CASE usb_register_dev(e)
    <3>1. e # d /\ ~Unbound(e)
      BY <2>2 DEF usb_register_dev, Listed, ListedPhases, Unbound
    <3>2. QED
      BY <1>0, <1>4, <2>2, <3>1 DEF usb_register_dev
  <2>3. CASE usb_submit_urb(e)
    <3>1. e # d /\ ~Unbound(e)
      BY <2>3 DEF usb_submit_urb, Listed, ListedPhases, Unbound
    <3>2. QED
      BY <1>0, <1>4, <2>3, <3>1 DEF usb_submit_urb
  <2>4. CASE mmlcd_proc_init(e)
    <3>1. UNCHANGED <<minor, live, intfdata>>
      BY <2>4, ProcInitCases
    <3>2. e # d => phase'[d] = phase[d] /\ nproc'[d] = nproc[d]
      BY <1>0, <2>4, ProcInitCases
    <3>3. QED
      BY <1>0, <2>4, <3>1, <3>2
  <2>5. QED
    BY <1>5, <2>1, <2>2, <2>3, <2>4 DEF Probe
<1>6. ASSUME NEW e \in Devs, Disconnect(e) PROVE Goal
  <2>1. CASE usb_disable_interface(e)
    BY <1>0, <2>1 DEF usb_disable_interface
  <2>2. CASE mmlcd_proc_deinit(e)
    <3>1. /\ phase' = [phase EXCEPT ![e] = "unlisted"]
          /\ UNCHANGED <<minor, nproc, intfdata, live>>
      BY <2>2 DEF mmlcd_proc_deinit
    <3>2. e # d => phase'[d] = phase[d]
      BY <1>0, <3>1
    <3>3. QED
      BY <1>0, <2>2, <3>1, <3>2
  <2>3. CASE usb_deregister_dev(e)
    BY <1>0, <2>3 DEF usb_deregister_dev, Listed, ListedPhases
  <2>4. CASE mmlcd_disconnect(e)
    <3>1. e # d /\ ~Unbound(e)
      BY <2>4 DEF mmlcd_disconnect, Listed, ListedPhases, Unbound
    <3>2. intfdata[e] # intfdata[d]
      BY <3>1, OwnContexts DEF DriverInv, Listed, ListedPhases, Unbound
    <3>3. QED
      BY <1>0, <2>4, <3>1, <3>2 DEF mmlcd_disconnect, mmlcd_destroy_ctx
  <2>5. QED
    BY <1>6, <2>1, <2>2, <2>3, <2>4 DEF Disconnect
<1>7. ASSUME NEW f \in Files, User(f) PROVE Goal
  <2>1. UNCHANGED nproc
    BY <1>7 DEF User, dev_open, mmlcd_proc_open, mmlcd_proc_open_store,
                dev_release, dev_write, mmlcd_proc_read
  <2>2. QED
    BY <1>1, <1>7, <2>1, UserFrame
<1>8. QED
  BY <1>1, <1>2, <1>3, <1>5, <1>6, <1>7
  DEF Next, vars, mmlcd_cleanup, Plug, mmlcd_proc_int_in_irq

(* Each entry keeps its owner until mmlcd_proc_deinit removes it.          *)
LEMMA EntriesStep ==
  ASSUME "proc" \notin Fails, DriverInv, EntriesOwned, [Next]_vars
  PROVE  EntriesOwned'
<1>0. /\ phase \in [Devs -> Phases] /\ nproc \in [Devs -> 0 .. BtnCount]
      /\ proc \subseteq (0 .. Minors - 1) \X Btns
  BY DEF DriverInv, CtxInv, CtxType, ProcType
<1>1. ASSUME NEW entry \in proc, entry \in proc'
      PROVE  \E d \in Devs : Owns(d, entry)'
  <2>1. PICK d \in Devs : Owns(d, entry)
    BY <1>1 DEF EntriesOwned
  <2>2. Listed(d)
    BY <2>1 DEF Owns, Listed, ListedPhases
  <2>3. CASE /\ minor'[d] = minor[d] /\ phase'[d] = phase[d]
             /\ nproc'[d] = nproc[d]
    BY <2>1, <2>3 DEF Owns
  <2>4. CASE mmlcd_proc_init(d)
    <3>1. CASE /\ nproc' = [nproc EXCEPT ![d] = nproc[d] + 1]
               /\ UNCHANGED <<phase, minor>>
      <4>1. nproc'[d] = nproc[d] + 1 /\ nproc[d] \in Nat /\ entry[2] \in Nat
        BY <1>0, <3>1, <1>1, DriverAssumption DEF Btns
      <4>2. QED
        BY <2>1, <3>1, <4>1 DEF Owns
    <3>2. CASE /\ phase' = [phase EXCEPT ![d] = "bound"]
               /\ UNCHANGED minor
      BY <1>0, <2>1, <3>2 DEF Owns
    <3>3. QED
      BY <2>4, <3>1, <3>2, ProcInitCases
  <2>5. CASE usb_disable_interface(d)
    BY <1>0, <2>1, <2>5 DEF usb_disable_interface, Owns
  <2>6. CASE mmlcd_proc_deinit(d)
    <3>1. entry \in {minor[d]} \X Btns
      BY <1>0, <1>1, <2>1 DEF Owns
    <3>2. QED
      BY <1>1, <2>6, <3>1 DEF mmlcd_proc_deinit, proc_remove
  <2>7. QED
    BY <2>2, <2>3, <2>4, <2>5, <2>6, ListedFrame
<1>2. ASSUME NEW entry \in proc', entry \notin proc
      PROVE  \E d \in Devs : Owns(d, entry)'
  <2>1. PICK d \in Devs : mmlcd_proc_init(d)
    BY <1>2, ProcFrame DEF usb_submit_urb, mmlcd_proc_deinit, proc_remove
  <2>2. /\ entry = <<minor[d], nproc[d]>> /\ UNCHANGED <<phase, minor>>
        /\ nproc' = [nproc EXCEPT ![d] = nproc[d] + 1]
    BY <1>2, <2>1, ProcInitCases
  <2>3. /\ entry[1] = minor'[d] /\ entry[2] = nproc[d]
        /\ nproc'[d] = nproc[d] + 1 /\ nproc[d] \in Nat
        /\ phase'[d] = "proc"
    BY <1>0, <2>1, <2>2, DriverAssumption DEF mmlcd_proc_init
  <2>4. QED
    BY <2>3 DEF Owns
<1>3. QED
  BY <1>1, <1>2 DEF EntriesOwned

(* A URB is killed before its display leaves the bound phase.              *)
LEMMA UrbsStep ==
  ASSUME "proc" \notin Fails, DriverInv, EntriesOwned, UrbsLive, [Next]_vars
  PROVE  UrbsLive'
<1>0. phase \in [Devs -> Phases]
  BY DEF DriverInv, CtxInv, CtxType
<1>1. ASSUME NEW c \in submitted, c \in submitted'
      PROVE  c \in live' /\ phase'[devOf'[c]] \in {"proc", "bound"}
  <2> DEFINE d == devOf[c]
  <2>1. c \in live /\ phase[d] \in {"proc", "bound"}
    BY <1>1 DEF UrbsLive
  <2>2. /\ d \in Devs /\ intfdata[d] = c /\ devOf'[c] = d
        /\ c \in CtxsOf(d)
    BY <2>1, LiveCtx, ContextsKept DEF DriverInv, CtxsOf
  <2>3. c \in live'
    BY <2>1, <2>2, ListedFrame DEF Listed, ListedPhases
  <2>4. phase'[d] \in {"proc", "bound"}
    <3>1. CASE phase'[d] = phase[d]
      BY <2>1, <3>1
    <3>2. CASE mmlcd_proc_init(d)
      BY <1>0, <2>1, <2>2, <3>2, ProcInitCases
    <3>3. CASE usb_disable_interface(d)
      BY <1>1, <2>2, <3>3 DEF usb_disable_interface
    <3>4. CASE mmlcd_proc_deinit(d)
      BY <2>1, <3>4 DEF mmlcd_proc_deinit
    <3>5. QED
      BY <2>1, <2>2, <3>1, <3>2, <3>3, <3>4, ListedFrame
      DEF Listed, ListedPhases
  <2>5. QED
    BY <2>2, <2>3, <2>4
<1>2. ASSUME NEW c \in submitted', c \notin submitted
      PROVE  c \in live' /\ phase'[devOf'[c]] \in {"proc", "bound"}
  <2>1. PICK d \in Devs : usb_submit_urb(d)
    BY <1>2, UrbFrame
  <2>2. /\ c = intfdata[d] /\ phase[d] = "registered"
        /\ phase' = [phase EXCEPT ![d] = "proc"]
        /\ UNCHANGED <<live, devOf>>
    BY <1>2, <2>1 DEF usb_submit_urb
  <2>3. c \in live /\ devOf[c] = d
    BY <2>2 DEF DriverInv, CtxInv, Held, Unbound
  <2>4. QED
    BY <1>0, <2>2, <2>3
<1>3. QED
  BY <1>1, <1>2 DEF UrbsLive

(* A file of minor number 0 is closed by proc_remove before its context is *)
(* freed.                                                                  *)
LEMMA FilesStep ==
  ASSUME "proc" \notin Fails, DriverInv, EntriesOwned, FilesLive, [Next]_vars
  PROVE  FilesLive'
<1> DEFINE Fine(f) ==
      /\ file'[f].ctx \in live'
      /\ phase'[devOf'[file'[f].ctx]] \in ListedPhases
      /\ minor'[devOf'[file'[f].ctx]] = 0
<1>0. /\ phase \in [Devs -> Phases]
      /\ file \in [Files -> Opened \cup {Closed}]
  BY DEF DriverInv, CtxInv, CtxType, FileInv
<1>1. ASSUME NEW f \in Files, file'[f] = file[f],
             OfProc(file[f]), file[f].entry[1] = 0
      PROVE  Fine(f)
  <2> DEFINE c == file[f].ctx
             d == devOf[c]
  <2>1. c \in live /\ Listed(d) /\ minor[d] = 0
    BY <1>1 DEF FilesLive
  <2>2. d \in Devs /\ intfdata[d] = c /\ devOf'[c] = d
    BY <2>1, LiveCtx, ContextsKept DEF DriverInv
  <2>3. c \in live'
    BY <2>1, <2>2, ListedFrame
  <2>4. phase'[d] \in ListedPhases /\ minor'[d] = 0
    <3>1. CASE minor'[d] = minor[d] /\ phase'[d] = phase[d]
      BY <2>1, <3>1 DEF Listed
    <3>2. CASE mmlcd_proc_init(d)
      <4>1. UNCHANGED minor
        BY <2>2, <3>2, ProcInitCases
      <4>2. phase'[d] \in {phase[d], "bound"}
        BY <1>0, <2>2, <3>2, ProcInitCases
      <4>3. QED
        BY <2>1, <4>1, <4>2 DEF Listed, ListedPhases
    <3>3. CASE usb_disable_interface(d)
      BY <1>0, <2>1, <2>2, <3>3 DEF usb_disable_interface, ListedPhases
    <3>4. CASE mmlcd_proc_deinit(d)
      <4>1. file[f].entry \in {0} \X Btns
        BY <1>0, <1>1 DEF Opened, Closed, OfProc
      <4>2. file[f].kind # "opening"
        BY <2>1, <3>4, <4>1 DEF mmlcd_proc_deinit, proc_remove
      <4>3. file'[f] = Closed
        BY <1>1, <2>1, <3>4, <4>1, <4>2
        DEF mmlcd_proc_deinit, proc_remove, OfProc
      <4>4. QED
        BY <1>1, <4>3 DEF Closed, OfProc
    <3>5. QED
      BY <2>1, <2>2, <3>1, <3>2, <3>3, <3>4, ListedFrame
  <2>5. QED
    BY <1>1, <2>2, <2>3, <2>4
<1>2. ASSUME NEW f \in Files, NEW entry \in proc, mmlcd_proc_open(f, entry),
             NEW g \in Files, OfProc(file'[g]), file'[g].entry[1] = 0
      PROVE  Fine(g)
  <2>1. PICK d \in Devs :
          /\ minor[d] = 0
          /\ file' = [file EXCEPT ![f] = [kind |-> "opening",
                                          entry |-> entry,
                                          ctx |-> intfdata[d]]]
          /\ intfdata[d] \in live /\ devOf[intfdata[d]] = d
    BY <1>2, ProcOpenType DEF DriverInv
  <2>2. CASE g # f
    BY <1>0, <1>1, <1>2, <2>1, <2>2
  <2>3. CASE g = f
    <3>1. file'[g].entry = entry /\ file'[g].ctx = intfdata[d]
      BY <1>0, <2>1, <2>3
    <3>2. PICK e \in Devs : Owns(e, entry)
      BY <1>2 DEF EntriesOwned
    <3>3. e = d
      BY <1>2, <2>1, <3>1, <3>2, DriverAssumption
      DEF Owns, DriverInv, MinorInv, NoMinor
    <3>4. Listed(d)
      BY <3>2, <3>3 DEF Owns, Listed, ListedPhases
    <3>5. UNCHANGED <<phase, minor, devOf, live>>
      BY <1>2 DEF mmlcd_proc_open
    <3>6. QED
      BY <2>1, <3>1, <3>4, <3>5 DEF Listed
  <2>4. QED
    BY <2>2, <2>3
<1>3. ASSUME NEW f \in Files, OfProc(file'[f]), file'[f].entry[1] = 0
      PROVE  Fine(f)
  <2>1. CASE UNCHANGED file
    BY <1>1, <1>3, <2>1
  <2>2. ASSUME NEW d \in Devs, mmlcd_proc_deinit(d) PROVE Fine(f)
    <3>1. file'[f] = Closed \/ file'[f] = file[f]
      BY <2>2 DEF mmlcd_proc_deinit, proc_remove
    <3>2. QED
      BY <1>1, <1>3, <3>1 DEF Closed, OfProc
  <2>3. ASSUME NEW g \in Files, User(g) PROVE Fine(f)
    <3>1. ASSUME NEW m \in 0 .. Minors - 1, dev_open(g, m) PROVE Fine(f)
      <4>1. PICK d : file' = [file EXCEPT ![g] =
                       [kind |-> "dev", minor |-> m, dev |-> d,
                        ctx |-> intfdata[d]]]
        BY <3>1 DEF dev_open
      <4>2. file'[f] = file[f]
        BY <1>0, <1>3, <4>1 DEF OfProc
      <4>3. QED
        BY <1>1, <1>3, <4>2
    <3>2. ASSUME NEW entry \in proc, mmlcd_proc_open(g, entry) PROVE Fine(f)
      BY <1>2, <1>3, <3>2
    <3>3. CASE dev_release(g)
      <4>1. file'[f] = Closed \/ file'[f] = file[f]
        BY <1>0, <3>3 DEF dev_release
      <4>2. QED
        BY <1>1, <1>3, <4>1 DEF Closed, OfProc
    <3>4. CASE mmlcd_proc_open_store(g)
      <4>1. CASE f # g
        <5>1. file'[f] = file[f]
          BY <1>0, <3>4, <4>1 DEF mmlcd_proc_open_store
        <5>2. QED
          BY <1>1, <1>3, <5>1
      <4>2. CASE f = g
        <5>1. /\ file[f].kind = "opening" /\ file'[f].entry = file[f].entry
              /\ file'[f].ctx = file[f].ctx
          <6>1. LET r == [kind |-> "proc", entry |-> file[f].entry,
                          ctx |-> file[f].ctx]
                IN  /\ file[f].kind = "opening"
                    /\ file' = [file EXCEPT ![f] = r]
            BY <3>4, <4>2, StoredType DEF DriverInv
          <6>2. QED
            BY <1>0, <6>1
        <5>2. /\ file[f].ctx \in live /\ Listed(devOf[file[f].ctx])
              /\ minor[devOf[file[f].ctx]] = 0
          BY <1>3, <5>1 DEF FilesLive, OfProc
        <5>3. UNCHANGED <<phase, minor, devOf, live>>
          BY <3>4 DEF mmlcd_proc_open_store
        <5>4. QED
          BY <5>1, <5>2, <5>3 DEF Listed
      <4>3. QED
        BY <4>1, <4>2
    <3>5. QED
      BY <2>1, <2>3, <3>1, <3>2, <3>3, <3>4
      DEF User, dev_write, mmlcd_proc_read
  <2>4. QED
    BY <2>1, <2>2, <2>3, FileFrame
<1>4. QED
  BY <1>3 DEF FilesLive, Listed

(* Who uses a freed context.                                               *)
LEMMA StaleFrame ==
  ASSUME [Next]_vars
  PROVE  /\ "irq" \in stale' => "irq" \in stale \/ ~(submitted \subseteq live)
         /\ "proc_read" \in stale' =>
              \/ "proc_read" \in stale
              \/ \E f \in Files : file[f].kind = "proc"
                                  /\ file[f].ctx \notin live
<1>1. CASE UNCHANGED stale
  BY <1>1
<1>2. ASSUME NEW f \in Files, dev_write(f)
      PROVE  stale' \subseteq stale \cup {"dev_write"}
  BY <1>2 DEF dev_write
<1>3. ASSUME NEW f \in Files, mmlcd_proc_read(f)
      PROVE  \/ UNCHANGED stale
             \/ /\ stale' = stale \cup {"proc_read"}
                /\ file[f].kind = "proc" /\ file[f].ctx \notin live
  BY <1>3 DEF mmlcd_proc_read
<1>4. ASSUME NEW c \in 1 .. probes, NEW b \in Btns, NEW s \in States,
             mmlcd_proc_int_in_irq(c, b, s)
      PROVE  \/ UNCHANGED stale
             \/ /\ stale' = stale \cup {"irq"}
                /\ c \in submitted /\ c \notin live
  BY <1>4 DEF mmlcd_proc_int_in_irq
<1>5. ASSUME NEW d \in Devs, Probe(d) \/ Disconnect(d)
      PROVE  UNCHANGED stale
  BY <1>5 DEF Probe, mmlcd_create_ctx, usb_register_dev, usb_submit_urb,
              mmlcd_proc_init, Disconnect, usb_disable_interface,
              mmlcd_proc_deinit, usb_deregister_dev, mmlcd_disconnect
<1>6. CASE \/ mmlcd_init \/ mmlcd_cleanup
           \/ \E d \in Devs : Plug(d) \/ Unplug(d)
  BY <1>6 DEF mmlcd_init, mmlcd_cleanup, Plug, Unplug
<1>7. ASSUME NEW f \in Files,
             \/ \E m \in 0 .. Minors - 1 : dev_open(f, m)
             \/ \E entry \in proc : mmlcd_proc_open(f, entry)
             \/ mmlcd_proc_open_store(f) \/ dev_release(f)
      PROVE  UNCHANGED stale
  BY <1>7 DEF dev_open, mmlcd_proc_open, mmlcd_proc_open_store, dev_release
<1>8. QED
  BY <1>1, <1>2, <1>3, <1>4, <1>5, <1>6, <1>7 DEF Next, User, vars

LEMMA UseInvHolds ==
  ASSUME "proc" \notin Fails
  PROVE  Spec => []UseInv
<1>1. Init => UseInv
  BY DEF Init, UseInv, EntriesOwned, UrbsLive, FilesLive, Closed,
         OfProc
<1>2. DriverInv /\ UseInv /\ [Next]_vars => UseInv'
  <2>1. UrbsLive => submitted \subseteq live
    BY DEF UrbsLive
  <2>2. QED
    BY <2>1, EntriesStep, UrbsStep, FilesStep, StaleFrame DEF UseInv
<1>3. QED
  BY <1>1, <1>2, DriverInvHolds, PTL DEF Spec

(***************************************************************************)
(* dev_open, and mmlcd_proc_open of a file of minor number 0, store a      *)
(* context that is alive at that moment.  While a minor number can be      *)
(* found, the interface behind it has its context, in every step of a      *)
(* probe and of a disconnect; and between the look-up and the store of     *)
(* mmlcd_proc_open that display keeps it, since the entry is its own and   *)
(* mmlcd_proc_deinit waits.                                                *)
(***************************************************************************)
THEOREM OpensFindLiveContexts ==
  ASSUME "proc" \notin Fails
  PROVE  Spec => OpenedLive
<1> DEFINE Fresh ==
      \A f \in Files :
        /\ file'[f] # file[f]
        /\ \/ file'[f].kind = "dev"
           \/ file'[f].kind = "proc" /\ file'[f].entry[1] = 0
        => file'[f].ctx \in live'
<1>1. ASSUME DriverInv, UseInv, UseInv', [Next]_vars
      PROVE  [Fresh]_vars
  <2> SUFFICES ASSUME NEW f \in Files, file'[f] # file[f],
                      \/ file'[f].kind = "dev"
                      \/ file'[f].kind = "proc" /\ file'[f].entry[1] = 0
               PROVE  file'[f].ctx \in live'
    OBVIOUS
  <2>1. CASE file'[f].kind = "proc" /\ file'[f].entry[1] = 0
    BY <1>1, <2>1 DEF UseInv, FilesLive, OfProc
  <2>2. CASE file'[f].kind = "dev"
    <3>0. DOMAIN file = Files
      BY <1>1 DEF DriverInv, FileInv
    <3>1. ~\E d \in Devs : mmlcd_proc_deinit(d)
      BY <2>2 DEF mmlcd_proc_deinit, proc_remove, Closed
    <3>2. PICK g \in Files : User(g)
      <4>1. ~UNCHANGED file
        OBVIOUS
      <4>2. QED
        BY <1>1, <3>1, <4>1, FileFrame
    <3>3. PICK m \in 0 .. Minors - 1 : dev_open(g, m)
      <4>1. ~\E entry \in proc : mmlcd_proc_open(g, entry)
        BY <2>2, <3>0 DEF mmlcd_proc_open
      <4>2. ~mmlcd_proc_open_store(g)
        <5> SUFFICES ASSUME mmlcd_proc_open_store(g) PROVE FALSE
          OBVIOUS
        <5>1. LET r == [kind |-> "proc", entry |-> file[g].entry,
                        ctx |-> file[g].ctx]
              IN  file' = [file EXCEPT ![g] = r]
          BY <1>1, StoredType DEF DriverInv
        <5>2. QED
          BY <2>2, <3>0, <5>1
      <4>3. ~dev_release(g)
        BY <2>2, <3>0 DEF dev_release, Closed
      <4>4. ~UNCHANGED file
        OBVIOUS
      <4>5. QED
        BY <3>2, <4>1, <4>2, <4>3, <4>4 DEF User, dev_write, mmlcd_proc_read
    <3>4. PICK d \in Devs :
            /\ file' = [file EXCEPT ![g] = [kind |-> "dev", minor |-> m,
                                            dev |-> d, ctx |-> intfdata[d]]]
            /\ minor[d] = m /\ UNCHANGED live
      BY <3>3 DEF dev_open, ByMinor
    <3>5. intfdata[d] \in live
      BY <1>1, <3>4, MinorHasContext, DriverAssumption DEF DriverInv, NoMinor
    <3>6. QED
      BY <3>0, <3>4, <3>5
  <2>3. QED
    BY <2>1, <2>2
<1>2. QED
  BY <1>1, DriverInvHolds, UseInvHolds, PTL DEF Spec, OpenedLive

(***************************************************************************)
(* mmlcd_proc_deinit removes what mmlcd_proc_init created, for any number  *)
(* of displays and buttons: no proc entry outlives its display's minor     *)
(* number.  Only the error return after a failing proc_create breaks this. *)
(***************************************************************************)
THEOREM EntriesHaveDisplay ==
  ASSUME "proc" \notin Fails
  PROVE  Spec => []ProcEntriesOwned
<1>1. UseInv => ProcEntriesOwned
  BY DEF UseInv, EntriesOwned, Owns, ProcEntriesOwned, ByMinor
<1>2. QED
  BY <1>1, UseInvHolds, PTL

(***************************************************************************)
(* With one minor number, and memory for proc_create, neither a read of a  *)
(* button's state nor an interrupt uses a freed context, whenever displays *)
(* leave and the module is unloaded.                                       *)
(***************************************************************************)
THEOREM UsesFindContexts ==
  ASSUME "proc" \notin Fails, Minors = 1
  PROVE  Spec => []ContextsOutliveUse
<1> DEFINE NoStaleRead == "proc_read" \notin stale
<1>1. Init => NoStaleRead
  BY DEF Init
<1>2. DriverInv /\ UseInv /\ NoStaleRead /\ [Next]_vars => NoStaleRead'
  <2>1. ASSUME DriverInv, NEW f \in Files, file[f].kind = "proc"
        PROVE  file[f].entry[1] = 0
    <3>1. file[f] \in Opened \cup {Closed}
      BY <2>1 DEF DriverInv, FileInv
    <3>2. file[f].entry \in (0 .. 0) \X Btns
      BY <2>1, <3>1 DEF Opened, Closed
    <3>3. QED
      BY <3>2
  <2>2. QED
    BY <2>1, StaleFrame DEF UseInv, FilesLive, OfProc
<1>3. Spec => []NoStaleRead
  BY <1>1, <1>2, DriverInvHolds, UseInvHolds, PTL DEF Spec
<1>4. UseInv /\ NoStaleRead => ContextsOutliveUse
  BY DEF UseInv, ContextsOutliveUse
<1>5. QED
  BY <1>3, <1>4, UseInvHolds, PTL
=============================================================================
