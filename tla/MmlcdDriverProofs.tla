------------------------- MODULE MmlcdDriverProofs --------------------------
(***************************************************************************)
(* Proofs about the mmlcd kernel module: what mmlcd_probe and              *)
(* mmlcd_disconnect take and give back, at every step and for any number   *)
(* of displays, files, minor numbers and buttons, whichever calls fail.    *)
(***************************************************************************)
EXTENDS MmlcdDriver, SequenceTheorems, TLAPS

(***************************************************************************)
(* The part of TypeOK that the argument needs.                             *)
(***************************************************************************)
CtxType ==
  /\ phase \in [Devs -> Phases]
  /\ intfdata \in [Devs -> Nat]
  /\ minor \in [Devs -> 0 .. NoMinor]
  /\ probes \in Nat
  /\ devOf \in Seq(Devs) /\ Len(devOf) = probes
  /\ live \subseteq 1 .. probes

(***************************************************************************)
(* A display that is being probed, bound or disconnected holds a context   *)
(* that is alive and its own; any other holds neither a context nor a      *)
(* minor number.  A live context is held by its display.                   *)
(***************************************************************************)
Unbound(d) == phase[d] \in {"none", "failed"}

Held ==
  /\ \A d \in Devs : Unbound(d) => intfdata[d] = NoCtx /\ minor[d] = NoMinor
  /\ \A d \in Devs : ~Unbound(d) => intfdata[d] \in live
  /\ \A d \in Devs : intfdata[d] \in live => devOf[intfdata[d]] = d
  /\ \A c \in live : intfdata[devOf[c]] = c

CtxInv == CtxType /\ Held

USE DEF devVars, ctxVars, fileVars

LEMMA InitCtxInv == Init => CtxInv
<1> SUFFICES ASSUME Init PROVE CtxInv
  OBVIOUS
<1>1. devOf \in Seq(Devs) /\ Len(devOf) = 0
  BY EmptySeq DEF Init
<1>2. CtxType
  BY <1>1, DriverAssumption DEF Init, CtxType, Phases, NoCtx, NoMinor
<1>3. Held
  BY DEF Init, Held, Unbound
<1>4. QED
  BY <1>2, <1>3 DEF CtxInv

(***************************************************************************)
(* Three kinds of steps change what displays hold.  The first moves a      *)
(* display on in its probe or disconnect, and may change the minor number  *)
(* of one that is not idle, but moves no context.                          *)
(***************************************************************************)
LEMMA KeepStep ==
  ASSUME CtxInv,
         UNCHANGED <<intfdata, probes, devOf, live>>,
         phase' \in [Devs -> Phases],
         minor' \in [Devs -> 0 .. NoMinor],
         \A d \in Devs : Unbound(d)' = Unbound(d),
         \A d \in Devs : Unbound(d) => minor'[d] = minor[d]
  PROVE  CtxInv'
<1>1. CtxType'
  BY DEF CtxInv, CtxType
<1>2. Held'
  BY DEF CtxInv, Held
<1>3. QED
  BY <1>1, <1>2 DEF CtxInv

(***************************************************************************)
(* The second gives up all a display holds: an error return of mmlcd_probe *)
(* and the end of mmlcd_disconnect.                                        *)
(***************************************************************************)
LEMMA ReleaseStep ==
  ASSUME CtxInv, NEW d \in Devs, NEW p \in {"none", "failed"}, ~Unbound(d),
         phase' = [phase EXCEPT ![d] = p],
         minor' = [minor EXCEPT ![d] = NoMinor],
         intfdata' = [intfdata EXCEPT ![d] = NoCtx],
         mmlcd_destroy_ctx(d),
         UNCHANGED <<probes, devOf>>
  PROVE  CtxInv'
<1>1. CtxType'
  <2>1. p \in Phases /\ NoCtx \in Nat /\ NoMinor \in 0 .. NoMinor
    BY DriverAssumption DEF Phases, NoCtx, NoMinor
  <2>2. phase' \in [Devs -> Phases] /\ intfdata' \in [Devs -> Nat]
    BY <2>1 DEF CtxInv, CtxType
  <2>3. minor' \in [Devs -> 0 .. NoMinor]
    BY <2>1 DEF CtxInv, CtxType
  <2>4. QED
    BY <2>2, <2>3 DEF CtxInv, CtxType, mmlcd_destroy_ctx
<1>2. /\ intfdata[d] \in live /\ devOf[intfdata[d]] = d
      /\ live \subseteq 1 .. probes /\ live' = live \ {intfdata[d]}
      /\ \A c \in live : devOf[c] \in Devs
  BY DEF CtxInv, CtxType, Held, mmlcd_destroy_ctx
<1>3. \A e \in Devs : e # d =>
        /\ phase'[e] = phase[e] /\ minor'[e] = minor[e]
        /\ intfdata'[e] = intfdata[e]
  BY DEF CtxInv, CtxType
<1>4. phase'[d] = p /\ minor'[d] = NoMinor /\ intfdata'[d] = NoCtx
  BY DEF CtxInv, CtxType
<1>5. \A e \in Devs : Unbound(e)' =>
        intfdata'[e] = NoCtx /\ minor'[e] = NoMinor
  BY <1>3, <1>4 DEF CtxInv, Held, Unbound
<1>6. \A e \in Devs : ~Unbound(e)' => intfdata'[e] \in live'
  <2> SUFFICES ASSUME NEW e \in Devs, ~Unbound(e)'
               PROVE  intfdata'[e] \in live'
    OBVIOUS
  <2>1. e # d
    BY <1>4 DEF Unbound
  <2>2. ~Unbound(e)
    BY <2>1, <1>3 DEF Unbound
  <2>3. intfdata[e] \in live /\ devOf[intfdata[e]] = e
    BY <2>2 DEF CtxInv, Held
  <2>4. QED
    BY <1>2, <1>3, <2>1, <2>3
<1>7. \A e \in Devs : intfdata'[e] \in live' => devOf'[intfdata'[e]] = e
  BY <1>2, <1>3, <1>4 DEF CtxInv, Held, NoCtx
<1>8. \A c \in live' : intfdata'[devOf'[c]] = c
  <2> SUFFICES ASSUME NEW c \in live'
               PROVE  intfdata'[devOf[c]] = c
    OBVIOUS
  <2>1. c \in live /\ c # intfdata[d] /\ intfdata[devOf[c]] = c
    BY <1>2 DEF CtxInv, Held
  <2>2. devOf[c] # d
    BY <2>1
  <2>3. QED
    BY <1>2, <1>3, <2>1, <2>2
<1>9. Held'
  BY <1>5, <1>6, <1>7, <1>8 DEF Held
<1>10. QED
  BY <1>1, <1>9 DEF CtxInv

(***************************************************************************)
(* The third is a new context.                                             *)
(***************************************************************************)
LEMMA CreateStep ==
  ASSUME CtxInv, NEW d \in Devs, mmlcd_create_ctx(d)
  PROVE  CtxInv'
<1>0. Unbound(d)
  BY DEF mmlcd_create_ctx, Unbound
<1>1. CASE /\ phase' = [phase EXCEPT ![d] = "failed"]
           /\ UNCHANGED <<probes, devOf, live, intfdata>>
  <2>1. /\ phase' \in [Devs -> Phases]
        /\ \A e \in Devs : Unbound(e)' = Unbound(e)
        /\ UNCHANGED minor
    BY <1>0, <1>1, DriverAssumption
    DEF mmlcd_create_ctx, CtxInv, CtxType, Unbound, Phases
  <2>2. QED
    BY <1>1, <2>1, KeepStep DEF CtxInv, CtxType
<1>2. CASE /\ probes' = probes + 1
           /\ devOf' = Append(devOf, d)
           /\ live' = live \cup {probes'}
           /\ intfdata' = [intfdata EXCEPT ![d] = probes']
           /\ phase' = [phase EXCEPT ![d] = "created"]
  <2>1. /\ probes \in Nat /\ devOf \in Seq(Devs) /\ Len(devOf) = probes
        /\ live \subseteq 1 .. probes
        /\ phase \in [Devs -> Phases] /\ intfdata \in [Devs -> Nat]
        /\ UNCHANGED minor
    BY DEF CtxInv, CtxType, mmlcd_create_ctx
  <2>2. /\ devOf' \in Seq(Devs) /\ Len(devOf') = probes + 1
        /\ \A i \in 1 .. probes : devOf'[i] = devOf[i]
        /\ devOf'[probes + 1] = d
    BY <1>2, <2>1, AppendProperties
  <2>3. CtxType'
    <3>1. "created" \in Phases /\ probes' \in Nat
      BY <1>2, <2>1 DEF Phases
    <3>2. phase' \in [Devs -> Phases] /\ intfdata' \in [Devs -> Nat]
      BY <1>2, <2>1, <3>1
    <3>3. live' \subseteq 1 .. probes'
      BY <1>2, <2>1
    <3>4. QED
      BY <1>2, <2>1, <2>2, <3>1, <3>2, <3>3 DEF CtxInv, CtxType
  <2>4. \A c \in live : devOf[c] \in Devs /\ devOf[c] # d
    <3>1. \A c \in live : devOf[c] \in Devs
      BY <2>1
    <3>2. intfdata[d] = NoCtx /\ NoCtx \notin live
      BY <1>0, <2>1 DEF CtxInv, Held, NoCtx
    <3>3. QED
      BY <3>1, <3>2 DEF CtxInv, Held
  <2>5. /\ intfdata'[d] = probes + 1 /\ phase'[d] = "created"
        /\ \A e \in Devs : e # d => intfdata'[e] = intfdata[e]
                                    /\ phase'[e] = phase[e]
    BY <1>2, <2>1
  <2>6. \A e \in Devs : Unbound(e)' =>
          intfdata'[e] = NoCtx /\ minor'[e] = NoMinor
    BY <2>1, <2>5 DEF CtxInv, Held, Unbound
  <2>7. \A e \in Devs : ~Unbound(e)' => intfdata'[e] \in live'
    BY <1>2, <2>5 DEF CtxInv, Held, Unbound
  <2>8. \A e \in Devs : intfdata'[e] \in live' => devOf'[intfdata'[e]] = e
    <3> SUFFICES ASSUME NEW e \in Devs, intfdata'[e] \in live', e # d
                 PROVE  devOf'[intfdata'[e]] = e
      BY <2>2, <2>5
    <3>1. intfdata[e] # probes + 1
      <4>1. CASE Unbound(e)
        BY <2>1, <4>1 DEF CtxInv, Held, NoCtx
      <4>2. CASE ~Unbound(e)
        BY <2>1, <4>2 DEF CtxInv, Held
      <4>3. QED
        BY <4>1, <4>2
    <3>2. intfdata[e] \in live /\ intfdata[e] \in 1 .. probes
      BY <1>2, <2>1, <2>5, <3>1
    <3>3. QED
      BY <2>2, <2>5, <3>2 DEF CtxInv, Held
  <2>9. \A c \in live' : intfdata'[devOf'[c]] = c
    <3> SUFFICES ASSUME NEW c \in live'
                 PROVE  intfdata'[devOf'[c]] = c
      OBVIOUS
    <3>1. CASE c = probes + 1
      BY <2>2, <2>5, <3>1
    <3>2. CASE c \in live
      <4>1. devOf'[c] = devOf[c]
        BY <2>1, <2>2, <3>2
      <4>2. intfdata[devOf[c]] = c
        BY <3>2 DEF CtxInv, Held
      <4>3. QED
        BY <2>4, <2>5, <3>2, <4>1, <4>2
    <3>3. QED
      BY <1>2, <3>1, <3>2
  <2>10. Held'
    BY <2>6, <2>7, <2>8, <2>9 DEF Held
  <2>11. QED
    BY <2>3, <2>10 DEF CtxInv
<1>3. QED
  BY <1>1, <1>2 DEF mmlcd_create_ctx
-----------------------------------------------------------------------------
(* The steps of mmlcd_probe and mmlcd_disconnect.                          *)

LEMMA ProbeFailsStep ==
  ASSUME CtxInv, NEW d \in Devs, ~Unbound(d), ProbeFails(d),
         UNCHANGED <<probes, devOf>>
  PROVE  CtxInv'
BY ReleaseStep DEF ProbeFails

(* Moving a display that is not idle to a phase in which it is not either. *)
LEMMA AdvanceStep ==
  ASSUME CtxInv, NEW d \in Devs, ~Unbound(d),
         NEW p \in Phases \ {"none", "failed"},
         phase' = [phase EXCEPT ![d] = p],
         NEW m \in 0 .. NoMinor,
         minor' = [minor EXCEPT ![d] = m] \/ UNCHANGED minor,
         UNCHANGED <<intfdata, probes, devOf, live>>
  PROVE  CtxInv'
<1>0. phase \in [Devs -> Phases] /\ minor \in [Devs -> 0 .. NoMinor]
  BY DEF CtxInv, CtxType
<1>1. phase' \in [Devs -> Phases] /\ minor' \in [Devs -> 0 .. NoMinor]
  BY <1>0
<1>2. \A e \in Devs : Unbound(e)' = Unbound(e)
  BY <1>0 DEF Unbound
<1>3. \A e \in Devs : Unbound(e) => minor'[e] = minor[e]
  BY <1>0
<1>4. QED
  BY <1>1, <1>2, <1>3, KeepStep

LEMMA ProbeStep ==
  ASSUME CtxInv, NEW d \in Devs, Probe(d)
  PROVE  CtxInv'
<1>0. NoMinor \in 0 .. NoMinor
  BY DriverAssumption DEF NoMinor
<1>1. CASE mmlcd_create_ctx(d)
  BY <1>1, CreateStep
<1>2. CASE usb_register_dev(d)
  <2>0. ~Unbound(d) /\ UNCHANGED <<probes, devOf>>
    BY <1>2 DEF usb_register_dev, Unbound
  <2>1. CASE ProbeFails(d)
    BY <2>0, <2>1, ProbeFailsStep
  <2>2. ASSUME NEW m \in FreeMinors, minor' = [minor EXCEPT ![d] = m],
               phase' = [phase EXCEPT ![d] = "registered"],
               UNCHANGED <<live, intfdata>>
        PROVE  CtxInv'
    <3>1. m \in 0 .. NoMinor
      BY DriverAssumption DEF FreeMinors, NoMinor
    <3>2. "registered" \in Phases \ {"none", "failed"}
      BY DEF Phases
    <3>3. QED
      BY <2>0, <2>2, <3>1, <3>2, AdvanceStep
  <2>3. QED
    BY <1>2, <2>1, <2>2 DEF usb_register_dev
<1>3. CASE usb_submit_urb(d)
  <2>0. ~Unbound(d) /\ UNCHANGED <<probes, devOf>>
    BY <1>3 DEF usb_submit_urb, Unbound
  <2>1. CASE ProbeFails(d)
    BY <2>0, <2>1, ProbeFailsStep
  <2>2. CASE /\ phase' = [phase EXCEPT ![d] = "proc"]
             /\ UNCHANGED <<minor, live, intfdata>>
    <3>1. "proc" \in Phases \ {"none", "failed"}
      BY DEF Phases
    <3>2. QED
      BY <1>0, <2>0, <2>2, <3>1, AdvanceStep
  <2>3. QED
    BY <1>3, <2>1, <2>2 DEF usb_submit_urb
<1>4. CASE mmlcd_proc_init(d)
  <2>0. ~Unbound(d) /\ UNCHANGED <<probes, devOf>>
    BY <1>4 DEF mmlcd_proc_init, Unbound
  <2>1. CASE ProbeFails(d)
    BY <2>0, <2>1, ProbeFailsStep
  <2>2. CASE /\ phase' = [phase EXCEPT ![d] = "bound"]
             /\ UNCHANGED <<minor, live, intfdata>>
    <3>1. "bound" \in Phases \ {"none", "failed"}
      BY DEF Phases
    <3>2. QED
      BY <1>0, <2>0, <2>2, <3>1, AdvanceStep
  <2>3. CASE UNCHANGED <<phase, minor, live, intfdata>>
    BY <2>0, <2>3 DEF CtxInv, CtxType, Held, Unbound
  <2>4. QED
    BY <1>4, <2>1, <2>2, <2>3 DEF mmlcd_proc_init
<1>5. QED
  BY <1>1, <1>2, <1>3, <1>4 DEF Probe

LEMMA DisconnectStep ==
  ASSUME CtxInv, NEW d \in Devs, Disconnect(d)
  PROVE  CtxInv'
<1>0. /\ NoMinor \in 0 .. NoMinor
      /\ {"disabled", "unlisted", "deregistered"} \subseteq
           Phases \ {"none", "failed"}
  BY DriverAssumption DEF NoMinor, Phases
<1>1. CASE usb_disable_interface(d)
  BY <1>0, <1>1, AdvanceStep DEF usb_disable_interface, Unbound
<1>2. CASE mmlcd_proc_deinit(d)
  BY <1>0, <1>2, AdvanceStep DEF mmlcd_proc_deinit, Unbound
<1>3. CASE usb_deregister_dev(d)
  BY <1>0, <1>3, AdvanceStep DEF usb_deregister_dev, Unbound
<1>4. CASE mmlcd_disconnect(d)
  BY <1>4, ReleaseStep DEF mmlcd_disconnect, Unbound
<1>5. QED
  BY <1>1, <1>2, <1>3, <1>4 DEF Disconnect

(* Files and interrupts leave alone what displays hold.                    *)
LEMMA UserFrame ==
  ASSUME NEW f \in Files, User(f)
  PROVE  UNCHANGED <<phase, intfdata, minor, probes, devOf, live>>
BY DEF User, dev_open, mmlcd_proc_open, mmlcd_proc_open_store, dev_release,
       dev_write, mmlcd_proc_read

LEMMA NextCtxInv == CtxInv /\ [Next]_vars => CtxInv'
<1> SUFFICES ASSUME CtxInv, [Next]_vars
             PROVE  CtxInv'
  OBVIOUS
<1>0. ASSUME UNCHANGED <<phase, intfdata, minor, probes, devOf, live>>
      PROVE  CtxInv'
  BY <1>0 DEF CtxInv, CtxType, Held, Unbound
<1>1. CASE mmlcd_init
  <2>1. /\ phase' \in [Devs -> Phases]
        /\ \A d \in Devs : Unbound(d)' = Unbound(d)
    BY <1>1 DEF mmlcd_init, Unbound, Phases
  <2>2. QED
    BY <1>1, <2>1, KeepStep DEF mmlcd_init, CtxInv, CtxType
<1>2. CASE mmlcd_cleanup
  BY <1>0, <1>2 DEF mmlcd_cleanup
<1>3. ASSUME NEW d \in Devs, Plug(d) PROVE CtxInv'
  BY <1>0, <1>3 DEF Plug
<1>4. ASSUME NEW d \in Devs, Unplug(d) PROVE CtxInv'
  <2>1. phase \in [Devs -> Phases] /\ minor \in [Devs -> 0 .. NoMinor]
    BY DEF CtxInv, CtxType
  <2>2. /\ phase' \in [Devs -> Phases]
        /\ \A e \in Devs : Unbound(e)' = Unbound(e)
    BY <1>4, <2>1 DEF Unplug, Unbound, Phases
  <2>3. QED
    BY <1>4, <2>1, <2>2, KeepStep DEF Unplug
<1>5. ASSUME NEW d \in Devs, Probe(d) PROVE CtxInv'
  BY <1>5, ProbeStep
<1>6. ASSUME NEW d \in Devs, Disconnect(d) PROVE CtxInv'
  BY <1>6, DisconnectStep
<1>7. ASSUME NEW c \in 1 .. probes, NEW b \in Btns, NEW s \in States,
             mmlcd_proc_int_in_irq(c, b, s)
      PROVE  CtxInv'
  BY <1>0, <1>7 DEF mmlcd_proc_int_in_irq
<1>8. ASSUME NEW f \in Files, User(f) PROVE CtxInv'
  BY <1>0, <1>8, UserFrame
<1>9. CASE UNCHANGED vars
  BY <1>0, <1>9 DEF vars
<1>10. QED
  BY <1>1, <1>2, <1>3, <1>4, <1>5, <1>6, <1>7, <1>8, <1>9 DEF Next

LEMMA CtxInvHolds == Spec => []CtxInv
BY InitCtxInv, NextCtxInv, PTL DEF Spec

-----------------------------------------------------------------------------
(***************************************************************************)
(* Whichever call of mmlcd_probe fails and whenever a display leaves, a    *)
(* display that is not bound holds neither a minor number nor a context:   *)
(* no error return of mmlcd_probe, and no mmlcd_disconnect, leaks either.  *)
(***************************************************************************)
THEOREM NothingLeaks == Spec => []UnboundHoldsNothing
<1>1. CtxInv => UnboundHoldsNothing
  <2> SUFFICES ASSUME CtxInv, NEW d \in Devs, Unbound(d)
               PROVE  minor[d] = NoMinor /\ CtxsOf(d) \cap live = {}
    BY DEF UnboundHoldsNothing, Unbound
  <2>1. intfdata[d] = NoCtx /\ minor[d] = NoMinor
    BY DEF CtxInv, Held
  <2>2. NoCtx \notin live
    BY DEF CtxInv, CtxType, NoCtx
  <2>3. \A c \in live : devOf[c] # d
    BY <2>1, <2>2 DEF CtxInv, Held
  <2>4. QED
    BY <2>1, <2>3 DEF CtxsOf
<1>2. QED
  BY <1>1, CtxInvHolds, PTL
=============================================================================
