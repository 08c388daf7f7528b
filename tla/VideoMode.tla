----------------------------- MODULE VideoMode -----------------------------
(***************************************************************************)
(* The upscaling presets (src/src/mpv/src/video_mode.rs): three mpv        *)
(* properties written asynchronously by whoever applies a mode, skipped    *)
(* when a memo says they are what mpv runs already, and a baseline of what *)
(* mpv.conf had, read asynchronously at boot.                              *)
(*                                                                         *)
(* Appliers (boot on the main thread, then the CEF UI thread) are never    *)
(* concurrent; the replies are folded in by another thread, between any    *)
(* two locks of an apply.                                                  *)
(***************************************************************************)
EXTENDS Naturals, Sequences, FiniteSets

CONSTANTS
  MaxRefusals,  \* bound on batches of requests libmpv refuses some of
  MaxQueue      \* bound on requests libmpv has not served when one is made

ASSUME MaxQueueAssumption == MaxQueue \in Nat
ASSUME MaxRefusalsAssumption == MaxRefusals \in Nat

Modes == {"auto", "live-action", "animation", "off"}
Props == {"glsl-shaders", "scale", "dscale"}
Effective(m) == IF m = "auto" THEN "live-action" ELSE m

(* Values: what mpv.conf asked for, what a preset writes, mpv's compiled-in *)
(* default, and the empty string.                                           *)
Values == {"conf", "fsrcnnx", "anime4k", "sharp", "builtin", ""}
Conf == [p \in Props |-> "conf"]
Unread == "unread"
NoMemo == [p \in Props |-> Unread]

(* A reply may also hold no string: the property is unavailable.           *)
NoString == "no string"
Text(value) == IF value = NoString THEN "" ELSE value

VARIABLES
  selected, mode,   \* State.selected, State.mode
  baseline,         \* State.baseline: a field is Unread until its reply
  memo,             \* State.applied, NoMemo before the first success
  vm_queue,         \* requests in libmpv's dispatch queue, in order
  running,          \* the values mpv runs
  replies,          \* replies to baseline reads, not yet folded in
  pc,               \* the applier: boot, idle, scale, dscale, write
  booted,           \* boot has returned, so its thread pumps events
  next,             \* the Applied record the applier is assembling
  vm_refusals,      \* batches libmpv has refused some of
  vm_blank,         \* history: properties mpv answered without a string
  vm_refused        \* history: the record of the last apply that libmpv
                    \* refused a write of, NoMemo after one it took whole

state == <<selected, mode, baseline, memo>>
mpv == <<vm_queue, running, replies>>
vmhistory == <<vm_refusals, vm_blank, vm_refused>>
vmvars == <<state, mpv, pc, booted, next, vmhistory>>

VMInit ==
  /\ selected = "auto" /\ mode = "auto"
  /\ baseline = NoMemo /\ memo = NoMemo
  /\ vm_queue = <<>> /\ running = Conf /\ replies = <<>>
  /\ pc = "boot" /\ booted = FALSE /\ next = NoMemo
  /\ vm_refusals = 0 /\ vm_blank = {} /\ vm_refused = NoMemo
-----------------------------------------------------------------------------
(* Applying a mode *)

Read(p) == [op |-> "read", prop |-> p, value |-> ""]
Write(p, v) == [op |-> "write", prop |-> p, value |-> v]

(* What libmpv takes of three requests in a row, some of them refused.     *)
Refuses(refused) ==
  /\ vm_refusals' = IF refused = {} THEN vm_refusals ELSE vm_refusals + 1
  /\ vm_refusals' <= MaxRefusals
Offered(r, refused) == IF r.prop \in refused THEN <<>> ELSE <<r>>
BaselineReads(refused) ==
  Offered(Read("glsl-shaders"), refused) \o Offered(Read("scale"), refused)
    \o Offered(Read("dscale"), refused)
Writes(a, refused) ==
  Offered(Write("glsl-shaders", a["glsl-shaders"]), refused)
    \o Offered(Write("scale", a["scale"]), refused)
    \o Offered(Write("dscale", a["dscale"]), refused)

ChainOf(m) == CASE Effective(m) = "off" -> ""
                [] Effective(m) = "animation" -> "anime4k"
                [] OTHER -> "fsrcnnx"

(* What a mode writes to a scaler; Animation leaves it to the baseline,    *)
(* which is empty as long as the reply has not been folded in.             *)
Scaler(m, p) ==
  CASE Effective(m) = "animation" ->
         IF baseline[p] = Unread THEN "" ELSE baseline[p]
    [] Effective(m) = "off" -> "builtin"
    [] OTHER -> "sharp"

(* `apply` moves `selected`, `apply_inner` moves `mode`. *)
Begin(m) ==
  /\ mode' = m
  /\ next' = [NoMemo EXCEPT !["glsl-shaders"] = ChainOf(m)]
  /\ pc' = "scale"
  /\ UNCHANGED <<baseline, memo, running, replies, booted, vm_blank, vm_refused>>

Boot_ReadsLast(m) ==
  /\ pc = "boot"
  /\ vm_queue' = <<Write("scale", "sharp")>> \o BaselineReads({})
  /\ selected' = m
  /\ UNCHANGED vm_refusals
  /\ Begin(m)

(* `boot`: `init` queues the baseline reads, then the mode is applied. *)
Boot(m) ==
  /\ pc = "boot"
  /\ \E refused \in SUBSET Props :
       vm_queue' = BaselineReads(refused) /\ Refuses(refused)
  /\ selected' = m
  /\ Begin(m)

(* `apply_current`, from the settings page. *)
ApplyCurrent(m) ==
  /\ pc = "idle" /\ Len(vm_queue) < MaxQueue
  /\ selected' = m
  /\ Begin(m)
  /\ UNCHANGED <<vm_queue, vm_refusals>>

ApplyResolved(m) ==
  /\ pc = "idle" /\ Len(vm_queue) < MaxQueue
  /\ selected = "auto" /\ m # "auto"
  /\ Begin(m)
  /\ UNCHANGED <<selected, vm_queue, vm_refusals>>

(* Each scaler is picked under a lock of its own. *)
PickScaler(p, then) ==
  /\ pc = p
  /\ next' = [next EXCEPT ![p] = Scaler(mode, p)]
  /\ pc' = then
  /\ UNCHANGED <<state, mpv, booted, vmhistory>>

ShouldApply_IfChained == next["glsl-shaders"] # "" /\ memo # next
ShouldApply == memo # next

Skip ==
  /\ pc = "write" /\ ~ShouldApply
  /\ pc' = "idle" /\ booted' = TRUE
  /\ UNCHANGED <<state, mpv, next, vmhistory>>

Latch_Always(refused) ==
  /\ memo' = next
  /\ vm_refused' = IF refused = {} THEN NoMemo ELSE next

(* `record`, once every write has succeeded. *)
Latch(refused) ==
  /\ memo' = IF refused = {} THEN next ELSE memo
  /\ vm_refused' = IF refused = {} THEN NoMemo ELSE next

(* The read-back only feeds the log. *)
WriteAll ==
  /\ pc = "write" /\ ShouldApply
  /\ \E refused \in SUBSET Props :
       /\ vm_queue' = vm_queue \o Writes(next, refused)
       /\ Refuses(refused) /\ Latch(refused)
  /\ pc' = "idle" /\ booted' = TRUE
  /\ UNCHANGED <<selected, mode, baseline, running, replies, next, vm_blank>>
-----------------------------------------------------------------------------
(* mpv serves its queue in order; `consume_reply` folds a reply in. *)

Serve ==
  /\ vm_queue # <<>>
  /\ LET r == Head(vm_queue)
     IN IF r.op = "read"
        THEN /\ \E answer \in {running[r.prop], NoString} :
                  /\ replies' = Append(replies, [r EXCEPT !.value = answer])
                  /\ vm_blank' = IF answer = NoString THEN vm_blank \union {r.prop}
                                 ELSE vm_blank
             /\ UNCHANGED running
        ELSE /\ running' = [running EXCEPT ![r.prop] = r.value]
             /\ UNCHANGED <<replies, vm_blank>>
  /\ vm_queue' = Tail(vm_queue)
  /\ UNCHANGED <<state, pc, booted, next, vm_refusals, vm_refused>>

ConsumeReply ==
  /\ replies # <<>> /\ booted
  /\ baseline' = [baseline EXCEPT ![Head(replies).prop] = Text(Head(replies).value)]
  /\ replies' = Tail(replies)
  /\ UNCHANGED <<selected, mode, memo, vm_queue, running, pc, booted, next, vmhistory>>

VMNext == \/ \E m \in Modes : Boot(m) \/ ApplyCurrent(m) \/ ApplyResolved(m)
        \/ PickScaler("scale", "dscale") \/ PickScaler("dscale", "write")
        \/ Skip \/ WriteAll
        \/ Serve \/ ConsumeReply

VMSpec == VMInit /\ [][VMNext]_vmvars
-----------------------------------------------------------------------------
Applied == [Props -> Values \union {Unread}]

VMTypeOK ==
  /\ selected \in Modes /\ mode \in Modes
  /\ baseline \in Applied /\ memo \in Applied /\ next \in Applied
  /\ vm_queue \in Seq([op : {"read", "write"}, prop : Props, value : Values])
  /\ running \in [Props -> Values]
  /\ replies \in Seq([op : {"read"}, prop : Props, value : Values \union {NoString}])
  /\ pc \in {"boot", "idle", "scale", "dscale", "write"}
  /\ booted \in BOOLEAN
  /\ vm_refusals \in 0..MaxRefusals
  /\ vm_blank \in SUBSET Props /\ vm_refused \in Applied

(* What mpv will be running once it has served what is queued: what is     *)
(* written last, or what it runs already.                                  *)
WritesTo(n, p) == vm_queue[n].op = "write" /\ vm_queue[n].prop = p
WillRun(p, v) ==
  \/ \E n \in DOMAIN vm_queue :
       /\ WritesTo(n, p) /\ vm_queue[n].value = v
       /\ \A m \in DOMAIN vm_queue : WritesTo(m, p) => m <= n
  \/ (\A n \in DOMAIN vm_queue : ~WritesTo(n, p)) /\ running[p] = v

(* The values an applied mode may leave a scaler with: Animation has read  *)
(* the config file's or not yet.                                           *)
ScalersOf(m) == CASE Effective(m) = "animation" -> {"", "conf"}
                  [] Effective(m) = "off" -> {"builtin"}
                  [] OTHER -> {"sharp"}

(* The baseline is the config file's, although the boot apply overwrites   *)
(* the properties without waiting for the reads; it is the empty string    *)
(* only of a property that mpv had no string for.                          *)
BaselineIsConf ==
  \A p \in Props :
    \/ baseline[p] \in {Unread, "conf"}
    \/ baseline[p] = "" /\ p \in vm_blank

(* mpv ends up running the mode last applied, memo or not: its chain, and  *)
(* its scalers as far as the baseline was known.  An explicit choice is a  *)
(* statement about every title: no resolution that the page still had      *)
(* under way undoes it.  Excepted is an apply that libmpv refused a write  *)
(* of, and what comes after it until one is taken whole.                   *)
RunsTheMode ==
  pc = "idle" /\ vm_refused = NoMemo =>
    /\ selected # "auto" => mode = selected
    /\ WillRun("glsl-shaders", ChainOf(mode))
    /\ \A p \in {"scale", "dscale"} : \E v \in ScalersOf(mode) : WillRun(p, v)

(* video_mode.rs:310-311: "a failed write leaves the memo alone so the     *)
(* next apply retries": what libmpv refused in whole or in part is written *)
(* when it is asked for again, whatever was applied or skipped in between; *)
(* and as long as nothing was refused since an apply was taken whole, what *)
(* is skipped is what mpv runs or is about to.                             *)
SkipsAreSound ==
  [][Skip => /\ next # vm_refused
             /\ vm_refused = NoMemo => \A p \in Props : WillRun(p, next[p])]_vmvars

(* video_mode.rs:285-286: the memo is of the last successful write, "so an *)
(* apply that resolves to what mpv is already running writes nothing": an  *)
(* apply is skipped only when mpv runs, or is about to, what it resolved.  *)
SkipsOnlyWhatRuns == [][Skip => \A p \in Props : WillRun(p, next[p])]_vmvars

(* video_mode.rs:467-468: Animation is to "leave the scalers to the        *)
(* user's config".                                                         *)
AnimationKeepsConfScalers ==
  pc = "idle" /\ mode = "animation" /\ replies = <<>> /\ vm_queue = <<>>
    => running["scale"] = "conf" /\ running["dscale"] = "conf"
=============================================================================
