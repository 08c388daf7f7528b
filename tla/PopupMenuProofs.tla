-------------------------- MODULE PopupMenuProofs --------------------------
(***************************************************************************)
(* A menu of the page on the screen of a Wayland window, for any number of *)
(* presses, menus, configures, dismissals, pictures and failures: once all *)
(* is quiet, the popup shows the menu the engine holds, in its place and   *)
(* with the row that is highlighted, unless something that this very popup *)
(* needs could not be made, or this very picture was lost.                 *)
(*                                                                         *)
(* The ops on their way from the engine to the popup - those the root      *)
(* thread has in its queue, the one in a draining thread's hand, those     *)
(* pending behind it - form one stream.  Passing an op on leaves the       *)
(* stream as it is; the engine adds at its end and the root thread takes   *)
(* from its front.  Generations in the stream never fall, and it tells     *)
(* which popup will live and which die.  What is not yet on the screen is  *)
(* owed: by an op of the engine's generation in the stream, by an event    *)
(* the root thread has not read, or by a job of the render thread.         *)
(***************************************************************************)
EXTENDS PopupMenu, SequenceTheorems, TLAPS

Places == (Nat \X Nat) \union {<<>>}
Pictures == Seq(Nat)
MenuOps ==
  [kind : {"create", "reposition"}, gen : Nat \ {0}, place : Places]
  \union [kind : {"paint"}, gen : Nat \ {0}, pixels : Pictures]
  \union [kind : {"destroy"}, gen : Nat \ {0}]
MenuEvents == [kind : {"ready", "done"}, gen : Nat \ {0}]
Menus == [id : Nat, laid : Nat, row : {0, 1}]
Renders == [kind : {"none"}]
           \union [kind : {"shape", "paint"}, gen : Nat \ {0}, of : Menus]
Popups == [gen : Nat, mapped : BOOLEAN, sent : Places, held : Places, pixels : Pictures]
MenuPhases == {"idle", "await_placeholder", "placeholder", "await_menu", "shown"}

MenuTyped ==
  /\ pm_phase \in MenuPhases /\ pm_next \in Nat /\ pm_gen \in {Nobody, pm_next}
  /\ pm_menu \in Menus /\ pm_job \in {"none", "shape", "paint"} /\ pm_shutdown \in BOOLEAN
  /\ pm_render \in Renders /\ pm_reopened \in BOOLEAN
  /\ pm_pending \in Seq(MenuOps) /\ pm_commands \in Seq(MenuOps)
  /\ pm_popup \in Popups /\ pm_armed \in Nat /\ pm_events \in Seq(MenuEvents)
  /\ pm_failed \in BOOLEAN /\ pm_refused \in Pictures

(* One thread at most drains the ops, and what it holds is one.             *)
OneLeader ==
  /\ pm_pc \in [Threads -> {"idle", "flush", "lead", "emit"}]
  /\ pm_op \in [Threads -> MenuOps \union {<<>>}]
  /\ \A t \in Threads : pm_pc[t] = "emit" => pm_op[t] \in MenuOps
  /\ \A t \in Threads : pm_pc[t] \in {"lead", "emit"} => pm_draining
  /\ \A t, u \in Threads : pm_pc[t] \in {"lead", "emit"} /\ pm_pc[u] \in {"lead", "emit"} => t = u

(* A menu opened and not open any more has its answer, or a thread has.     *)
AnswersExact ==
  /\ pm_left \in Nat /\ pm_opened \in Nat /\ pm_opened + pm_left <= MaxInputs
  /\ pm_menu.id <= pm_opened
  /\ pm_answers \in [1..MaxInputs -> {0, 1}]
  /\ pm_resolve \in [Threads -> 0..pm_opened]
  /\ \A t \in Threads : pm_pc[t] = "idle" => pm_resolve[t] = Nobody
  /\ \A t, u \in Threads : pm_resolve[t] = pm_resolve[u] /\ t # u => pm_resolve[t] = Nobody
  /\ \A m \in 1..MaxInputs :
       /\ m > pm_opened \/ m = pm_menu.id =>
            pm_answers[m] = 0 /\ \A t \in Threads : pm_resolve[t] # m
       /\ m <= pm_opened /\ m # pm_menu.id =>
            (pm_answers[m] = 0 <=> \E t \in Threads : pm_resolve[t] = m)

(* The ops on their way to the popup, in order.                             *)
HeldBy(pc, op) == IF \E t \in Threads : pc[t] = "emit"
                  THEN <<op[CHOOSE t \in Threads : pc[t] = "emit"]>> ELSE <<>>
InHand == HeldBy(pm_pc, pm_op)
Stream == pm_commands \o InHand \o pm_pending

Is(op, kind, gen) == op.kind = kind /\ op.gen = gen
Has(s, kind, gen) == \E k \in DOMAIN s : Is(s[k], kind, gen)

Ordered(s) ==
  /\ \A j, k \in DOMAIN s : j < k =>
       /\ s[j].gen <= s[k].gen
       /\ s[k].kind = "create" \/ s[j].kind = "destroy" => s[j].gen < s[k].gen
  /\ \A k \in DOMAIN s :
       /\ pm_armed <= s[k].gen /\ s[k].gen <= pm_next
       /\ s[k].kind = "create" => pm_armed < s[k].gen

(* Of the engine's generation nothing is destroyed; before it has a phase   *)
(* nothing of it is on its way, then its creation is or has been tried.     *)
Lives(s) ==
  /\ pm_phase # "idle" => /\ pm_gen # Nobody
                          /\ ~Has(s, "destroy", pm_gen)
                          /\ Has(s, "create", pm_gen) \/ pm_armed = pm_gen
  /\ pm_phase = "idle" => /\ \A k \in DOMAIN s : s[k].gen # pm_gen
                          /\ pm_gen # Nobody => pm_armed < pm_gen
                          /\ ~pm_failed
  /\ pm_phase = "placeholder" => pm_popup.gen = pm_gen

(* Of no generation, every popup is replaced or destroyed.                  *)
Goes(op, gen) == op.kind = "create" \/ Is(op, "destroy", gen)
Dies(s) ==
  pm_phase = "idle" =>
    /\ pm_popup.gen # Nobody => \E k \in DOMAIN s : Goes(s[k], pm_popup.gen)
    /\ \A k \in DOMAIN s : s[k].kind = "create" =>
         \E j \in DOMAIN s : j > k /\ Goes(s[j], s[k].gen)

PopupInv ==
  /\ pm_popup.gen \in {Nobody, pm_armed} /\ pm_armed <= pm_next
  /\ pm_popup.gen = Nobody => pm_popup = NoPopup
  /\ pm_popup.mapped => pm_popup.held = <<>>
  /\ ~pm_popup.mapped => pm_popup.pixels = <<>>
  /\ \A k \in DOMAIN pm_events : pm_events[k].gen <= pm_armed

MenuInv ==
  /\ pm_menu.id = Nobody <=> pm_menu = NoMenu
  /\ pm_menu # NoMenu => pm_gen # Nobody /\ ~pm_shutdown
  /\ pm_phase = "idle" /\ pm_gen # Nobody => pm_menu # NoMenu
  /\ pm_phase \in {"await_menu", "shown"} => pm_menu # NoMenu
  /\ pm_phase \in {"idle", "placeholder"} => pm_menu.laid = Nobody

Rendering == pm_render.kind # "none" /\ pm_render.gen = pm_gen
RenderInv ==
  /\ pm_render.kind # "none" => pm_render.gen <= pm_next /\ pm_render.of.id # Nobody
  /\ Rendering =>
       /\ pm_menu # NoMenu
       /\ pm_phase = "idle" => pm_render.kind = "shape"
       /\ pm_render.of.id # pm_menu.id => pm_job = "shape"
       /\ pm_render.kind = "paint" /\ pm_render.of.row # pm_menu.row => pm_job # "none"

LayoutDue ==
  pm_menu # NoMenu /\ pm_menu.laid # pm_menu.id =>
    pm_job = "shape" \/ (Rendering /\ pm_render.kind = "shape" /\ pm_render.of.id = pm_menu.id)

NotReplaced ==
  ~pm_reopened /\ pm_phase # "shown" =>
    /\ pm_menu.laid \in {Nobody, pm_menu.id}
    /\ pm_phase = "await_menu" => pm_menu.laid = pm_menu.id
    /\ Rendering => pm_render.of.id = pm_menu.id

Ready(gen) == \E k \in DOMAIN pm_events : Is(pm_events[k], "ready", gen)

(* The popup of the engine's generation is there, or its creation on its    *)
(* way.                                                                     *)
Reaches(s) ==
  pm_phase # "idle" => Has(s, "create", pm_gen) \/ pm_popup.gen = pm_gen

(* Before the menu's layout the popup has the placeholder's place.          *)
PlaceholderInv(s) ==
  /\ pm_phase \in {"await_placeholder", "placeholder"} =>
       /\ ~Has(s, "reposition", pm_gen)
       /\ pm_popup.gen = pm_gen => pm_popup.sent = <<Nobody, Nobody>> /\ pm_popup.held = <<>>
       /\ \A k \in DOMAIN s : Is(s[k], "create", pm_gen) => s[k].place = <<Nobody, Nobody>>
  /\ pm_phase = "await_placeholder" => Has(s, "create", pm_gen) \/ Ready(pm_gen)

(* What maps the popup unless no buffer can be had, which is a failure.     *)
Maps(op) == Is(op, "paint", pm_gen) /\ op.pixels = Invisible
Moves(s, k) ==
  /\ Is(s[k], "reposition", pm_gen) /\ s[k].place # pm_popup.sent
  /\ pm_popup.gen = pm_gen /\ pm_popup.held = <<>>
  /\ pm_popup.mapped \/ \E j \in DOMAIN s : j < k /\ Maps(s[j])
  /\ \A j \in DOMAIN s : Is(s[j], "reposition", pm_gen) => j = k

ConfigureDue(s) ==
  pm_phase = "await_menu" =>
    Ready(pm_gen) \/ Has(s, "create", pm_gen) \/ \E k \in DOMAIN s : Moves(s, k)

Last(s, k, kind) ==
  Is(s[k], kind, pm_gen) /\ \A j \in DOMAIN s : j > k => ~Is(s[j], kind, pm_gen)

PaintDue(s) ==
  pm_phase = "shown" =>
    \/ pm_job # "none"
    \/ Rendering
    \/ \E k \in DOMAIN s : Last(s, k, "paint") /\ s[k].pixels = Picture(pm_menu)
    \/ ~Has(s, "paint", pm_gen) /\ pm_popup.gen = pm_gen /\ pm_popup.pixels = Picture(pm_menu)
    \/ pm_refused = Picture(pm_menu)

PlaceDue(s) ==
  ~pm_reopened /\ pm_phase \in {"await_menu", "shown"} /\ pm_menu.laid = pm_menu.id =>
    \/ \E k \in DOMAIN s : Last(s, k, "reposition") /\ s[k].place = Placement(pm_menu)
    \/ /\ ~Has(s, "reposition", pm_gen)
       /\ \/ \E k \in DOMAIN s : Is(s[k], "create", pm_gen) /\ s[k].place = Placement(pm_menu)
          \/ /\ pm_popup.gen = pm_gen
             /\ IF pm_popup.held = <<>> THEN pm_popup.sent = Placement(pm_menu)
                ELSE pm_popup.held = Placement(pm_menu)

(* What is owed is owed only while nothing has failed.                      *)
AllDue(s) ==
  Reaches(s) /\ PlaceholderInv(s) /\ ConfigureDue(s) /\ PaintDue(s) /\ PlaceDue(s)
StreamInv(s) ==
  /\ Ordered(s) /\ Lives(s) /\ Dies(s)
  /\ ~pm_failed => AllDue(s)

PopupMenuInv ==
  /\ MenuTyped /\ OneLeader /\ AnswersExact /\ PopupInv /\ MenuInv /\ RenderInv
  /\ LayoutDue /\ NotReplaced /\ StreamInv(Stream)
-----------------------------------------------------------------------------
(* The ops *)

LEMMA OpFacts ==
  ASSUME NEW op \in MenuOps
  PROVE  /\ op.gen \in Nat \ {0} /\ op.gen # Nobody
         /\ op.kind \in {"create", "reposition", "paint", "destroy"}
         /\ op.kind \in {"create", "reposition"} => op.place \in Places
         /\ op.kind = "paint" => op.pixels \in Pictures
<1>1. CASE op \in [kind : {"create", "reposition"}, gen : Nat \ {0}, place : Places]
  BY <1>1 DEF Nobody
<1>2. CASE op \in [kind : {"paint"}, gen : Nat \ {0}, pixels : Pictures]
  BY <1>2 DEF Nobody
<1>3. CASE op \in [kind : {"destroy"}, gen : Nat \ {0}]
  BY <1>3 DEF Nobody
<1> QED BY <1>1, <1>2, <1>3 DEF MenuOps

LEMMA MadeOps ==
  ASSUME NEW g \in Nat \ {0}
  PROVE  /\ \A p \in Places : /\ Create(g, p) \in MenuOps /\ Reposition(g, p) \in MenuOps
                              /\ Create(g, p).kind = "create" /\ Create(g, p).gen = g
                              /\ Create(g, p).place = p
                              /\ Reposition(g, p).kind = "reposition"
                              /\ Reposition(g, p).gen = g /\ Reposition(g, p).place = p
         /\ \A x \in Pictures : /\ Present(g, x) \in MenuOps /\ Present(g, x).kind = "paint"
                                /\ Present(g, x).gen = g /\ Present(g, x).pixels = x
         /\ Destroy(g) \in MenuOps /\ Destroy(g).kind = "destroy" /\ Destroy(g).gen = g
BY DEF MenuOps, Create, Reposition, Present, Destroy

OneEmits(pc, op) ==
  \A t \in Threads : pc[t] = "emit" => /\ op[t] \in MenuOps
                                       /\ \A u \in Threads : pc[u] = "emit" => u = t

LEMMA HeldByIs ==
  ASSUME NEW pc, NEW op, OneEmits(pc, op)
  PROVE  /\ \A t \in Threads : pc[t] = "emit" => HeldBy(pc, op) = <<op[t]>>
         /\ (\A t \in Threads : pc[t] # "emit") => HeldBy(pc, op) = <<>>
         /\ HeldBy(pc, op) \in Seq(MenuOps)
<1>1. ASSUME NEW t \in Threads, pc[t] = "emit" PROVE HeldBy(pc, op) = <<op[t]>>
  <2>1. (CHOOSE u \in Threads : pc[u] = "emit") = t
    BY <1>1 DEF OneEmits
  <2> QED BY <1>1, <2>1 DEF HeldBy
<1>2. (\A t \in Threads : pc[t] # "emit") => HeldBy(pc, op) = <<>>
  BY DEF HeldBy
<1>3. HeldBy(pc, op) \in Seq(MenuOps)
  <2>1. CASE \E t \in Threads : pc[t] = "emit"
    <3>1. PICK t \in Threads : pc[t] = "emit"
      BY <2>1
    <3>2. PICK o \in MenuOps : o = op[t]
      BY <3>1 DEF OneEmits
    <3>3. HeldBy(pc, op) = <<o>>
      BY <1>1, <3>1, <3>2
    <3> QED BY <3>3
  <2>2. CASE ~\E t \in Threads : pc[t] = "emit"
    <3>1. HeldBy(pc, op) = <<>>
      BY <1>2, <2>2, Zenon
    <3>2. <<>> \in Seq(MenuOps)
      OBVIOUS
    <3> QED BY <3>1, <3>2, Zenon
  <2> QED BY <2>1, <2>2
<1> QED BY <1>1, <1>2, <1>3

LEMMA OneLeaderEmits == OneLeader => OneEmits(pm_pc, pm_op)
BY DEF OneLeader, OneEmits

LEMMA InHandTyped == OneLeader => InHand \in Seq(MenuOps)
<1> SUFFICES ASSUME OneLeader PROVE InHand \in Seq(MenuOps)
  OBVIOUS
<1>1. OneEmits(pm_pc, pm_op)
  BY OneLeaderEmits
<1> QED BY <1>1, HeldByIs DEF InHand

LEMMA StreamIs ==
  ASSUME MenuTyped, OneLeader
  PROVE  /\ pm_commands \in Seq(MenuOps) /\ InHand \in Seq(MenuOps)
         /\ pm_pending \in Seq(MenuOps) /\ Stream \in Seq(MenuOps)
         /\ Stream = pm_commands \o (InHand \o pm_pending)
<1>1. pm_commands \in Seq(MenuOps) /\ InHand \in Seq(MenuOps) /\ pm_pending \in Seq(MenuOps)
  BY InHandTyped DEF MenuTyped
<1>2. pm_commands \o InHand \in Seq(MenuOps)
  BY <1>1
<1>3. Stream \in Seq(MenuOps)
  BY <1>1, <1>2 DEF Stream
<1>4. Stream = pm_commands \o (InHand \o pm_pending)
  BY <1>1, ConcatAssociative DEF Stream
<1> QED BY <1>1, <1>3, <1>4

(* Passing an op on changes neither the ops nor their order.                *)
LEMMA FlushStream ==
  ASSUME MenuTyped, OneLeader, NEW t \in Threads, Flush(t)
  PROVE  OneLeader' /\ Stream' = Stream
<1>1. /\ pm_pc' \in [Threads -> {"idle", "flush", "lead", "emit"}]
      /\ pm_pc[t] = "flush"
      /\ \A u \in Threads : u # t => pm_pc'[u] = pm_pc[u]
      /\ \/ pm_draining /\ pm_pc'[t] = "idle" /\ pm_draining' = pm_draining
         \/ ~pm_draining /\ pm_pc'[t] = "lead" /\ pm_draining' = TRUE
      /\ UNCHANGED <<pm_op, pm_pending, pm_commands>>
  BY DEF Flush, Finish, Lead, OneLeader, pmroot
<1>2. OneLeader'
  <2>1. pm_op' \in [Threads -> MenuOps \union {<<>>}]
    BY <1>1 DEF OneLeader
  <2>2. \A u \in Threads : pm_pc'[u] = "emit" => pm_op'[u] \in MenuOps
    BY <1>1 DEF OneLeader
  <2>3. \A u \in Threads : pm_pc'[u] \in {"lead", "emit"} => pm_draining'
    BY <1>1 DEF OneLeader
  <2>4. \A u, v \in Threads :
          pm_pc'[u] \in {"lead", "emit"} /\ pm_pc'[v] \in {"lead", "emit"} => u = v
    BY <1>1 DEF OneLeader
  <2> QED BY <1>1, <2>1, <2>2, <2>3, <2>4 DEF OneLeader
<1>3. OneEmits(pm_pc, pm_op) /\ OneEmits(pm_pc', pm_op')
  BY <1>2, OneLeaderEmits DEF OneLeader, OneEmits
<1>4. InHand' = InHand
  <2>1. CASE \E u \in Threads : pm_pc[u] = "emit"
    <3>1. PICK u \in Threads : pm_pc[u] = "emit"
      BY <2>1
    <3>2. pm_pc'[u] = "emit" /\ pm_op'[u] = pm_op[u]
      BY <1>1, <3>1
    <3>3. HeldBy(pm_pc, pm_op) = <<pm_op[u]>>
      BY <1>3, <3>1, HeldByIs
    <3>4. HeldBy(pm_pc', pm_op') = <<pm_op'[u]>>
      BY <1>3, <3>2, HeldByIs
    <3> QED BY <3>2, <3>3, <3>4 DEF InHand
  <2>2. CASE \A u \in Threads : pm_pc[u] # "emit"
    <3>1. \A u \in Threads : pm_pc'[u] # "emit"
      BY <1>1, <2>2
    <3>2. HeldBy(pm_pc, pm_op) = <<>> /\ HeldBy(pm_pc', pm_op') = <<>>
      BY <1>3, <2>2, <3>1, HeldByIs
    <3> QED BY <3>2 DEF InHand
  <2> QED BY <2>1, <2>2
<1> QED BY <1>1, <1>2, <1>4 DEF Stream

LEMMA PopStream ==
  ASSUME MenuTyped, OneLeader, NEW t \in Threads, PopOp(t)
  PROVE  OneLeader' /\ Stream' = Stream /\ pm_pending' \in Seq(MenuOps)
<1>1. /\ pm_pc[t] = "lead" /\ \A u \in Threads : u # t => pm_pc[u] \notin {"lead", "emit"}
      /\ pm_pending \in Seq(MenuOps)
  BY DEF PopOp, OneLeader, MenuTyped
<1>2. CASE pm_pending = <<>>
  <2>1. /\ pm_pc' = [pm_pc EXCEPT ![t] = "idle"]
        /\ UNCHANGED <<pm_op, pm_pending, pm_commands>>
    BY <1>2 DEF PopOp, Finish, pmroot
  <2>2. /\ pm_pc' \in [Threads -> {"idle", "flush", "lead", "emit"}]
        /\ \A u \in Threads : pm_pc[u] # "emit" /\ pm_pc'[u] \notin {"lead", "emit"}
    BY <1>1, <2>1 DEF OneLeader
  <2>3. OneLeader'
    BY <2>1, <2>2 DEF OneLeader
  <2>4. InHand = <<>> /\ InHand' = <<>>
    <3>1. OneEmits(pm_pc, pm_op) /\ OneEmits(pm_pc', pm_op')
      BY <2>2 DEF OneEmits
    <3> QED BY <2>2, <3>1, HeldByIs DEF InHand
  <2> QED BY <1>1, <2>1, <2>3, <2>4 DEF Stream
<1>3. CASE pm_pending # <<>>
  <2>1. /\ pm_pc' = [pm_pc EXCEPT ![t] = "emit"] /\ pm_draining' = TRUE
        /\ pm_op' = [pm_op EXCEPT ![t] = Head(pm_pending)]
        /\ pm_pending' = Tail(pm_pending) /\ UNCHANGED pm_commands
    BY <1>3 DEF PopOp, pmroot
  <2>2. Head(pm_pending) \in MenuOps /\ Tail(pm_pending) \in Seq(MenuOps)
    BY <1>1, <1>3
  <2>3. /\ pm_pc' \in [Threads -> {"idle", "flush", "lead", "emit"}]
        /\ pm_op' \in [Threads -> MenuOps \union {<<>>}]
        /\ pm_pc'[t] = "emit" /\ pm_op'[t] = Head(pm_pending)
        /\ \A u \in Threads : pm_pc[u] # "emit" /\ (u # t => pm_pc'[u] \notin {"lead", "emit"})
    BY <1>1, <2>1, <2>2 DEF OneLeader
  <2>4. OneLeader'
    BY <2>1, <2>2, <2>3 DEF OneLeader
  <2>5. InHand = <<>> /\ InHand' = <<Head(pm_pending)>>
    <3>1. OneEmits(pm_pc, pm_op) /\ OneEmits(pm_pc', pm_op')
      BY <2>2, <2>3 DEF OneEmits
    <3>2. HeldBy(pm_pc, pm_op) = <<>>
      BY <2>3, <3>1, HeldByIs
    <3>3. HeldBy(pm_pc', pm_op') = <<pm_op'[t]>>
      BY <2>3, <3>1, HeldByIs
    <3> QED BY <2>3, <3>2, <3>3 DEF InHand
  <2>6. Stream' = Stream
    <3>1. <<Head(pm_pending)>> \o Tail(pm_pending) = pm_pending
      BY <1>1, <1>3
    <3>2. pm_commands \in Seq(MenuOps)
      BY DEF MenuTyped
    <3>3. <<Head(pm_pending)>> \in Seq(MenuOps)
      BY <2>2
    <3>4. (pm_commands \o <<Head(pm_pending)>>) \o Tail(pm_pending)
            = pm_commands \o (<<Head(pm_pending)>> \o Tail(pm_pending))
      BY <2>2, <3>2, <3>3, ConcatAssociative
    <3>5. (pm_commands \o <<>>) \o pm_pending = pm_commands \o pm_pending
      BY <1>1, <3>2
    <3> QED BY <2>1, <2>5, <3>1, <3>4, <3>5 DEF Stream
  <2> QED BY <2>1, <2>2, <2>4, <2>6
<1> QED BY <1>2, <1>3

LEMMA EmitStream ==
  ASSUME MenuTyped, OneLeader, NEW t \in Threads, Emit(t)
  PROVE  OneLeader' /\ Stream' = Stream /\ pm_commands' \in Seq(MenuOps)
<1>1. /\ pm_pc[t] = "emit" /\ \A u \in Threads : u # t => pm_pc[u] \notin {"lead", "emit"}
      /\ pm_pending \in Seq(MenuOps) /\ pm_commands \in Seq(MenuOps) /\ pm_op[t] \in MenuOps
      /\ pm_draining
  BY DEF Emit, OneLeader, MenuTyped
<1>2. /\ pm_pc' = [pm_pc EXCEPT ![t] = "lead"] /\ UNCHANGED <<pm_draining, pm_pending>>
      /\ pm_op' = [pm_op EXCEPT ![t] = <<>>]
      /\ pm_commands' = Append(pm_commands, pm_op[t])
  BY DEF Emit
<1>3. /\ pm_pc' \in [Threads -> {"idle", "flush", "lead", "emit"}]
      /\ pm_op' \in [Threads -> MenuOps \union {<<>>}]
      /\ \A u \in Threads : pm_pc'[u] # "emit" /\ (u # t => pm_pc'[u] # "lead")
  BY <1>1, <1>2 DEF OneLeader
<1>4. OneLeader'
  BY <1>1, <1>2, <1>3 DEF OneLeader
<1>5. InHand = <<pm_op[t]>> /\ InHand' = <<>>
  <2>1. OneEmits(pm_pc, pm_op) /\ OneEmits(pm_pc', pm_op')
    BY <1>3, OneLeaderEmits DEF OneEmits
  <2> QED BY <1>1, <1>3, <2>1, HeldByIs DEF InHand
<1>6. Append(pm_commands, pm_op[t]) = pm_commands \o <<pm_op[t]>>
      /\ Append(pm_commands, pm_op[t]) \in Seq(MenuOps)
  BY <1>1, AppendIsConcat
<1>7. Append(pm_commands, pm_op[t]) \o <<>> = Append(pm_commands, pm_op[t])
  BY <1>6, ConcatEmptySeq
<1> QED BY <1>2, <1>4, <1>5, <1>6, <1>7 DEF Stream

LEMMA ThreeConcats ==
  ASSUME NEW S, NEW a \in Seq(S), NEW b \in Seq(S), NEW c \in Seq(S)
  PROVE  a \o (b \o c) = (a \o b) \o c
BY ConcatAssociative, SMTT(60)

LEMMA UpdateStream ==
  ASSUME MenuTyped, OneLeader, NEW t \in Threads, NEW ops \in Seq(MenuOps),
         pm_pending' = pm_pending \o ops, UNCHANGED <<pm_op, pm_draining, pm_commands>>,
         pm_pc[t] = "idle", pm_pc' = [pm_pc EXCEPT ![t] = "flush"]
  PROVE  OneLeader' /\ Stream' = Stream \o ops /\ pm_pending' \in Seq(MenuOps)
<1>1. /\ pm_pc' \in [Threads -> {"idle", "flush", "lead", "emit"}]
      /\ \A u \in Threads : u # t => pm_pc'[u] = pm_pc[u]
      /\ pm_pc'[t] = "flush"
  BY DEF OneLeader
<1>2. OneLeader'
  BY <1>1 DEF OneLeader
<1>3. InHand' = InHand
  <2>1. OneEmits(pm_pc, pm_op) /\ OneEmits(pm_pc', pm_op')
    BY <1>2, OneLeaderEmits DEF OneLeader, OneEmits
  <2>2. CASE \E u \in Threads : pm_pc[u] = "emit"
    <3>1. PICK u \in Threads : pm_pc[u] = "emit"
      BY <2>2
    <3>2. pm_pc'[u] = "emit" /\ pm_op'[u] = pm_op[u]
      BY <1>1, <3>1
    <3>3. HeldBy(pm_pc, pm_op) = <<pm_op[u]>>
      BY <2>1, <3>1, HeldByIs
    <3>4. HeldBy(pm_pc', pm_op') = <<pm_op'[u]>>
      BY <2>1, <3>2, HeldByIs
    <3> QED BY <3>2, <3>3, <3>4 DEF InHand
  <2>3. CASE \A u \in Threads : pm_pc[u] # "emit"
    <3>1. \A u \in Threads : pm_pc'[u] # "emit"
      BY <1>1, <2>3
    <3> QED BY <2>1, <2>3, <3>1, HeldByIs DEF InHand
  <2> QED BY <2>2, <2>3
<1>4. /\ pm_commands \o InHand \in Seq(MenuOps) /\ pm_pending \in Seq(MenuOps)
  <2>1. pm_commands \in Seq(MenuOps) /\ InHand \in Seq(MenuOps) /\ pm_pending \in Seq(MenuOps)
    BY StreamIs
  <2> QED BY <2>1
<1>5. (pm_commands \o InHand) \o (pm_pending \o ops)
        = ((pm_commands \o InHand) \o pm_pending) \o ops
  <2>1. PICK a \in Seq(MenuOps) : a = pm_commands \o InHand
    BY <1>4
  <2>2. PICK b \in Seq(MenuOps) : b = pm_pending
    BY <1>4
  <2>3. a \o (b \o ops) = (a \o b) \o ops
    BY ThreeConcats, SMTT(60)
  <2> QED BY <2>1, <2>2, <2>3
<1>6. pm_pending \o ops \in Seq(MenuOps)
  BY <1>4
<1> QED BY <1>2, <1>3, <1>5, <1>6 DEF Stream

LEMMA TailOfConcat ==
  ASSUME NEW S, NEW c \in Seq(S), c # <<>>, NEW r \in Seq(S)
  PROVE  c \o r # <<>> /\ Head(c \o r) = Head(c) /\ Tail(c \o r) = Tail(c) \o r
<1>1. PICK q : q = c \o r
  OBVIOUS
<1>2. /\ q \in Seq(S) /\ Len(q) = Len(c) + Len(r) /\ Len(c) \in Nat \ {0} /\ Len(r) \in Nat
      /\ \A i \in 1 .. Len(c) + Len(r) : q[i] = IF i <= Len(c) THEN c[i] ELSE r[i - Len(c)]
  BY <1>1, ConcatProperties, EmptySeq, LenProperties
<1>3. q # <<>> /\ Head(q) = q[1] /\ Head(c) = c[1] /\ Tail(q) \in Seq(S)
      /\ Tail(c) \in Seq(S) /\ Len(Tail(q)) = Len(q) - 1 /\ Len(Tail(c)) = Len(c) - 1
      /\ (\A i \in 1 .. Len(q) - 1 : Tail(q)[i] = q[i + 1])
      /\ (\A i \in 1 .. Len(c) - 1 : Tail(c)[i] = c[i + 1])
  <2>1. q # <<>>
    BY <1>2, EmptySeq
  <2>2. \A x \in Seq(S) : x # <<>> =>
          /\ Head(x) = x[1] /\ Tail(x) \in Seq(S) /\ Len(Tail(x)) = Len(x) - 1
          /\ \A i \in 1 .. Len(x) - 1 : Tail(x)[i] = x[i + 1]
    OBVIOUS
  <2> QED BY <1>2, <2>1, <2>2
<1>4. Head(q) = Head(c)
  BY <1>2, <1>3
<1>5. PICK t : t = Tail(c) \o r
  OBVIOUS
<1>6. /\ t \in Seq(S) /\ Len(t) = Len(c) - 1 + Len(r)
      /\ \A i \in 1 .. Len(c) - 1 + Len(r) :
           t[i] = IF i <= Len(c) - 1 THEN Tail(c)[i] ELSE r[i - (Len(c) - 1)]
  BY <1>2, <1>3, <1>5, ConcatProperties
<1>7. PICK u : u = Tail(q)
  OBVIOUS
<1>8. PICK lc \in Nat, lr \in Nat : lc = Len(c) /\ lr = Len(r) /\ lc # 0
  BY <1>2
<1>9. u = t
  <2>1. Len(u) = lc - 1 + lr /\ Len(t) = lc - 1 + lr
    BY <1>2, <1>3, <1>6, <1>7, <1>8
  <2>2. ASSUME NEW i \in 1 .. lc - 1 + lr PROVE u[i] = t[i]
    <3>1. u[i] = q[i + 1]
      BY <1>2, <1>3, <1>7, <1>8
    <3>2. q[i + 1] = IF i + 1 <= lc THEN c[i + 1] ELSE r[i + 1 - lc]
      BY <1>2, <1>8
    <3>3. t[i] = IF i <= lc - 1 THEN Tail(c)[i] ELSE r[i - (lc - 1)]
      BY <1>6, <1>8
    <3>4. i <= lc - 1 => Tail(c)[i] = c[i + 1]
      BY <1>3, <1>8
    <3>5. i + 1 - lc = i - (lc - 1)
      OBVIOUS
    <3>6. CASE i <= lc - 1
      <4>1. i + 1 <= lc
        BY <3>6
      <4>2. u[i] = c[i + 1]
        BY <3>1, <3>2, <4>1, Zenon
      <4>3. t[i] = c[i + 1]
        BY <3>3, <3>4, <3>6, Zenon
      <4> QED BY <4>2, <4>3
    <3>7. CASE ~(i <= lc - 1)
      BY <3>1, <3>2, <3>3, <3>5, <3>7
    <3> QED BY <3>6, <3>7
  <2> QED BY <1>3, <1>6, <1>7, <2>1, <2>2, SeqEqual
<1> QED BY <1>1, <1>3, <1>4, <1>5, <1>7, <1>9

LEMMA ApplyStream ==
  ASSUME MenuTyped, OneLeader, pm_commands # <<>>, pm_commands' = Tail(pm_commands),
         UNCHANGED <<pm_pc, pm_op, pm_pending, pm_draining>>
  PROVE  /\ OneLeader' /\ pm_commands' \in Seq(MenuOps)
         /\ Stream # <<>> /\ Head(Stream) = Head(pm_commands) /\ Stream' = Tail(Stream)
<1>1. /\ pm_commands \in Seq(MenuOps) /\ InHand \in Seq(MenuOps)
      /\ pm_pending \in Seq(MenuOps) /\ Stream \in Seq(MenuOps)
      /\ Stream = pm_commands \o (InHand \o pm_pending)
  BY StreamIs
<1>2. OneLeader' /\ InHand' = InHand
  BY DEF OneLeader, InHand
<1>3. PICK c, r : c = pm_commands /\ r = InHand \o pm_pending
  OBVIOUS
<1>4. c \in Seq(MenuOps) /\ c # <<>> /\ r \in Seq(MenuOps) /\ Tail(c) \in Seq(MenuOps)
  BY <1>1, <1>3
<1>5. c \o r # <<>> /\ Head(c \o r) = Head(c) /\ Tail(c \o r) = Tail(c) \o r
  BY <1>4, TailOfConcat
<1>6. (Tail(c) \o InHand) \o pm_pending = Tail(c) \o r
  <2>1. (Tail(c) \o InHand) \o pm_pending = Tail(c) \o (InHand \o pm_pending)
    <3>1. /\ Tail(c) \in Seq(MenuOps) /\ InHand \in Seq(MenuOps)
          /\ pm_pending \in Seq(MenuOps)
      BY <1>1, <1>4
    <3> QED BY <3>1, ConcatAssociative
  <2>2. r = InHand \o pm_pending
    BY <1>3
  <2> QED BY <2>1, <2>2, Zenon
<1>7. PICK s : s = Stream
  OBVIOUS
<1>8. s # <<>> /\ Head(s) = Head(c) /\ Tail(s) = Tail(c) \o r
  <2>1. s = c \o r
    BY <1>1, <1>3, <1>7
  <2> QED BY <1>5, <2>1
<1>9. Stream' = Tail(c) \o r
  BY <1>2, <1>3, <1>6 DEF Stream
<1> QED BY <1>1, <1>2, <1>3, <1>4, <1>7, <1>8, <1>9
-----------------------------------------------------------------------------
(* How the ops on their way grow and shrink.                                *)
OpsFrom(s, l) ==
  /\ DOMAIN s = 1 .. l
  /\ \A k \in 1 .. l : /\ s[k].gen \in Nat \ {0}
                       /\ s[k].kind \in {"create", "reposition", "paint", "destroy"}
Grows(s, r, a) ==
  \E l \in Nat : /\ OpsFrom(s, l) /\ OpsFrom(r, l + 1)
                 /\ r[l + 1] = a /\ \A k \in 1 .. l : r[k] = s[k]
GrowsTwice(s, r, a, b) ==
  \E l \in Nat : /\ OpsFrom(s, l) /\ OpsFrom(r, l + 2)
                 /\ r[l + 1] = a /\ r[l + 2] = b /\ \A k \in 1 .. l : r[k] = s[k]
Shrinks(s, r, a) ==
  \E l \in Nat : /\ OpsFrom(s, l + 1) /\ OpsFrom(r, l)
                 /\ s[1] = a /\ \A k \in 1 .. l : r[k] = s[k + 1]

LEMMA OpsOf ==
  ASSUME NEW s \in Seq(MenuOps)
  PROVE  OpsFrom(s, Len(s)) /\ Len(s) \in Nat
<1>1. DOMAIN s = 1 .. Len(s) /\ Len(s) \in Nat /\ \A k \in 1 .. Len(s) : s[k] \in MenuOps
  OBVIOUS
<1>2. \A k \in 1 .. Len(s) : /\ s[k].gen \in Nat \ {0}
                             /\ s[k].kind \in {"create", "reposition", "paint", "destroy"}
  BY <1>1, OpFacts
<1> QED BY <1>1, <1>2 DEF OpsFrom

LEMMA GrowsByOne ==
  ASSUME NEW s \in Seq(MenuOps), NEW a \in MenuOps
  PROVE  s \o <<a>> \in Seq(MenuOps) /\ Grows(s, s \o <<a>>, a)
<1>1. PICK r : r = s \o <<a>>
  OBVIOUS
<1>2. r \in Seq(MenuOps)
  BY <1>1
<1>3. PICK l \in Nat : l = Len(s)
  OBVIOUS
<1>4. Len(r) = l + 1
  BY <1>1, <1>3
<1>5. r[l + 1] = a /\ \A k \in 1 .. l : r[k] = s[k]
  BY <1>1, <1>3
<1>6. OpsFrom(s, l) /\ OpsFrom(r, l + 1)
  BY <1>2, <1>3, <1>4, OpsOf
<1> QED BY <1>1, <1>2, <1>5, <1>6 DEF Grows

LEMMA GrowsByTwo ==
  ASSUME NEW s \in Seq(MenuOps), NEW a \in MenuOps, NEW b \in MenuOps
  PROVE  s \o <<a, b>> \in Seq(MenuOps) /\ GrowsTwice(s, s \o <<a, b>>, a, b)
<1>1. PICK r : r = s \o <<a, b>>
  OBVIOUS
<1>2. r \in Seq(MenuOps)
  BY <1>1
<1>3. PICK l \in Nat : l = Len(s)
  OBVIOUS
<1>4. Len(r) = l + 2
  BY <1>1, <1>3
<1>5. r[l + 1] = a /\ r[l + 2] = b /\ \A k \in 1 .. l : r[k] = s[k]
  BY <1>1, <1>3
<1>6. OpsFrom(s, l) /\ OpsFrom(r, l + 2)
  BY <1>2, <1>3, <1>4, OpsOf
<1> QED BY <1>1, <1>2, <1>5, <1>6 DEF GrowsTwice

LEMMA ShrinksByOne ==
  ASSUME NEW s \in Seq(MenuOps), s # <<>>
  PROVE  Shrinks(s, Tail(s), Head(s)) /\ Head(s) \in MenuOps
<1>1. PICK r : r = Tail(s)
  OBVIOUS
<1>2. r \in Seq(MenuOps)
  BY <1>1
<1>3. PICK l \in Nat : l + 1 = Len(s)
  <2>1. Len(s) \in Nat \ {0}
    BY EmptySeq, LenProperties
  <2>2. Len(s) - 1 \in Nat /\ (Len(s) - 1) + 1 = Len(s)
    BY <2>1
  <2> QED BY <2>2
<1>4. Len(r) = l /\ s[1] = Head(s) /\ \A k \in 1 .. l : r[k] = s[k + 1]
  BY <1>1, <1>3
<1>5. OpsFrom(s, l + 1) /\ OpsFrom(r, l)
  BY <1>2, <1>3, <1>4, OpsOf
<1>6. Head(s) \in MenuOps
  OBVIOUS
<1> QED BY <1>1, <1>4, <1>5, <1>6 DEF Shrinks
-----------------------------------------------------------------------------
Numbers ==
  /\ pm_next \in Nat /\ pm_gen \in {Nobody, pm_next} /\ pm_gen \in Nat
  /\ pm_armed \in Nat /\ pm_popup.gen \in {Nobody, pm_armed} /\ pm_armed <= pm_next
  /\ Nobody \in Nat /\ Nobody = 0

LEMMA NumbersAre == MenuTyped /\ PopupInv => Numbers
BY DEF MenuTyped, PopupInv, Numbers, Nobody

LEMMA IdleOwesNothing == pm_phase = "idle" => AllDue(Stream)
BY DEF AllDue, Reaches, PlaceholderInv, ConfigureDue, PaintDue, PlaceDue

LEMMA ClosesStream ==
  ASSUME Numbers, StreamInv(Stream), Ordered(Stream), Lives(Stream), Dies(Stream),
         pm_gen # Nobody, pm_gen' = Nobody, pm_phase' = "idle", ~pm_failed',
         UNCHANGED <<pm_next, pm_armed, pm_popup>>,
         Grows(Stream, Stream', Destroy(pm_gen))
  PROVE  StreamInv(Stream)'
<1>1. PICK l \in Nat :
        /\ OpsFrom(Stream, l) /\ OpsFrom(Stream', l + 1)
        /\ Is(Stream'[l + 1], "destroy", pm_gen) /\ \A k \in 1 .. l : Stream'[k] = Stream[k]
  BY DEF Grows, Is, Destroy
<1>2. \A k \in 1 .. l : /\ pm_armed <= Stream[k].gen /\ Stream[k].gen <= pm_gen
                        /\ Stream[k].kind = "create" => pm_armed < Stream[k].gen
                        /\ Stream[k].kind = "destroy" => Stream[k].gen < pm_gen
  BY <1>1, SMTT(60) DEF Ordered, OpsFrom, Numbers, Lives, Has, Is
<1>3. Ordered(Stream)'
  <2>1. \A j, k \in 1 .. l : j < k =>
          /\ Stream[j].gen <= Stream[k].gen
          /\ Stream[k].kind = "create" \/ Stream[j].kind = "destroy" => Stream[j].gen < Stream[k].gen
    BY <1>1 DEF Ordered, OpsFrom
  <2> QED BY <1>1, <1>2, <2>1, SMTT(60) DEF Ordered, OpsFrom, Numbers, Is
<1>4. Lives(Stream)'
  BY <1>1 DEF Lives, OpsFrom, Numbers, Nobody
<1>5. Dies(Stream)'
  <2>1. pm_popup.gen # Nobody => \E k \in 1 .. l + 1 : Goes(Stream'[k], pm_popup.gen)
    <3>1. CASE pm_phase = "idle"
      BY <1>1, <3>1 DEF Dies, OpsFrom, Goes, Is
    <3>2. CASE pm_phase # "idle" /\ Has(Stream, "create", pm_gen)
      BY <1>1, <3>2 DEF OpsFrom, Goes, Is, Has
    <3>3. CASE pm_phase # "idle" /\ pm_armed = pm_gen
      BY <1>1, <3>3 DEF OpsFrom, Goes, Is, Numbers
    <3> QED BY <3>1, <3>2, <3>3 DEF Lives
  <2>2. ASSUME NEW k \in 1 .. l + 1, Stream'[k].kind = "create"
        PROVE  \E j \in 1 .. l + 1 : j > k /\ Goes(Stream'[j], Stream'[k].gen)
    <3>1. k \in 1 .. l /\ Stream[k] = Stream'[k]
      BY <1>1, <2>2 DEF Is
    <3>2. CASE pm_phase = "idle"
      BY <1>1, <2>2, <3>1, <3>2 DEF Dies, OpsFrom, Goes, Is
    <3>3. CASE pm_phase # "idle" /\ Stream[k].gen = pm_gen
      BY <1>1, <3>1, <3>3 DEF Goes, Is
    <3>4. CASE pm_phase # "idle" /\ Stream[k].gen # pm_gen
      <4>1. pm_armed # pm_gen
        <5>1. pm_armed < Stream[k].gen /\ Stream[k].gen <= pm_gen /\ Stream[k].gen \in Nat
          BY <1>1, <1>2, <2>2, <3>1 DEF OpsFrom
        <5> QED BY <5>1 DEF Numbers
      <4>2. PICK j \in 1 .. l : Is(Stream[j], "create", pm_gen)
        BY <1>1, <3>4, <4>1 DEF Lives, Has, OpsFrom
      <4>3. j > k
        <5>1. Stream[k].gen < pm_gen /\ Stream[j].gen = pm_gen
          <6>1. Stream[k].gen \in Nat /\ Stream[k].gen <= pm_gen
            BY <1>1, <1>2, <3>1 DEF OpsFrom
          <6> QED BY <3>4, <4>2, <6>1 DEF Is, Numbers
        <5>2. ~(Stream[j].gen <= Stream[k].gen)
          <6>1. Stream[k].gen \in Nat
            BY <1>1, <3>1 DEF OpsFrom
          <6> QED BY <5>1, <6>1 DEF Numbers
        <5>3. ~(j < k)
          BY <1>1, <3>1, <5>2 DEF Ordered, OpsFrom
        <5>4. j # k
          BY <3>4, <5>1
        <5> QED BY <3>1, <5>3, <5>4
      <4> QED BY <1>1, <4>2, <4>3 DEF Goes, Is
    <3> QED BY <3>2, <3>3, <3>4
  <2> QED BY <1>1, <2>1, <2>2 DEF Dies, OpsFrom
<1>6. AllDue(Stream)'
  BY DEF AllDue, Reaches, PlaceholderInv, ConfigureDue, PaintDue, PlaceDue
<1> QED BY <1>3, <1>4, <1>5, <1>6 DEF StreamInv

LEMMA ClearedStream ==
  ASSUME Numbers, Ordered(Stream), Lives(Stream), Dies(Stream), MenuInv,
         pm_gen = Nobody, pm_gen' = Nobody, pm_phase' = "idle", ~pm_failed',
         UNCHANGED <<pm_next, pm_armed, pm_popup>>, Stream' = Stream
  PROVE  StreamInv(Stream)'
<1>1. pm_phase = "idle"
  BY DEF Lives
<1>2. Ordered(Stream)' /\ Lives(Stream)' /\ Dies(Stream)'
  BY <1>1 DEF Ordered, Lives, Dies, Goes, Is
<1>3. AllDue(Stream)'
  BY DEF AllDue, Reaches, PlaceholderInv, ConfigureDue, PaintDue, PlaceDue
<1> QED BY <1>2, <1>3 DEF StreamInv

LEMMA ArmsStream ==
  ASSUME Numbers, Ordered(Stream),
         pm_next' = pm_next + 1, pm_gen' = pm_next + 1, pm_phase' = "await_placeholder",
         UNCHANGED <<pm_armed, pm_popup>>,
         Grows(Stream, Stream', Create(pm_next + 1, <<Nobody, Nobody>>))
  PROVE  StreamInv(Stream)'
<1>1. PICK l \in Nat :
        /\ OpsFrom(Stream, l) /\ OpsFrom(Stream', l + 1)
        /\ Is(Stream'[l + 1], "create", pm_next + 1)
        /\ Stream'[l + 1].place = <<Nobody, Nobody>> /\ \A k \in 1 .. l : Stream'[k] = Stream[k]
  BY DEF Grows, Is, Create
<1>2. \A k \in 1 .. l : /\ pm_armed <= Stream[k].gen /\ Stream[k].gen <= pm_next
                        /\ Stream[k].kind = "create" => pm_armed < Stream[k].gen
  BY <1>1 DEF Ordered, OpsFrom
<1>3. Ordered(Stream)'
  <2>1. \A j, k \in 1 .. l : j < k =>
          /\ Stream[j].gen <= Stream[k].gen
          /\ Stream[k].kind = "create" \/ Stream[j].kind = "destroy" => Stream[j].gen < Stream[k].gen
    BY <1>1 DEF Ordered, OpsFrom
  <2> QED BY <1>1, <1>2, <2>1, SMTT(60) DEF Ordered, OpsFrom, Numbers, Is
<1>4. \A k \in 1 .. l : Stream'[k].gen # pm_gen'
  BY <1>1, <1>2 DEF OpsFrom, Numbers
<1>5. Lives(Stream)'
  BY <1>1, <1>4, SMTT(60) DEF Lives, Has, OpsFrom, Numbers, Is
<1>6. PlaceholderInv(Stream)'
  <2>1. pm_popup'.gen # pm_gen'
    BY DEF Numbers
  <2> QED BY <1>1, <1>4, <2>1 DEF PlaceholderInv, Has, OpsFrom, Numbers, Is
<1>7. Reaches(Stream)'
  BY <1>1 DEF Reaches, Has, OpsFrom
<1>8. AllDue(Stream)'
  BY <1>6, <1>7 DEF AllDue, ConfigureDue, PaintDue, PlaceDue
<1> QED BY <1>3, <1>5, <1>8 DEF StreamInv, Dies
-----------------------------------------------------------------------------
LEMMA KeptStream ==
  ASSUME Numbers, StreamInv(Stream),
         UNCHANGED <<pm_phase, pm_gen, pm_next, pm_armed, pm_popup, pm_failed>>, Stream' = Stream,
         Ready(pm_gen) => Ready(pm_gen)' \/ Has(Stream, "create", pm_gen),
         AllDue(Stream) => PaintDue(Stream)' /\ PlaceDue(Stream)'
  PROVE  StreamInv(Stream)'
<1>1. Ordered(Stream)' /\ Lives(Stream)' /\ Dies(Stream)'
  <2>1. Ordered(Stream)'
    BY DEF StreamInv, Ordered
  <2>2. Lives(Stream)'
    BY DEF StreamInv, Lives, Has, Is
  <2>3. Dies(Stream)'
    BY DEF StreamInv, Dies, Goes, Is
  <2> QED BY <2>1, <2>2, <2>3
<1>2. SUFFICES ASSUME AllDue(Stream) PROVE AllDue(Stream)'
  BY <1>1 DEF StreamInv
<1>3. PICK h : h = Has(Stream, "create", pm_gen) /\ h = Has(Stream, "create", pm_gen)'
  BY DEF Has, Is
<1>4. PlaceholderInv(Stream)'
  <2>1. /\ pm_phase' = "await_placeholder" => h \/ Ready(pm_gen)'
        /\ (h \/ Ready(pm_gen)') = (Has(Stream, "create", pm_gen) \/ Ready(pm_gen))'
    BY <1>2, <1>3 DEF AllDue, PlaceholderInv
  <2>2. pm_phase' = "await_placeholder" => (Has(Stream, "create", pm_gen) \/ Ready(pm_gen))'
    BY <2>1
  <2>3. (pm_phase \in {"await_placeholder", "placeholder"} =>
          /\ ~Has(Stream, "reposition", pm_gen)
          /\ pm_popup.gen = pm_gen => pm_popup.sent = <<Nobody, Nobody>> /\ pm_popup.held = <<>>
          /\ \A k \in DOMAIN Stream : Is(Stream[k], "create", pm_gen)
               => Stream[k].place = <<Nobody, Nobody>>)'
    BY <1>2 DEF AllDue, PlaceholderInv, Has, Is
  <2> QED BY <2>2, <2>3 DEF PlaceholderInv
<1>5. ConfigureDue(Stream)'
  <2>1. (\E k \in DOMAIN Stream : Moves(Stream, k)) => (\E k \in DOMAIN Stream : Moves(Stream, k))'
    BY DEF Moves, Maps, Is
  <2> QED BY <1>2, <1>3, <2>1 DEF AllDue, ConfigureDue
<1>6. Reaches(Stream)'
  BY <1>2, <1>3 DEF AllDue, Reaches
<1> QED BY <1>2, <1>4, <1>5, <1>6 DEF AllDue

(* The engine has a new generation, and no popup for it yet.                *)
LEMMA NewGenerationStream ==
  ASSUME Numbers, Ordered(Stream), Lives(Stream), Dies(Stream), pm_phase = "idle",
         pm_phase' = "idle", pm_next' = pm_next + 1, pm_gen' = pm_next + 1,
         UNCHANGED <<pm_armed, pm_popup, pm_failed>>,
         Stream' = Stream, Stream \in Seq(MenuOps)
  PROVE  StreamInv(Stream)'
<1>1. PICK l \in Nat : OpsFrom(Stream, l)
  BY OpsOf
<1>2. Ordered(Stream)'
  BY <1>1 DEF Ordered, OpsFrom, Numbers
<1>3. \A k \in DOMAIN Stream : Stream[k].gen # pm_next + 1
  BY <1>1 DEF Ordered, OpsFrom, Numbers
<1>4. Lives(Stream)'
  BY <1>3 DEF Lives, Numbers
<1>5. Dies(Stream)'
  BY DEF Dies, Goes, Is
<1>6. AllDue(Stream)'
  BY DEF AllDue, Reaches, PlaceholderInv, ConfigureDue, PaintDue, PlaceDue
<1> QED BY <1>2, <1>4, <1>5, <1>6 DEF StreamInv

LEMMA BeginsStream ==
  ASSUME Numbers, StreamInv(Stream),
         pm_phase \in {"placeholder", "await_placeholder"}, pm_popup.gen = pm_gen,
         pm_phase' = "await_menu", UNCHANGED <<pm_gen, pm_next, pm_armed, pm_popup, pm_failed>>,
         NEW m, pm_menu' = m, m.id # Nobody,
         GrowsTwice(Stream, Stream', Present(pm_gen, Invisible), Reposition(pm_gen, Placement(m)))
  PROVE  StreamInv(Stream)'
<1>1. PICK l \in Nat :
        /\ OpsFrom(Stream, l) /\ OpsFrom(Stream', l + 2)
        /\ Is(Stream'[l + 1], "paint", pm_gen) /\ Stream'[l + 1].pixels = Invisible
        /\ Is(Stream'[l + 2], "reposition", pm_gen) /\ Stream'[l + 2].place = Placement(m)
        /\ \A k \in 1 .. l : Stream'[k] = Stream[k]
  BY DEF GrowsTwice, Is, Present, Reposition
<1>2. \A k \in 1 .. l : /\ pm_armed <= Stream[k].gen /\ Stream[k].gen <= pm_next
                        /\ Stream[k].kind = "create" => pm_armed < Stream[k].gen
                        /\ Stream[k].kind = "destroy" => Stream[k].gen # pm_gen
  BY <1>1 DEF StreamInv, Ordered, OpsFrom, Lives, Has, Is
<1>3. pm_gen = pm_next /\ pm_armed = pm_gen
  BY DEF Numbers, StreamInv, Lives
<1>4. Ordered(Stream)'
  <2>1. \A j, k \in 1 .. l : j < k =>
          /\ Stream[j].gen <= Stream[k].gen
          /\ Stream[k].kind = "create" \/ Stream[j].kind = "destroy" => Stream[j].gen < Stream[k].gen
    BY <1>1 DEF StreamInv, Ordered, OpsFrom
  <2>2. \A k \in 1 .. l + 2 : k \in 1 .. l \/ k = l + 1 \/ k = l + 2
    OBVIOUS
  <2>3. \A k \in 1 .. l + 2 : /\ pm_armed <= Stream'[k].gen /\ Stream'[k].gen <= pm_next
                              /\ Stream'[k].kind = "create" => pm_armed < Stream'[k].gen
    BY <1>1, <1>2, <1>3, <2>2 DEF Is, Numbers
  <2>4. ASSUME NEW j \in 1 .. l + 2, NEW k \in 1 .. l + 2, j < k
        PROVE  /\ Stream'[j].gen <= Stream'[k].gen
               /\ Stream'[k].kind = "create" \/ Stream'[j].kind = "destroy"
                    => Stream'[j].gen < Stream'[k].gen
    <3>1. CASE k \in 1 .. l
      BY <1>1, <2>1, <2>4, <3>1
    <3>2. CASE k \in {l + 1, l + 2} /\ j \in 1 .. l
      <4>1. Stream[j].gen \in Nat /\ Stream[j].gen <= pm_gen
            /\ (Stream[j].kind = "destroy" => Stream[j].gen < pm_gen)
        BY <1>1, <1>2, <1>3, <3>2 DEF OpsFrom, Numbers
      <4> QED BY <1>1, <3>2, <4>1 DEF Is
    <3>3. CASE k = l + 2 /\ j = l + 1
      BY <1>1, <1>3, <3>3 DEF Is, Numbers
    <3> QED BY <2>2, <2>4, <3>1, <3>2, <3>3
  <2> QED BY <1>1, <2>3, <2>4 DEF Ordered, OpsFrom
<1>5. Lives(Stream)'
  BY <1>1, <1>2, <1>3 DEF StreamInv, Lives, Has, Is, OpsFrom
<1>6. SUFFICES ASSUME AllDue(Stream) PROVE AllDue(Stream)'
  BY <1>4, <1>5 DEF StreamInv, Dies
<1>7. \A k \in 1 .. l : ~Is(Stream[k], "reposition", pm_gen)
  BY <1>1, <1>6 DEF AllDue, PlaceholderInv, Has, OpsFrom
<1>8. Moves(Stream, l + 2)'
  <2>1. Placement(m) # <<Nobody, Nobody>>
    BY DEF Placement
  <2>2. \A j \in 1 .. l + 2 : Is(Stream'[j], "reposition", pm_gen) => j = l + 2
    BY <1>1, <1>7 DEF Is
  <2>3. Stream'[l + 2].place # pm_popup'.sent /\ pm_popup'.held = <<>>
    BY <1>1, <1>6, <2>1 DEF AllDue, PlaceholderInv
  <2>4. l + 1 \in DOMAIN Stream' /\ l + 1 < l + 2 /\ DOMAIN Stream' = 1 .. l + 2
    BY <1>1 DEF OpsFrom
  <2>5. \E j \in DOMAIN Stream' : j < l + 2 /\ Maps(Stream'[j])
    BY <1>1, <2>4 DEF Maps
  <2> QED BY <1>1, <2>2, <2>3, <2>4, <2>5 DEF Moves, Maps, Is
<1>9. ConfigureDue(Stream)'
  BY <1>1, <1>8 DEF ConfigureDue, OpsFrom
<1>10. PlaceDue(Stream)'
  <2>1. Last(Stream, l + 2, "reposition")'
    BY <1>1 DEF Last, Is, OpsFrom
  <2>2. Stream'[l + 2].place = Placement(pm_menu)'
    BY <1>1 DEF Placement
  <2> QED BY <1>1, <2>1, <2>2 DEF PlaceDue, OpsFrom
<1>11. Reaches(Stream)'
  BY DEF Reaches
<1> QED BY <1>9, <1>10, <1>11 DEF AllDue, PlaceholderInv, PaintDue
-----------------------------------------------------------------------------
(* An op of the engine's generation that neither creates nor destroys.      *)
LEMMA GoesOn ==
  ASSUME Numbers, Ordered(Stream), Lives(Stream), pm_phase # "idle",
         pm_phase' \notin {"idle", "placeholder"} \/ pm_phase' = pm_phase,
         UNCHANGED <<pm_gen, pm_next, pm_armed, pm_popup>>,
         NEW a, a.gen = pm_gen, a.kind \in {"paint", "reposition"}, Grows(Stream, Stream', a)
  PROVE  Ordered(Stream)' /\ Lives(Stream)' /\ Dies(Stream)'
<1>1. PICK l \in Nat :
        /\ OpsFrom(Stream, l) /\ OpsFrom(Stream', l + 1) /\ Stream'[l + 1] = a
        /\ \A k \in 1 .. l : Stream'[k] = Stream[k]
  BY DEF Grows
<1>2. \A k \in 1 .. l : /\ pm_armed <= Stream[k].gen /\ Stream[k].gen <= pm_next
                        /\ Stream[k].kind = "create" => pm_armed < Stream[k].gen
                        /\ Stream[k].kind = "destroy" => Stream[k].gen # pm_gen
  BY <1>1 DEF Ordered, OpsFrom, Lives, Has, Is
<1>3. pm_gen = pm_next
  BY DEF Numbers, Lives
<1>4. Ordered(Stream)'
  <2>1. \A j, k \in 1 .. l : j < k =>
          /\ Stream[j].gen <= Stream[k].gen
          /\ Stream[k].kind = "create" \/ Stream[j].kind = "destroy" => Stream[j].gen < Stream[k].gen
    BY <1>1 DEF Ordered, OpsFrom
  <2>2. \A k \in 1 .. l + 1 : k \in 1 .. l \/ k = l + 1
    OBVIOUS
  <2>3. \A k \in 1 .. l + 1 : /\ pm_armed <= Stream'[k].gen /\ Stream'[k].gen <= pm_next
                              /\ Stream'[k].kind = "create" => pm_armed < Stream'[k].gen
    BY <1>1, <1>2, <1>3, <2>2 DEF Numbers
  <2>4. ASSUME NEW j \in 1 .. l + 1, NEW k \in 1 .. l + 1, j < k
        PROVE  /\ Stream'[j].gen <= Stream'[k].gen
               /\ Stream'[k].kind = "create" \/ Stream'[j].kind = "destroy"
                    => Stream'[j].gen < Stream'[k].gen
    <3>1. CASE k \in 1 .. l
      BY <1>1, <2>1, <2>4, <3>1
    <3>2. CASE k = l + 1
      <4>1. j \in 1 .. l
        BY <2>4, <3>2
      <4>2. Stream[j].gen \in Nat /\ Stream[j].gen <= pm_gen
            /\ (Stream[j].kind = "destroy" => Stream[j].gen < pm_gen)
        BY <1>1, <1>2, <1>3, <4>1 DEF OpsFrom, Numbers
      <4> QED BY <1>1, <3>2, <4>1, <4>2
    <3> QED BY <2>2, <3>1, <3>2
  <2> QED BY <1>1, <2>3, <2>4 DEF Ordered, OpsFrom
<1>5. Lives(Stream)'
  BY <1>1, <1>2 DEF Lives, Has, Is, OpsFrom
<1> QED BY <1>4, <1>5 DEF Dies, Lives

LEMMA CreatesStream ==
  ASSUME Numbers, Ordered(Stream), Lives(Stream), pm_phase = "idle", pm_gen # Nobody,
         pm_phase' = "await_menu", UNCHANGED <<pm_gen, pm_next, pm_armed, pm_popup>>,
         Grows(Stream, Stream', Create(pm_gen, Placement(pm_menu)'))
  PROVE  StreamInv(Stream)'
<1>1. PICK l \in Nat :
        /\ OpsFrom(Stream, l) /\ OpsFrom(Stream', l + 1)
        /\ Is(Stream'[l + 1], "create", pm_gen) /\ Stream'[l + 1].place = Placement(pm_menu)'
        /\ \A k \in 1 .. l : Stream'[k] = Stream[k]
  BY DEF Grows, Create, Is
<1>2. \A k \in 1 .. l : /\ pm_armed <= Stream[k].gen /\ Stream[k].gen < pm_gen
                        /\ Stream[k].kind = "create" => pm_armed < Stream[k].gen
  BY <1>1, SMTT(60) DEF Ordered, OpsFrom, Lives, Numbers
<1>3. pm_gen = pm_next /\ pm_armed < pm_gen
  BY DEF Numbers, Lives
<1>4. Ordered(Stream)'
  <2>1. \A j, k \in 1 .. l : j < k =>
          /\ Stream[j].gen <= Stream[k].gen
          /\ Stream[k].kind = "create" \/ Stream[j].kind = "destroy" => Stream[j].gen < Stream[k].gen
    BY <1>1 DEF Ordered, OpsFrom
  <2> QED BY <1>1, <1>2, <1>3, <2>1, SMTT(60) DEF Ordered, OpsFrom, Numbers, Is
<1>5. Has(Stream, "create", pm_gen)'
  BY <1>1 DEF Has, Is, OpsFrom
<1>6. Lives(Stream)'
  <2>1. ~Has(Stream, "destroy", pm_gen)'
    BY <1>1, <1>2 DEF Has, Is, OpsFrom, Numbers
  <2> QED BY <1>5, <2>1 DEF Lives
<1>7. ~Has(Stream, "reposition", pm_gen)'
  BY <1>1, <1>2 DEF Has, Is, OpsFrom, Numbers
<1>8. PlaceDue(Stream)'
  <2>1. \E k \in DOMAIN Stream' : Is(Stream'[k], "create", pm_gen') /\ Stream'[k].place = Placement(pm_menu)'
    BY <1>1 DEF OpsFrom
  <2> QED BY <1>7, <2>1 DEF PlaceDue
<1>9. AllDue(Stream)'
  BY <1>5, <1>8 DEF AllDue, Reaches, PlaceholderInv, ConfigureDue, PaintDue
<1> QED BY <1>4, <1>6, <1>9 DEF StreamInv, Dies

LEMMA MovesStream ==
  ASSUME Numbers, StreamInv(Stream), pm_phase = "shown", pm_phase' = "shown",
         UNCHANGED <<pm_gen, pm_next, pm_armed, pm_popup, pm_failed>>, pm_job' # "none",
         Grows(Stream, Stream', Reposition(pm_gen, Placement(pm_menu)'))
  PROVE  StreamInv(Stream)'
<1>1. PICK a : a = Reposition(pm_gen, Placement(pm_menu)')
  OBVIOUS
<1>2. a.gen = pm_gen /\ a.kind = "reposition" /\ a.place = Placement(pm_menu)'
  BY <1>1 DEF Reposition
<1>3. Grows(Stream, Stream', a)
  BY <1>1
<1>4. Ordered(Stream)' /\ Lives(Stream)' /\ Dies(Stream)'
  BY <1>2, <1>3, GoesOn DEF StreamInv
<1>5. PlaceDue(Stream)'
  <2>1. PICK l \in Nat : OpsFrom(Stream', l + 1) /\ Stream'[l + 1] = a
    BY <1>3 DEF Grows
  <2>2. Last(Stream, l + 1, "reposition")'
    BY <1>2, <2>1 DEF Last, Is, OpsFrom
  <2> QED BY <1>2, <2>1, <2>2 DEF PlaceDue, OpsFrom
<1>6. Reaches(Stream) => Reaches(Stream)'
  BY <1>3 DEF Reaches, Grows, OpsFrom, Has, Is
<1> QED BY <1>4, <1>5, <1>6 DEF StreamInv, AllDue, PlaceholderInv, ConfigureDue, PaintDue

LEMMA PaintsStream ==
  ASSUME Numbers, StreamInv(Stream), pm_phase # "idle", NEW x,
         UNCHANGED <<pm_phase, pm_gen, pm_next, pm_menu, pm_job, pm_armed, pm_popup,
                     pm_events, pm_reopened, pm_failed>>,
         pm_phase = "shown" => pm_job # "none" \/ x = Picture(pm_menu),
         Grows(Stream, Stream', Present(pm_gen, x))
  PROVE  StreamInv(Stream)'
<1>1. PICK a : a = Present(pm_gen, x)
  OBVIOUS
<1>2. a.gen = pm_gen /\ a.kind = "paint" /\ a.pixels = x
  BY <1>1 DEF Present
<1>3. Grows(Stream, Stream', a)
  BY <1>1
<1>4. Ordered(Stream)' /\ Lives(Stream)' /\ Dies(Stream)'
  BY <1>2, <1>3, GoesOn DEF StreamInv
<1>5. PICK l \in Nat :
        /\ OpsFrom(Stream, l) /\ OpsFrom(Stream', l + 1) /\ Stream'[l + 1] = a
        /\ \A k \in 1 .. l : Stream'[k] = Stream[k]
  BY <1>3 DEF Grows
<1>6. /\ DOMAIN Stream = 1 .. l /\ DOMAIN Stream' = 1 .. l + 1
      /\ \A k \in 1 .. l + 1 : k \in 1 .. l \/ k = l + 1
      /\ \A k \in 1 .. l : k \in 1 .. l + 1
  BY <1>5 DEF OpsFrom
<1>7. ~Is(a, "create", pm_gen) /\ ~Is(a, "reposition", pm_gen) /\ Is(a, "paint", pm_gen)
  BY <1>2 DEF Is
<1>8. SUFFICES ASSUME AllDue(Stream) PROVE AllDue(Stream)'
  BY <1>4 DEF StreamInv
<1>9. Reaches(Stream)'
  BY <1>5, <1>6, <1>8 DEF AllDue, Reaches, Has, Is
<1>10. PlaceholderInv(Stream)'
  <2>1. Ready(pm_gen) => Ready(pm_gen)'
    BY DEF Ready, Is
  <2>2. Has(Stream, "create", pm_gen) => Has(Stream, "create", pm_gen)'
    BY <1>5, <1>6 DEF Has, Is
  <2>3. Has(Stream, "reposition", pm_gen)' => Has(Stream, "reposition", pm_gen)
    BY <1>5, <1>6, <1>7 DEF Has, Is
  <2>4. \A k \in 1 .. l + 1 : Is(Stream'[k], "create", pm_gen) =>
          k \in DOMAIN Stream /\ Stream'[k] = Stream[k]
    BY <1>5, <1>6, <1>7
  <2>5. pm_phase' = "await_placeholder" => (Has(Stream, "create", pm_gen) \/ Ready(pm_gen))'
    BY <1>8, <2>1, <2>2 DEF AllDue, PlaceholderInv
  <2>6. pm_phase' \in {"await_placeholder", "placeholder"} =>
          \A k \in DOMAIN Stream' : Is(Stream'[k], "create", pm_gen')
            => Stream'[k].place = <<Nobody, Nobody>>
    BY <1>6, <1>8, <2>4 DEF AllDue, PlaceholderInv
  <2> QED BY <1>8, <2>3, <2>5, <2>6 DEF AllDue, PlaceholderInv
<1>11. ConfigureDue(Stream)'
  <2>1. Ready(pm_gen) => Ready(pm_gen)'
    BY DEF Ready, Is
  <2>2. Has(Stream, "create", pm_gen) => Has(Stream, "create", pm_gen)'
    BY <1>5, <1>6 DEF Has, Is
  <2>3. ASSUME NEW k \in DOMAIN Stream, Moves(Stream, k) PROVE Moves(Stream, k)' /\ k \in DOMAIN Stream'
    <3>1. \A j \in 1 .. l + 1 : Is(Stream'[j], "reposition", pm_gen) => j = k
      BY <1>5, <1>6, <1>7, <2>3 DEF Moves
    <3>2. (\E j \in DOMAIN Stream : j < k /\ Maps(Stream[j]))
            => \E j \in DOMAIN Stream' : j < k /\ Maps(Stream'[j])
      BY <1>5, <1>6
    <3>3. Stream'[k] = Stream[k]
      BY <1>5, <1>6
    <3> QED BY <1>6, <2>3, <3>1, <3>2, <3>3 DEF Moves, Maps, Is
  <2> QED BY <1>8, <2>1, <2>2, <2>3 DEF AllDue, ConfigureDue
<1>12. PaintDue(Stream)'
  <2>1. Last(Stream, l + 1, "paint")'
    BY <1>5, <1>6, <1>7 DEF Last, Is
  <2> QED BY <1>2, <1>5, <1>6, <2>1 DEF PaintDue, Picture
<1>13. PlaceDue(Stream)'
  <2>1. \A k \in 1 .. l : Last(Stream, k, "reposition") => Last(Stream, k, "reposition")'
    BY <1>5, <1>6, <1>7 DEF Last, Is
  <2>2. Has(Stream, "reposition", pm_gen)' => Has(Stream, "reposition", pm_gen)
    BY <1>5, <1>6, <1>7 DEF Has, Is
  <2>3. Placement(pm_menu)' = Placement(pm_menu)
    BY DEF Placement
  <2>4. PlaceDue(Stream)
    BY <1>8 DEF AllDue
  <2>5. CASE \E k \in DOMAIN Stream : Last(Stream, k, "reposition") /\ Stream[k].place = Placement(pm_menu)
    BY <1>5, <1>6, <2>1, <2>3, <2>5 DEF PlaceDue
  <2>6. CASE \E k \in DOMAIN Stream : Is(Stream[k], "create", pm_gen) /\ Stream[k].place = Placement(pm_menu)
    BY <1>5, <1>6, <2>1, <2>2, <2>3, <2>6, <2>4 DEF PlaceDue
  <2> QED BY <2>2, <2>3, <2>4, <2>5, <2>6 DEF PlaceDue
<1> QED BY <1>9, <1>10, <1>11, <1>12, <1>13 DEF AllDue
-----------------------------------------------------------------------------
(* The root thread takes the first op from the others.                      *)
LEMMA Applied ==
  ASSUME NEW c, Shrinks(Stream, Stream', c), pm_gen' = pm_gen,
         NEW kind \in {"create", "reposition", "paint", "destroy"}
  PROVE  /\ Has(Stream, kind, pm_gen) => Is(c, kind, pm_gen) \/ Has(Stream, kind, pm_gen)'
         /\ Has(Stream, kind, pm_gen)' => Has(Stream, kind, pm_gen)
         /\ \A k \in DOMAIN Stream : Last(Stream, k, kind) =>
              \/ Stream[k] = c /\ Is(c, kind, pm_gen) /\ ~Has(Stream, kind, pm_gen)'
              \/ \E j \in DOMAIN Stream' : Last(Stream, j, kind)' /\ Stream'[j] = Stream[k]
<1>1. PICK l \in Nat :
        /\ OpsFrom(Stream, l + 1) /\ OpsFrom(Stream', l) /\ Stream[1] = c
        /\ \A k \in 1 .. l : Stream'[k] = Stream[k + 1]
  BY DEF Shrinks
<1>2. /\ DOMAIN Stream = 1 .. l + 1 /\ DOMAIN Stream' = 1 .. l
      /\ \A k \in 1 .. l + 1 : k = 1 \/ (k - 1 \in 1 .. l /\ Stream'[k - 1] = Stream[k])
      /\ \A k \in 1 .. l : k + 1 \in 1 .. l + 1 /\ Stream'[k] = Stream[k + 1]
  BY <1>1 DEF OpsFrom
<1>3. Has(Stream, kind, pm_gen) => Is(c, kind, pm_gen) \/ Has(Stream, kind, pm_gen)'
  BY <1>1, <1>2 DEF Has
<1>4. Has(Stream, kind, pm_gen)' => Has(Stream, kind, pm_gen)
  BY <1>2 DEF Has
<1>5. ASSUME NEW k \in DOMAIN Stream, Last(Stream, k, kind)
      PROVE  \/ Stream[k] = c /\ Is(c, kind, pm_gen) /\ ~Has(Stream, kind, pm_gen)'
             \/ \E j \in DOMAIN Stream' : Last(Stream, j, kind)' /\ Stream'[j] = Stream[k]
  <2>1. \A j \in 1 .. l : j + 1 > k => ~Is(Stream'[j], kind, pm_gen)
    BY <1>2, <1>5 DEF Last
  <2>2. CASE k = 1
    <3>1. ~Has(Stream, kind, pm_gen)'
      BY <1>2, <2>1, <2>2 DEF Has
    <3> QED BY <1>1, <1>5, <2>2, <3>1 DEF Last
  <2>3. CASE k # 1
    <3>1. k - 1 \in 1 .. l /\ Stream'[k - 1] = Stream[k]
      BY <1>2, <1>5, <2>3
    <3>2. \A j \in 1 .. l : j > k - 1 => j + 1 > k
      BY <1>2, <1>5
    <3>3. Last(Stream, k - 1, kind)'
      BY <1>2, <1>5, <2>1, <3>1, <3>2 DEF Last
    <3> QED BY <1>2, <3>1, <3>3
  <2> QED BY <2>2, <2>3
<1> QED BY <1>3, <1>4, <1>5

LEMMA HeadFirst ==
  ASSUME Numbers, Ordered(Stream), NEW c, Shrinks(Stream, Stream', c)
  PROVE  /\ c.gen \in Nat \ {0} /\ c.kind \in {"create", "reposition", "paint", "destroy"}
         /\ pm_armed <= c.gen /\ c.gen <= pm_next
         /\ c.kind = "create" => pm_armed < c.gen /\ (pm_gen # Nobody => pm_popup.gen # pm_gen)
         /\ c.gen = pm_gen /\ c.kind # "create" => ~Has(Stream, "create", pm_gen)
         /\ \E k \in DOMAIN Stream : Stream[k] = c
<1>1. PICK l \in Nat : OpsFrom(Stream, l + 1) /\ Stream[1] = c
  BY DEF Shrinks
<1>2. 1 \in DOMAIN Stream /\ DOMAIN Stream = 1 .. l + 1
  BY <1>1 DEF OpsFrom
<1>3. c.gen \in Nat \ {0} /\ c.kind \in {"create", "reposition", "paint", "destroy"}
  BY <1>1 DEF OpsFrom
<1>4. pm_armed <= c.gen /\ c.gen <= pm_next /\ (c.kind = "create" => pm_armed < c.gen)
  BY <1>1, <1>2 DEF Ordered
<1>5. c.kind = "create" /\ pm_gen # Nobody => pm_popup.gen # pm_gen
  BY <1>3, <1>4 DEF Numbers
<1>6. ASSUME c.gen = pm_gen, c.kind # "create", NEW k \in DOMAIN Stream,
             Is(Stream[k], "create", pm_gen)
      PROVE  FALSE
  <2>1. 1 < k
    BY <1>1, <1>2, <1>6 DEF Is
  <2>2. c.gen < Stream[k].gen
    BY <1>1, <1>2, <1>6, <2>1 DEF Ordered, Is
  <2> QED BY <1>3, <1>6, <2>2 DEF Is
<1> QED BY <1>1, <1>2, <1>3, <1>4, <1>5, <1>6 DEF Has

LEMMA AppliedOrder ==
  ASSUME Numbers, Ordered(Stream), Dies(Stream), NEW c, Shrinks(Stream, Stream', c),
         UNCHANGED <<pm_phase, pm_gen, pm_next>>,
         pm_armed' = IF c.kind = "create" THEN c.gen ELSE pm_armed,
         pm_popup'.gen # Nobody =>
           \/ c.kind = "create" /\ pm_popup'.gen = c.gen
           \/ pm_popup'.gen = pm_popup.gen /\ ~Goes(c, pm_popup.gen)
  PROVE  Ordered(Stream)' /\ Dies(Stream)'
<1>1. PICK l \in Nat :
        /\ OpsFrom(Stream, l + 1) /\ OpsFrom(Stream', l) /\ Stream[1] = c
        /\ \A k \in 1 .. l : Stream'[k] = Stream[k + 1]
  BY DEF Shrinks
<1>2. /\ DOMAIN Stream = 1 .. l + 1 /\ DOMAIN Stream' = 1 .. l
      /\ \A k \in 1 .. l + 1 : k = 1 \/ (k - 1 \in 1 .. l /\ Stream'[k - 1] = Stream[k])
      /\ \A k \in 1 .. l : k + 1 \in 1 .. l + 1 /\ 1 < k + 1 /\ Stream'[k] = Stream[k + 1]
      /\ 1 \in 1 .. l + 1
  BY <1>1 DEF OpsFrom
<1>3. Ordered(Stream)'
  <2>1. ASSUME NEW j \in 1 .. l, NEW k \in 1 .. l, j < k
        PROVE  /\ Stream'[j].gen <= Stream'[k].gen
               /\ Stream'[k].kind = "create" \/ Stream'[j].kind = "destroy"
                    => Stream'[j].gen < Stream'[k].gen
    <3>1. j + 1 < k + 1 /\ j + 1 \in DOMAIN Stream /\ k + 1 \in DOMAIN Stream
      BY <1>2, <2>1
    <3>2. PICK m \in DOMAIN Stream, n \in DOMAIN Stream : m = j + 1 /\ n = k + 1 /\ m < n
      BY <3>1
    <3>3. Stream'[j] = Stream[m] /\ Stream'[k] = Stream[n]
      BY <1>2, <3>2
    <3> QED BY <3>2, <3>3 DEF Ordered
  <2>2. \A k \in 1 .. l : /\ c.gen <= Stream'[k].gen
                          /\ Stream'[k].kind = "create" => c.gen < Stream'[k].gen
                          /\ pm_armed <= Stream'[k].gen /\ Stream'[k].gen <= pm_next
                          /\ Stream'[k].kind = "create" => pm_armed < Stream'[k].gen
    <3>1. TAKE k \in 1 .. l
    <3>2. PICK n \in DOMAIN Stream : n = k + 1 /\ 1 < n /\ 1 \in DOMAIN Stream
      BY <1>2
    <3>3. Stream'[k] = Stream[n]
      BY <1>2, <3>2
    <3> QED BY <1>1, <3>2, <3>3 DEF Ordered
  <2> QED BY <1>2, <2>1, <2>2 DEF Ordered
<1>4. Dies(Stream)'
  <2>1. ASSUME pm_phase = "idle", pm_popup'.gen # Nobody
        PROVE  \E k \in DOMAIN Stream' : Goes(Stream'[k], pm_popup'.gen)
    <3>1. \E k \in DOMAIN Stream : k # 1 /\ Goes(Stream[k], pm_popup'.gen)
      <4>1. CASE c.kind = "create" /\ pm_popup'.gen = c.gen
        <5>1. PICK k \in DOMAIN Stream : k > 1 /\ Goes(Stream[k], c.gen)
          BY <1>1, <1>2, <2>1, <4>1 DEF Dies
        <5> QED BY <1>2, <4>1, <5>1
      <4>2. CASE pm_popup'.gen = pm_popup.gen /\ ~Goes(c, pm_popup.gen)
        BY <1>1, <2>1, <4>2 DEF Dies
      <4> QED BY <2>1, <4>1, <4>2
    <3> QED BY <1>2, <3>1
  <2>2. ASSUME pm_phase = "idle", NEW k \in 1 .. l, Stream'[k].kind = "create"
        PROVE  \E j \in DOMAIN Stream' : j > k /\ Goes(Stream'[j], Stream'[k].gen)
    <3>1. PICK j \in 1 .. l + 1 : j > k + 1 /\ Goes(Stream[j], Stream[k + 1].gen)
      BY <1>2, <2>2 DEF Dies
    <3>2. j - 1 \in 1 .. l /\ j - 1 > k /\ Stream'[j - 1] = Stream[j]
      BY <1>2, <3>1
    <3> QED BY <1>2, <3>1, <3>2
  <2> QED BY <1>2, <2>1, <2>2 DEF Dies
<1> QED BY <1>3, <1>4

LEMMA AppliedLives ==
  ASSUME Numbers, Ordered(Stream), Lives(Stream), NEW c, Shrinks(Stream, Stream', c),
         UNCHANGED <<pm_phase, pm_gen, pm_next>>,
         pm_armed' = IF c.kind = "create" THEN c.gen ELSE pm_armed,
         c.kind # "create" /\ pm_popup.gen = pm_gen /\ ~Is(c, "destroy", pm_gen)
           => pm_popup'.gen = pm_gen,
         c.gen # pm_gen => pm_failed' = pm_failed
  PROVE  Lives(Stream)'
<1>1. PICK l \in Nat :
        /\ OpsFrom(Stream, l + 1) /\ OpsFrom(Stream', l) /\ Stream[1] = c
        /\ \A k \in 1 .. l : Stream'[k] = Stream[k + 1]
  BY DEF Shrinks
<1>2. /\ DOMAIN Stream = 1 .. l + 1 /\ DOMAIN Stream' = 1 .. l
      /\ \A k \in 1 .. l : k + 1 \in 1 .. l + 1
      /\ 1 \in 1 .. l + 1
  BY <1>1 DEF OpsFrom
<1>3. /\ c.gen \in Nat \ {0} /\ c.gen <= pm_next
      /\ c.kind = "create" => pm_armed < c.gen /\ (pm_gen # Nobody => pm_popup.gen # pm_gen)
  BY HeadFirst
<1>4. /\ Has(Stream, "create", pm_gen) => Is(c, "create", pm_gen) \/ Has(Stream, "create", pm_gen)'
      /\ Has(Stream, "destroy", pm_gen)' => Has(Stream, "destroy", pm_gen)
  BY Applied
<1>5. ASSUME pm_phase # "idle"
      PROVE  /\ pm_gen # Nobody /\ ~Has(Stream, "destroy", pm_gen)'
             /\ Has(Stream, "create", pm_gen)' \/ pm_armed' = pm_gen
             /\ pm_phase = "placeholder" => pm_popup'.gen = pm_gen
  <2>1. pm_gen # Nobody /\ ~Has(Stream, "destroy", pm_gen)
        /\ (Has(Stream, "create", pm_gen) \/ pm_armed = pm_gen)
        /\ (pm_phase = "placeholder" => pm_popup.gen = pm_gen)
    BY <1>5 DEF Lives
  <2>2. ~Is(c, "destroy", pm_gen)
    BY <1>1, <1>2, <2>1 DEF Has
  <2>3. pm_popup.gen = pm_gen => pm_popup'.gen = pm_gen
    BY <1>3, <2>1, <2>2
  <2>4. Is(c, "create", pm_gen) => pm_armed' = pm_gen
    BY DEF Is
  <2>5. pm_armed = pm_gen => pm_armed' = pm_gen
    BY <1>3, <2>1 DEF Numbers
  <2> QED BY <1>4, <2>1, <2>3, <2>4, <2>5
<1>6. ASSUME pm_phase = "idle"
      PROVE  /\ \A k \in 1 .. l : Stream'[k].gen # pm_gen
             /\ pm_gen # Nobody => pm_armed' < pm_gen
             /\ ~pm_failed'
  <2>1. c.gen # pm_gen /\ \A k \in 1 .. l : Stream'[k].gen # pm_gen
    BY <1>1, <1>2, <1>6 DEF Lives
  <2>2. pm_gen # Nobody => pm_armed < pm_gen
    BY <1>6 DEF Lives
  <2>3. pm_gen # Nobody => c.gen < pm_gen
    BY <1>3, <2>1 DEF Numbers
  <2>4. ~pm_failed
    BY <1>6 DEF Lives
  <2> QED BY <2>1, <2>2, <2>3, <2>4
<1> QED BY <1>2, <1>5, <1>6 DEF Lives
-----------------------------------------------------------------------------
LEMMA AppliedOps ==
  ASSUME NEW c, Shrinks(Stream, Stream', c)
  PROVE  /\ \A j \in DOMAIN Stream' : \E k \in DOMAIN Stream : Stream[k] = Stream'[j]
         /\ \A k \in DOMAIN Stream :
              Stream[k] = c \/ \E j \in DOMAIN Stream' : Stream'[j] = Stream[k]
<1>1. PICK l \in Nat :
        /\ OpsFrom(Stream, l + 1) /\ OpsFrom(Stream', l) /\ Stream[1] = c
        /\ \A k \in 1 .. l : Stream'[k] = Stream[k + 1]
  BY DEF Shrinks
<1>2. /\ DOMAIN Stream = 1 .. l + 1 /\ DOMAIN Stream' = 1 .. l
      /\ \A k \in 1 .. l + 1 : k = 1 \/ (k - 1 \in 1 .. l /\ Stream'[k - 1] = Stream[k])
      /\ \A k \in 1 .. l : k + 1 \in 1 .. l + 1 /\ Stream'[k] = Stream[k + 1]
  BY <1>1 DEF OpsFrom
<1> QED BY <1>1, <1>2

LEMMA AppliedMoves ==
  ASSUME NEW c, Shrinks(Stream, Stream', c), pm_gen' = pm_gen,
         pm_popup'.gen = pm_popup.gen, pm_popup'.sent = pm_popup.sent, pm_popup'.held = pm_popup.held,
         pm_popup.mapped \/ Maps(c) => pm_popup'.mapped,
         ~Is(c, "reposition", pm_gen), \E k \in DOMAIN Stream : Moves(Stream, k)
  PROVE  (\E k \in DOMAIN Stream : Moves(Stream, k))'
<1>1. PICK l \in Nat :
        /\ OpsFrom(Stream, l + 1) /\ OpsFrom(Stream', l) /\ Stream[1] = c
        /\ \A k \in 1 .. l : Stream'[k] = Stream[k + 1]
  BY DEF Shrinks
<1>2. /\ DOMAIN Stream = 1 .. l + 1 /\ DOMAIN Stream' = 1 .. l
      /\ \A k \in 1 .. l + 1 : k = 1 \/ (k - 1 \in 1 .. l /\ Stream'[k - 1] = Stream[k])
      /\ \A k \in 1 .. l : k + 1 \in 1 .. l + 1 /\ Stream'[k] = Stream[k + 1]
  BY <1>1 DEF OpsFrom
<1>3. PICK k \in 1 .. l + 1 : Moves(Stream, k)
  BY <1>2
<1>4. k - 1 \in 1 .. l /\ Stream'[k - 1] = Stream[k]
  BY <1>1, <1>2, <1>3 DEF Moves
<1>5. PICK m \in 1 .. l : m = k - 1 /\ Stream'[m] = Stream[k] /\ m + 1 = k
  BY <1>4
<1>6. \A j \in 1 .. l : Is(Stream'[j], "reposition", pm_gen) => j = m
  <2>1. \A j \in 1 .. l : Is(Stream'[j], "reposition", pm_gen) => j + 1 = k
    BY <1>2, <1>3 DEF Moves
  <2> QED BY <1>5, <2>1
<1>7. pm_popup'.mapped \/ \E j \in 1 .. l : j < m /\ Maps(Stream'[j])
  <2>1. CASE pm_popup.mapped
    BY <2>1
  <2>2. CASE \E j \in 1 .. l + 1 : j < k /\ Maps(Stream[j])
    <3>1. PICK j \in 1 .. l + 1 : j < k /\ Maps(Stream[j])
      BY <2>2
    <3>2. CASE j = 1
      BY <1>1, <3>1, <3>2
    <3>3. CASE j # 1
      <4>1. j - 1 \in 1 .. l /\ Stream'[j - 1] = Stream[j] /\ j - 1 < m
        BY <1>2, <1>5, <3>1, <3>3
      <4> QED BY <3>1, <4>1
    <3> QED BY <3>2, <3>3
  <2> QED BY <1>2, <1>3, <2>1, <2>2 DEF Moves
<1>8. Moves(Stream, m)'
  BY <1>2, <1>3, <1>5, <1>6, <1>7 DEF Moves, Maps, Is
<1> QED BY <1>2, <1>8

LEMMA CreateApplied ==
  ASSUME Numbers, Ordered(Stream), Lives(Stream), AllDue(Stream), pm_phase # "idle",
         NEW c, Shrinks(Stream, Stream', c), c.kind = "create",
         UNCHANGED <<pm_phase, pm_gen, pm_next, pm_menu, pm_job, pm_render, pm_reopened>>,
         pm_refused' \in {pm_refused, Picture(pm_menu)},
         pm_popup'.gen = c.gen, pm_popup'.sent = c.place, pm_popup'.held = <<>>,
         Ready(pm_gen) => Ready(pm_gen)', c.gen = pm_gen => Ready(pm_gen)'
  PROVE  AllDue(Stream)'
<1>1. /\ pm_popup.gen # pm_gen /\ \E k \in DOMAIN Stream : Stream[k] = c
  BY HeadFirst DEF Lives
<1>2. ~Is(c, "reposition", pm_gen) /\ ~Is(c, "paint", pm_gen)
      /\ (Is(c, "create", pm_gen) <=> c.gen = pm_gen)
  BY DEF Is
<1>3. (Has(Stream, "reposition", pm_gen) <=> Has(Stream, "reposition", pm_gen)')
      /\ (Has(Stream, "create", pm_gen) => c.gen = pm_gen \/ Has(Stream, "create", pm_gen)')
  BY <1>2, Applied
<1>4. \A j \in DOMAIN Stream' : \E k \in DOMAIN Stream : Stream[k] = Stream'[j]
  BY AppliedOps
<1>5. PlaceholderInv(Stream)'
  <2>1. pm_phase' = "await_placeholder" => (Has(Stream, "create", pm_gen) \/ Ready(pm_gen))'
    BY <1>3 DEF AllDue, PlaceholderInv
  <2>2. pm_phase' \in {"await_placeholder", "placeholder"} =>
          /\ ~Has(Stream, "reposition", pm_gen)'
          /\ \A k \in DOMAIN Stream' : Is(Stream'[k], "create", pm_gen')
               => Stream'[k].place = <<Nobody, Nobody>>
    BY <1>3, <1>4 DEF AllDue, PlaceholderInv
  <2>3. pm_phase' \in {"await_placeholder", "placeholder"} /\ c.gen = pm_gen =>
          c.place = <<Nobody, Nobody>>
    BY <1>1, <1>2 DEF AllDue, PlaceholderInv
  <2> QED BY <2>1, <2>2, <2>3 DEF PlaceholderInv
<1>6. ConfigureDue(Stream)'
  <2>1. ~\E k \in DOMAIN Stream : Moves(Stream, k)
    BY <1>1 DEF Moves
  <2>2. pm_phase' = "await_menu" => (Ready(pm_gen) \/ Has(Stream, "create", pm_gen))'
    BY <1>3, <2>1 DEF AllDue, ConfigureDue
  <2> QED BY <2>2 DEF ConfigureDue
<1>7. PaintDue(Stream)'
  <2>1. \A k \in DOMAIN Stream : Last(Stream, k, "paint") =>
          \E j \in DOMAIN Stream' : Last(Stream, j, "paint")' /\ Stream'[j] = Stream[k]
    BY <1>2, Applied
  <2>2. Rendering' = Rendering /\ Picture(pm_menu)' = Picture(pm_menu)
    BY DEF Rendering, Picture
  <2> QED BY <1>1, <2>1, <2>2 DEF AllDue, PaintDue
<1>8. PlaceDue(Stream)'
  <2>1. \A k \in DOMAIN Stream : Last(Stream, k, "reposition") =>
          \E j \in DOMAIN Stream' : Last(Stream, j, "reposition")' /\ Stream'[j] = Stream[k]
    BY <1>2, Applied
  <2>2. Placement(pm_menu)' = Placement(pm_menu)
    BY DEF Placement
  <2>3. \A k \in DOMAIN Stream : Stream[k] = c \/ \E j \in DOMAIN Stream' : Stream'[j] = Stream[k]
    BY AppliedOps
  <2>4. SUFFICES ASSUME ~pm_reopened, pm_phase \in {"await_menu", "shown"},
                        pm_menu.laid = pm_menu.id
                 PROVE  PlaceDue(Stream)'
    BY DEF PlaceDue
  <2>5. CASE \E k \in DOMAIN Stream : Last(Stream, k, "reposition") /\ Stream[k].place = Placement(pm_menu)
    BY <2>1, <2>2, <2>5 DEF PlaceDue
  <2>6. CASE /\ ~Has(Stream, "reposition", pm_gen)
             /\ \E k \in DOMAIN Stream : Is(Stream[k], "create", pm_gen) /\ Stream[k].place = Placement(pm_menu)
    <3>1. PICK k \in DOMAIN Stream : Is(Stream[k], "create", pm_gen) /\ Stream[k].place = Placement(pm_menu)
      BY <2>6
    <3>2. ~Has(Stream, "reposition", pm_gen)'
      BY <1>3, <2>6
    <3>3. CASE Stream[k] = c
      <4>1. pm_popup'.gen = pm_gen' /\ pm_popup'.held = <<>> /\ pm_popup'.sent = Placement(pm_menu)'
        BY <2>2, <3>1, <3>3 DEF Is
      <4> QED BY <3>2, <4>1 DEF PlaceDue
    <3>4. CASE \E j \in DOMAIN Stream' : Stream'[j] = Stream[k]
      BY <2>2, <3>1, <3>2, <3>4 DEF PlaceDue
    <3> QED BY <2>3, <3>3, <3>4
  <2> QED BY <1>1, <2>4, <2>5, <2>6 DEF AllDue, PlaceDue
<1>9. Reaches(Stream)'
  BY <1>1, <1>3 DEF AllDue, Reaches
<1> QED BY <1>5, <1>6, <1>7, <1>8, <1>9 DEF AllDue
-----------------------------------------------------------------------------
LEMMA OthersApplied ==
  ASSUME Numbers, AllDue(Stream), pm_phase # "idle",
         NEW c, Shrinks(Stream, Stream', c), c.gen # pm_gen,
         UNCHANGED <<pm_phase, pm_gen, pm_next, pm_menu, pm_job, pm_render, pm_reopened>>,
         pm_refused' \in {pm_refused, Picture(pm_menu)},
         pm_popup.gen = pm_gen => pm_popup' = pm_popup,
         pm_popup.gen # pm_gen => pm_popup'.gen # pm_gen,
         Ready(pm_gen) => Ready(pm_gen)'
  PROVE  AllDue(Stream)'
<1>1. \A kind : ~Is(c, kind, pm_gen)
  BY DEF Is
<1>2. /\ Has(Stream, "reposition", pm_gen) <=> Has(Stream, "reposition", pm_gen)'
      /\ Has(Stream, "paint", pm_gen) <=> Has(Stream, "paint", pm_gen)'
      /\ Has(Stream, "create", pm_gen) <=> Has(Stream, "create", pm_gen)'
  <2>1. \A kind \in {"create", "reposition", "paint", "destroy"} :
          Has(Stream, kind, pm_gen) <=> Has(Stream, kind, pm_gen)'
    BY <1>1, Applied
  <2> QED BY <2>1
<1>3. /\ \A j \in DOMAIN Stream' : \E k \in DOMAIN Stream : Stream[k] = Stream'[j]
      /\ \A k \in DOMAIN Stream : Stream[k] = c \/ \E j \in DOMAIN Stream' : Stream'[j] = Stream[k]
  BY AppliedOps
<1>4. PlaceholderInv(Stream)'
  <2>1. pm_phase' = "await_placeholder" => (Has(Stream, "create", pm_gen) \/ Ready(pm_gen))'
    BY <1>2 DEF AllDue, PlaceholderInv
  <2>2. pm_phase' \in {"await_placeholder", "placeholder"} =>
          /\ ~Has(Stream, "reposition", pm_gen)'
          /\ \A k \in DOMAIN Stream' : Is(Stream'[k], "create", pm_gen')
               => Stream'[k].place = <<Nobody, Nobody>>
    BY <1>2, <1>3 DEF AllDue, PlaceholderInv
  <2> QED BY <2>1, <2>2 DEF AllDue, PlaceholderInv
<1>5. ConfigureDue(Stream)'
  <2>1. (\E k \in DOMAIN Stream : Moves(Stream, k)) => (\E k \in DOMAIN Stream : Moves(Stream, k))'
    <3>1. CASE pm_popup.gen = pm_gen
      BY <1>1, <3>1, AppliedMoves DEF Maps
    <3>2. CASE pm_popup.gen # pm_gen
      BY <3>2 DEF Moves
    <3> QED BY <3>1, <3>2
  <2>2. pm_phase' = "await_menu" =>
          (Ready(pm_gen) \/ Has(Stream, "create", pm_gen) \/ \E k \in DOMAIN Stream : Moves(Stream, k))'
    BY <1>2, <2>1 DEF AllDue, ConfigureDue
  <2> QED BY <2>2 DEF ConfigureDue
<1>6. PaintDue(Stream)'
  <2>1. \A k \in DOMAIN Stream : Last(Stream, k, "paint") =>
          \E j \in DOMAIN Stream' : Last(Stream, j, "paint")' /\ Stream'[j] = Stream[k]
    BY <1>1, Applied
  <2>2. Rendering' = Rendering /\ Picture(pm_menu)' = Picture(pm_menu)
    BY DEF Rendering, Picture
  <2> QED BY <1>2, <2>1, <2>2 DEF AllDue, PaintDue
<1>7. PlaceDue(Stream)'
  <2>1. \A k \in DOMAIN Stream : Last(Stream, k, "reposition") =>
          \E j \in DOMAIN Stream' : Last(Stream, j, "reposition")' /\ Stream'[j] = Stream[k]
    BY <1>1, Applied
  <2>2. Placement(pm_menu)' = Placement(pm_menu)
    BY DEF Placement
  <2>3. SUFFICES ASSUME ~pm_reopened, pm_phase \in {"await_menu", "shown"},
                        pm_menu.laid = pm_menu.id
                 PROVE  PlaceDue(Stream)'
    BY DEF PlaceDue
  <2>4. CASE \E k \in DOMAIN Stream : Last(Stream, k, "reposition") /\ Stream[k].place = Placement(pm_menu)
    BY <2>1, <2>2, <2>4 DEF PlaceDue
  <2>5. CASE /\ ~Has(Stream, "reposition", pm_gen)
             /\ \E k \in DOMAIN Stream : Is(Stream[k], "create", pm_gen) /\ Stream[k].place = Placement(pm_menu)
    <3>1. PICK k \in DOMAIN Stream : Is(Stream[k], "create", pm_gen) /\ Stream[k].place = Placement(pm_menu)
      BY <2>5
    <3>2. PICK j \in DOMAIN Stream' : Stream'[j] = Stream[k]
      BY <1>1, <1>3, <3>1
    <3> QED BY <1>2, <2>2, <2>5, <3>1, <3>2 DEF PlaceDue
  <2>6. CASE /\ ~Has(Stream, "reposition", pm_gen) /\ pm_popup.gen = pm_gen
             /\ IF pm_popup.held = <<>> THEN pm_popup.sent = Placement(pm_menu)
                ELSE pm_popup.held = Placement(pm_menu)
    BY <1>2, <2>2, <2>6 DEF PlaceDue
  <2> QED BY <2>3, <2>4, <2>5, <2>6 DEF AllDue, PlaceDue
<1>8. Reaches(Stream)'
  BY <1>2 DEF AllDue, Reaches
<1> QED BY <1>4, <1>5, <1>6, <1>7, <1>8 DEF AllDue

LEMMA OwnReposition ==
  ASSUME Numbers, Ordered(Stream), Lives(Stream), AllDue(Stream), pm_phase # "idle",
         NEW c, Shrinks(Stream, Stream', c), Is(c, "reposition", pm_gen), pm_popup.gen = pm_gen,
         UNCHANGED <<pm_phase, pm_gen, pm_next, pm_menu, pm_job, pm_render, pm_reopened>>,
         pm_refused' \in {pm_refused, Picture(pm_menu)},
         pm_popup'.gen = pm_popup.gen, pm_popup'.pixels = pm_popup.pixels,
         \/ /\ ~pm_popup.mapped /\ pm_popup'.sent = pm_popup.sent
            /\ pm_popup'.held = IF c.place = pm_popup.sent THEN <<>> ELSE c.place
         \/ pm_popup.held = <<>> /\ pm_popup' = pm_popup /\ c.place = pm_popup.sent
         \/ /\ pm_popup.held = <<>> /\ pm_popup'.held = <<>> /\ pm_popup'.sent = c.place
            /\ Ready(pm_gen)',
         Ready(pm_gen) => Ready(pm_gen)'
  PROVE  AllDue(Stream)'
<1>1. ~Is(c, "paint", pm_gen) /\ \E k \in DOMAIN Stream : Stream[k] = c
  BY HeadFirst DEF Is
<1>2. Has(Stream, "reposition", pm_gen) /\ ~Has(Stream, "create", pm_gen)
  BY <1>1, HeadFirst DEF Has, Is
<1>3. /\ Has(Stream, "paint", pm_gen) <=> Has(Stream, "paint", pm_gen)'
  BY <1>1, Applied
<1>4. PlaceholderInv(Stream)'
  BY <1>2 DEF AllDue, PlaceholderInv
<1>5. ConfigureDue(Stream)'
  <2>1. ASSUME \E k \in DOMAIN Stream : Moves(Stream, k) PROVE Ready(pm_gen)'
    <3>1. PICK l \in Nat : OpsFrom(Stream, l + 1) /\ Stream[1] = c
      BY DEF Shrinks
    <3>2. PICK k \in DOMAIN Stream : Moves(Stream, k)
      BY <2>1
    <3>3. k = 1 /\ Stream[k] = c
      BY <3>1, <3>2 DEF Moves, OpsFrom
    <3>4. pm_popup.mapped /\ c.place # pm_popup.sent
      BY <3>1, <3>2, <3>3 DEF Moves, OpsFrom
    <3> QED BY <3>4
  <2>2. pm_phase' = "await_menu" => Ready(pm_gen)'
    BY <1>2, <2>1 DEF AllDue, ConfigureDue
  <2> QED BY <2>2 DEF ConfigureDue
<1>6. PaintDue(Stream)'
  <2>1. \A k \in DOMAIN Stream : Last(Stream, k, "paint") =>
          \E j \in DOMAIN Stream' : Last(Stream, j, "paint")' /\ Stream'[j] = Stream[k]
    BY <1>1, Applied
  <2>2. Rendering' = Rendering /\ Picture(pm_menu)' = Picture(pm_menu)
    BY DEF Rendering, Picture
  <2> QED BY <1>3, <2>1, <2>2 DEF AllDue, PaintDue
<1>7. PlaceDue(Stream)'
  <2>1. SUFFICES ASSUME ~pm_reopened, pm_phase \in {"await_menu", "shown"},
                        pm_menu.laid = pm_menu.id
                 PROVE  PlaceDue(Stream)'
    BY DEF PlaceDue
  <2>2. PICK k \in DOMAIN Stream : Last(Stream, k, "reposition") /\ Stream[k].place = Placement(pm_menu)
    BY <1>2, <2>1 DEF AllDue, PlaceDue
  <2>3. Placement(pm_menu)' = Placement(pm_menu) /\ Placement(pm_menu) # <<>>
    BY DEF Placement
  <2>4. CASE Stream[k] = c /\ ~Has(Stream, "reposition", pm_gen)'
    <3>1. pm_popup'.gen = pm_gen' /\ IF pm_popup'.held = <<>> THEN pm_popup'.sent = Placement(pm_menu)'
                                     ELSE pm_popup'.held = Placement(pm_menu)'
      BY <2>2, <2>3, <2>4
    <3> QED BY <2>4, <3>1 DEF PlaceDue
  <2>5. CASE \E j \in DOMAIN Stream' : Last(Stream, j, "reposition")' /\ Stream'[j] = Stream[k]
    BY <2>2, <2>3, <2>5 DEF PlaceDue
  <2> QED BY <2>2, <2>4, <2>5, Applied
<1>8. Reaches(Stream)'
  BY DEF Reaches
<1> QED BY <1>4, <1>5, <1>6, <1>7, <1>8 DEF AllDue

LEMMA OwnPaint ==
  ASSUME Numbers, Ordered(Stream), Lives(Stream), AllDue(Stream), pm_phase # "idle",
         NEW c, Shrinks(Stream, Stream', c), Is(c, "paint", pm_gen), pm_popup.gen = pm_gen,
         UNCHANGED <<pm_phase, pm_gen, pm_next, pm_menu, pm_job, pm_render, pm_reopened>>,
         pm_refused' \in {pm_refused, Picture(pm_menu)},
         pm_popup'.gen = pm_popup.gen, pm_popup'.pixels = c.pixels, pm_popup'.mapped,
         pm_popup'.held = <<>>,
         \/ pm_popup.held = <<>> /\ pm_popup'.sent = pm_popup.sent
         \/ pm_popup.held # <<>> /\ pm_popup'.sent = pm_popup.held /\ Ready(pm_gen)',
         Ready(pm_gen) => Ready(pm_gen)'
  PROVE  AllDue(Stream)'
<1>1. ~Is(c, "reposition", pm_gen) /\ ~Is(c, "create", pm_gen) /\ \E k \in DOMAIN Stream : Stream[k] = c
  BY HeadFirst DEF Is
<1>2. Has(Stream, "paint", pm_gen) /\ ~Has(Stream, "create", pm_gen)
  BY <1>1, HeadFirst DEF Has, Is
<1>3. /\ Has(Stream, "reposition", pm_gen) <=> Has(Stream, "reposition", pm_gen)'
      /\ ~Has(Stream, "create", pm_gen)'
  BY <1>1, <1>2, Applied
<1>4. PlaceholderInv(Stream)'
  <2>1. pm_phase' \in {"await_placeholder", "placeholder"} =>
          /\ ~Has(Stream, "reposition", pm_gen)'
          /\ pm_popup'.sent = <<Nobody, Nobody>> /\ pm_popup'.held = <<>>
          /\ (pm_phase' = "await_placeholder" => Ready(pm_gen)')
    BY <1>2, <1>3 DEF AllDue, PlaceholderInv
  <2>2. \A k \in DOMAIN Stream' : ~Is(Stream'[k], "create", pm_gen')
    BY <1>3 DEF Has
  <2> QED BY <2>1, <2>2 DEF PlaceholderInv
<1>5. ConfigureDue(Stream)'
  <2>1. (\E k \in DOMAIN Stream : Moves(Stream, k)) =>
          Ready(pm_gen)' \/ (\E k \in DOMAIN Stream : Moves(Stream, k))'
    <3>1. CASE pm_popup.held = <<>> /\ pm_popup'.sent = pm_popup.sent
      BY <1>1, <3>1, AppliedMoves
    <3> QED BY <3>1
  <2>2. pm_phase' = "await_menu" => Ready(pm_gen)' \/ (\E k \in DOMAIN Stream : Moves(Stream, k))'
    BY <1>2, <2>1 DEF AllDue, ConfigureDue
  <2> QED BY <2>2 DEF ConfigureDue
<1>6. PaintDue(Stream)'
  <2>1. SUFFICES ASSUME pm_phase = "shown", pm_job = "none", ~Rendering,
                        pm_refused # Picture(pm_menu)
                 PROVE  PaintDue(Stream)'
    <3>1. Rendering' = Rendering /\ Picture(pm_menu)' = Picture(pm_menu)
      BY DEF Rendering, Picture
    <3>2. pm_refused = Picture(pm_menu) => pm_refused' = Picture(pm_menu)'
      BY <3>1
    <3> QED BY <3>1, <3>2 DEF PaintDue
  <2>2. PICK k \in DOMAIN Stream : Last(Stream, k, "paint") /\ Stream[k].pixels = Picture(pm_menu)
    BY <1>2, <2>1 DEF AllDue, PaintDue
  <2>3. Picture(pm_menu)' = Picture(pm_menu)
    BY DEF Picture
  <2>4. CASE Stream[k] = c /\ ~Has(Stream, "paint", pm_gen)'
    BY <2>2, <2>3, <2>4 DEF PaintDue
  <2>5. CASE \E j \in DOMAIN Stream' : Last(Stream, j, "paint")' /\ Stream'[j] = Stream[k]
    BY <2>2, <2>3, <2>5 DEF PaintDue
  <2> QED BY <2>2, <2>4, <2>5, Applied
<1>7. PlaceDue(Stream)'
  <2>1. SUFFICES ASSUME ~pm_reopened, pm_phase \in {"await_menu", "shown"},
                        pm_menu.laid = pm_menu.id
                 PROVE  PlaceDue(Stream)'
    BY DEF PlaceDue
  <2>2. Placement(pm_menu)' = Placement(pm_menu)
    BY DEF Placement
  <2>3. CASE \E k \in DOMAIN Stream : Last(Stream, k, "reposition") /\ Stream[k].place = Placement(pm_menu)
    <3>1. \A k \in DOMAIN Stream : Last(Stream, k, "reposition") =>
            \E j \in DOMAIN Stream' : Last(Stream, j, "reposition")' /\ Stream'[j] = Stream[k]
      BY <1>1, Applied
    <3> QED BY <2>2, <2>3, <3>1 DEF PlaceDue
  <2>4. CASE ~\E k \in DOMAIN Stream : Last(Stream, k, "reposition") /\ Stream[k].place = Placement(pm_menu)
    <3>1. /\ ~Has(Stream, "reposition", pm_gen)
          /\ IF pm_popup.held = <<>> THEN pm_popup.sent = Placement(pm_menu)
             ELSE pm_popup.held = Placement(pm_menu)
      <4>1. ~\E k \in DOMAIN Stream : Is(Stream[k], "create", pm_gen)
        BY <1>2 DEF Has
      <4> QED BY <2>1, <2>4, <4>1 DEF AllDue, PlaceDue
    <3>2. pm_popup'.sent = Placement(pm_menu)
      BY <3>1
    <3> QED BY <1>3, <2>2, <3>1, <3>2 DEF PlaceDue
  <2> QED BY <2>3, <2>4
<1>8. Reaches(Stream)'
  BY DEF Reaches
<1> QED BY <1>4, <1>5, <1>6, <1>7, <1>8 DEF AllDue
(* The picture of a paint is lost, though not the one that maps the popup.  *)
LEMMA OwnLost ==
  ASSUME Numbers, Ordered(Stream), Lives(Stream), AllDue(Stream), pm_phase # "idle",
         NEW c, Shrinks(Stream, Stream', c), Is(c, "paint", pm_gen), pm_popup.gen = pm_gen,
         UNCHANGED <<pm_phase, pm_gen, pm_next, pm_menu, pm_job, pm_render, pm_reopened>>,
         pm_popup' = pm_popup, Maps(c) => pm_popup.mapped,
         pm_refused' = IF c.pixels = Picture(pm_menu) THEN c.pixels ELSE pm_refused,
         Ready(pm_gen) => Ready(pm_gen)'
  PROVE  AllDue(Stream)'
<1>1. ~Is(c, "reposition", pm_gen) /\ ~Is(c, "create", pm_gen) /\ \E k \in DOMAIN Stream : Stream[k] = c
  BY HeadFirst DEF Is
<1>2. Has(Stream, "paint", pm_gen) /\ ~Has(Stream, "create", pm_gen)
  BY <1>1, HeadFirst DEF Has, Is
<1>3. /\ Has(Stream, "reposition", pm_gen) <=> Has(Stream, "reposition", pm_gen)'
      /\ ~Has(Stream, "create", pm_gen)'
  BY <1>1, <1>2, Applied
<1>4. PlaceholderInv(Stream)'
  <2>1. pm_phase' \in {"await_placeholder", "placeholder"} =>
          /\ ~Has(Stream, "reposition", pm_gen)'
          /\ pm_popup'.sent = <<Nobody, Nobody>> /\ pm_popup'.held = <<>>
          /\ (pm_phase' = "await_placeholder" => Ready(pm_gen)')
    BY <1>2, <1>3 DEF AllDue, PlaceholderInv
  <2>2. \A k \in DOMAIN Stream' : ~Is(Stream'[k], "create", pm_gen')
    BY <1>3 DEF Has
  <2> QED BY <2>1, <2>2 DEF PlaceholderInv
<1>5. ConfigureDue(Stream)'
  <2>1. (\E k \in DOMAIN Stream : Moves(Stream, k)) => (\E k \in DOMAIN Stream : Moves(Stream, k))'
    BY <1>1, AppliedMoves
  <2>2. pm_phase' = "await_menu" => Ready(pm_gen)' \/ (\E k \in DOMAIN Stream : Moves(Stream, k))'
    BY <1>2, <2>1 DEF AllDue, ConfigureDue
  <2> QED BY <2>2 DEF ConfigureDue
<1>6. PaintDue(Stream)'
  <2>1. Rendering' = Rendering /\ Picture(pm_menu)' = Picture(pm_menu)
    BY DEF Rendering, Picture
  <2>2. pm_refused = Picture(pm_menu) \/ c.pixels = Picture(pm_menu)
          => pm_refused' = Picture(pm_menu)'
    BY <2>1
  <2>3. SUFFICES ASSUME pm_phase = "shown", pm_job = "none", ~Rendering,
                        pm_refused # Picture(pm_menu)
                 PROVE  PaintDue(Stream)'
    BY <2>1, <2>2 DEF PaintDue
  <2>4. PICK k \in DOMAIN Stream : Last(Stream, k, "paint") /\ Stream[k].pixels = Picture(pm_menu)
    BY <1>2, <2>3 DEF AllDue, PaintDue
  <2>5. CASE Stream[k] = c
    BY <2>2, <2>4, <2>5 DEF PaintDue
  <2>6. CASE \E j \in DOMAIN Stream' : Last(Stream, j, "paint")' /\ Stream'[j] = Stream[k]
    BY <2>1, <2>4, <2>6 DEF PaintDue
  <2> QED BY <2>4, <2>5, <2>6, Applied
<1>7. PlaceDue(Stream)'
  <2>1. SUFFICES ASSUME ~pm_reopened, pm_phase \in {"await_menu", "shown"},
                        pm_menu.laid = pm_menu.id
                 PROVE  PlaceDue(Stream)'
    BY DEF PlaceDue
  <2>2. Placement(pm_menu)' = Placement(pm_menu)
    BY DEF Placement
  <2>3. CASE \E k \in DOMAIN Stream : Last(Stream, k, "reposition") /\ Stream[k].place = Placement(pm_menu)
    <3>1. \A k \in DOMAIN Stream : Last(Stream, k, "reposition") =>
            \E j \in DOMAIN Stream' : Last(Stream, j, "reposition")' /\ Stream'[j] = Stream[k]
      BY <1>1, Applied
    <3> QED BY <2>2, <2>3, <3>1 DEF PlaceDue
  <2>4. CASE ~\E k \in DOMAIN Stream : Last(Stream, k, "reposition") /\ Stream[k].place = Placement(pm_menu)
    <3>1. ~\E k \in DOMAIN Stream : Is(Stream[k], "create", pm_gen)
      BY <1>2 DEF Has
    <3> QED BY <1>3, <2>1, <2>2, <2>4, <3>1 DEF AllDue, PlaceDue
  <2> QED BY <2>3, <2>4
<1>8. Reaches(Stream)'
  BY DEF Reaches
<1> QED BY <1>4, <1>5, <1>6, <1>7, <1>8 DEF AllDue
-----------------------------------------------------------------------------
(* Every menu's answer.                                                     *)
AnswersFrame ==
  /\ MaxInputs \in Nat /\ pm_menu.id \in Nat /\ Nobody = 0
  /\ pm_pc \in [Threads -> {"idle", "flush", "lead", "emit"}]

LEMMA FrameIs == MenuTyped /\ OneLeader => AnswersFrame
<1> SUFFICES ASSUME MenuTyped, OneLeader PROVE AnswersFrame
  OBVIOUS
<1>1. pm_menu.id \in Nat
  BY DEF MenuTyped, Menus
<1> QED BY <1>1, MenuAssumption DEF AnswersFrame, Nobody, OneLeader

LEMMA FinishAnswers ==
  ASSUME AnswersFrame, AnswersExact, NEW t \in Threads, Finish(t),
         pm_pc[t] \in {"flush", "lead"}, UNCHANGED <<pm_menu, pm_opened, pm_left>>
  PROVE  AnswersExact'
<1>1. PICK m0 : m0 = pm_resolve[t]
  OBVIOUS
<1>2. /\ pm_resolve \in [Threads -> 0 .. pm_opened] /\ m0 \in 0 .. pm_opened
      /\ pm_answers \in [1 .. MaxInputs -> {0, 1}] /\ pm_opened \in Nat /\ pm_left \in Nat
      /\ pm_opened + pm_left <= MaxInputs
  BY <1>1 DEF AnswersExact
<1>3. /\ pm_resolve' \in [Threads -> 0 .. pm_opened] /\ pm_resolve'[t] = 0
      /\ \A u \in Threads : u # t => pm_resolve'[u] = pm_resolve[u]
  BY <1>2 DEF Finish, AnswersFrame
<1>4. /\ pm_pc'[t] = "idle" /\ \A u \in Threads : u # t => pm_pc'[u] = pm_pc[u]
  BY DEF Finish, AnswersFrame
<1>5. /\ m0 # 0 => m0 \in 1 .. MaxInputs /\ m0 # pm_menu.id /\ pm_answers[m0] = 0
                   /\ pm_answers' = [pm_answers EXCEPT ![m0] = @ + 1]
      /\ m0 = 0 => pm_answers' = pm_answers
  <2>1. m0 = 0 => pm_answers' = pm_answers
    BY <1>1 DEF Finish, Answer, AnswersFrame
  <2>2. ASSUME m0 # 0
        PROVE  m0 \in 1 .. MaxInputs /\ m0 # pm_menu.id /\ pm_answers[m0] = 0
               /\ pm_answers' = [pm_answers EXCEPT ![m0] = @ + 1]
    <3>1. m0 \in 1 .. MaxInputs /\ m0 <= pm_opened
      BY <1>2, <2>2 DEF AnswersFrame
    <3>2. m0 # pm_menu.id
      BY <1>1, <3>1 DEF AnswersExact
    <3>3. pm_answers[m0] = 0
      BY <1>1, <3>1, <3>2 DEF AnswersExact
    <3>4. pm_answers' = [pm_answers EXCEPT ![m0] = @ + 1]
      BY <1>1, <2>2 DEF Finish, Answer, AnswersFrame
    <3> QED BY <3>1, <3>2, <3>3, <3>4
  <2> QED BY <2>1, <2>2
<1>6. /\ pm_answers' \in [1 .. MaxInputs -> {0, 1}]
      /\ \A m \in 1 .. MaxInputs : pm_answers'[m] = IF m = m0 THEN 1 ELSE pm_answers[m]
  <2>1. CASE m0 = 0
    BY <1>2, <1>5, <2>1
  <2>2. CASE m0 # 0
    <3>1. pm_answers' = [pm_answers EXCEPT ![m0] = 1]
      BY <1>5, <2>2
    <3> QED BY <1>2, <3>1
  <2> QED BY <2>1, <2>2
<1>7. \A u \in Threads : pm_pc'[u] = "idle" => pm_resolve'[u] = Nobody
  BY <1>3, <1>4 DEF AnswersExact, AnswersFrame
<1>8. \A u, v \in Threads : pm_resolve'[u] = pm_resolve'[v] /\ u # v => pm_resolve'[u] = Nobody
  BY <1>3 DEF AnswersExact, AnswersFrame
<1>9. ASSUME NEW m \in 1 .. MaxInputs, m > pm_opened \/ m = pm_menu.id
      PROVE  pm_answers'[m] = 0 /\ \A u \in Threads : pm_resolve'[u] # m
  <2>1. pm_answers[m] = 0 /\ \A u \in Threads : pm_resolve[u] # m
    BY <1>9 DEF AnswersExact
  <2> QED BY <1>1, <1>3, <1>6, <2>1
<1>10. ASSUME NEW m \in 1 .. MaxInputs, m <= pm_opened, m # pm_menu.id
       PROVE  pm_answers'[m] = 0 <=> \E u \in Threads : pm_resolve'[u] = m
  <2>1. pm_answers[m] = 0 <=> \E u \in Threads : pm_resolve[u] = m
    BY <1>10 DEF AnswersExact
  <2>2. CASE m = m0
    <3>1. \A u \in Threads : u # t => pm_resolve[u] # m
      BY <1>1, <1>10, <2>2 DEF AnswersExact, AnswersFrame
    <3> QED BY <1>3, <1>6, <2>2, <3>1
  <2>3. CASE m # m0
    BY <1>1, <1>3, <1>6, <2>1, <2>3
  <2> QED BY <2>2, <2>3
<1> QED BY <1>2, <1>3, <1>6, <1>7, <1>8, <1>9, <1>10 DEF AnswersExact

(* The thread leaves, as it was, what it has to answer.                     *)
LEMMA SameAnswers ==
  ASSUME AnswersFrame, AnswersExact,
         UNCHANGED <<pm_resolve, pm_answers, pm_opened, pm_left>>, pm_menu'.id = pm_menu.id,
         \A u \in Threads : pm_pc'[u] = "idle" => pm_pc[u] = "idle"
  PROVE  AnswersExact'
BY DEF AnswersExact

Takes(t, answer) ==
  /\ pm_pc[t] = "idle" /\ pm_pc' = [pm_pc EXCEPT ![t] = "flush"]
  /\ pm_resolve' = [pm_resolve EXCEPT ![t] = answer]

(* The menu is replaced by the next one, or by none, and answered; one that *)
(* is not opened at all is answered at once.                                *)
LEMMA CloseAnswers ==
  ASSUME AnswersFrame, AnswersExact, NEW t \in Threads, Takes(t, pm_menu.id),
         UNCHANGED <<pm_answers, pm_opened>>, pm_left' \in Nat, pm_left' <= pm_left,
         pm_menu'.id = Nobody
  PROVE  AnswersExact'
<1>1. /\ pm_resolve \in [Threads -> 0 .. pm_opened] /\ pm_resolve[t] = 0
      /\ pm_opened \in Nat /\ pm_left \in Nat /\ pm_menu.id \in 0 .. pm_opened
      /\ pm_opened + pm_left' <= MaxInputs /\ pm_opened <= MaxInputs
  <2>1. /\ pm_opened \in Nat /\ pm_left \in Nat /\ pm_opened + pm_left <= MaxInputs
        /\ pm_menu.id <= pm_opened /\ MaxInputs \in Nat /\ pm_menu.id \in Nat
    BY DEF AnswersExact, AnswersFrame
  <2>2. pm_opened + pm_left' <= MaxInputs /\ pm_opened <= MaxInputs /\ pm_menu.id \in 0 .. pm_opened
    <3>1. \A o, a, b, n, i \in Nat : o + a <= n /\ b <= a /\ i <= o =>
            o + b <= n /\ o <= n /\ i \in 0 .. o
      OBVIOUS
    <3> QED BY <2>1, <3>1
  <2>3. pm_resolve \in [Threads -> 0 .. pm_opened] /\ pm_resolve[t] = 0
    BY DEF AnswersExact, AnswersFrame, Takes
  <2> QED BY <2>1, <2>2, <2>3
<1>2. /\ pm_resolve' \in [Threads -> 0 .. pm_opened] /\ pm_resolve'[t] = pm_menu.id
      /\ \A u \in Threads : u # t => pm_resolve'[u] = pm_resolve[u]
      /\ pm_pc'[t] = "flush" /\ \A u \in Threads : u # t => pm_pc'[u] = pm_pc[u]
  BY <1>1 DEF Takes, AnswersFrame
<1>3. \A u \in Threads : pm_pc'[u] = "idle" => pm_resolve'[u] = Nobody
  BY <1>2 DEF AnswersExact
<1>4. \A u \in Threads : pm_menu.id # 0 => pm_resolve[u] # pm_menu.id
  <2>1. pm_menu.id # 0 => pm_menu.id \in 1 .. MaxInputs
    BY <1>1 DEF AnswersFrame
  <2> QED BY <2>1 DEF AnswersExact
<1>5. \A u, v \in Threads : pm_resolve'[u] = pm_resolve'[v] /\ u # v => pm_resolve'[u] = Nobody
  BY <1>2, <1>4 DEF AnswersExact, AnswersFrame
<1>6. ASSUME NEW m \in 1 .. MaxInputs, m > pm_opened
      PROVE  pm_answers[m] = 0 /\ \A u \in Threads : pm_resolve'[u] # m
  BY <1>1, <1>2, <1>6 DEF AnswersExact
<1>7. ASSUME NEW m \in 1 .. MaxInputs, m <= pm_opened
      PROVE  pm_answers[m] = 0 <=> \E u \in Threads : pm_resolve'[u] = m
  <2>1. CASE m = pm_menu.id
    BY <1>2, <2>1 DEF AnswersExact
  <2>2. CASE m # pm_menu.id
    <3>1. pm_answers[m] = 0 <=> \E u \in Threads : pm_resolve[u] = m
      BY <1>7, <2>2 DEF AnswersExact
    <3> QED BY <1>1, <1>2, <2>2, <3>1
  <2> QED BY <2>1, <2>2
<1>8. pm_answers \in [1 .. MaxInputs -> {0, 1}] /\ Nobody <= pm_opened
  BY <1>1 DEF AnswersExact, AnswersFrame
<1>9. \A m \in 1 .. MaxInputs : m # Nobody
  BY DEF AnswersFrame
<1> QED BY <1>1, <1>2, <1>3, <1>5, <1>6, <1>7, <1>8, <1>9 DEF AnswersExact

LEMMA OpenAnswers ==
  ASSUME AnswersFrame, AnswersExact, NEW t \in Threads, Takes(t, pm_menu.id),
         pm_left > 0, pm_left' = pm_left - 1, pm_opened' = pm_opened + 1,
         \/ pm_menu'.id = pm_opened + 1 /\ pm_answers' = pm_answers
         \/ pm_menu'.id = Nobody /\ pm_answers' = [pm_answers EXCEPT ![pm_opened + 1] = @ + 1]
  PROVE  AnswersExact'
<1>1. /\ pm_resolve \in [Threads -> 0 .. pm_opened] /\ pm_resolve[t] = 0
      /\ pm_opened \in Nat /\ pm_left \in Nat /\ pm_menu.id \in 0 .. pm_opened
      /\ pm_opened' + pm_left' <= MaxInputs /\ pm_left' \in Nat /\ pm_opened' \in Nat
      /\ pm_opened' \in 1 .. MaxInputs
  BY DEF AnswersExact, AnswersFrame, Takes
<1>2. /\ pm_resolve' \in [Threads -> 0 .. pm_opened'] /\ pm_resolve'[t] = pm_menu.id
      /\ \A u \in Threads : u # t => pm_resolve'[u] = pm_resolve[u]
      /\ pm_pc'[t] = "flush" /\ \A u \in Threads : u # t => pm_pc'[u] = pm_pc[u]
      /\ \A u \in Threads : pm_resolve'[u] # pm_opened'
  BY <1>1 DEF Takes, AnswersFrame
<1>3. \A u \in Threads : pm_pc'[u] = "idle" => pm_resolve'[u] = Nobody
  BY <1>2 DEF AnswersExact
<1>4. \A u \in Threads : pm_menu.id # 0 => pm_resolve[u] # pm_menu.id
  <2>1. pm_menu.id # 0 => pm_menu.id \in 1 .. MaxInputs
    BY <1>1 DEF AnswersFrame
  <2> QED BY <2>1 DEF AnswersExact
<1>5. \A u, v \in Threads : pm_resolve'[u] = pm_resolve'[v] /\ u # v => pm_resolve'[u] = Nobody
  BY <1>2, <1>4 DEF AnswersExact, AnswersFrame
<1>6. pm_answers[pm_opened'] = 0 /\ pm_answers \in [1 .. MaxInputs -> {0, 1}]
  BY <1>1 DEF AnswersExact
<1>7. /\ pm_answers' \in [1 .. MaxInputs -> {0, 1}]
      /\ \A m \in 1 .. MaxInputs : m # pm_opened' => pm_answers'[m] = pm_answers[m]
      /\ pm_answers'[pm_opened'] = IF pm_menu'.id = pm_opened' THEN 0 ELSE 1
  BY <1>1, <1>6, SMTT(60) DEF AnswersFrame
<1>8. ASSUME NEW m \in 1 .. MaxInputs, m > pm_opened'
      PROVE  pm_answers'[m] = 0 /\ \A u \in Threads : pm_resolve'[u] # m
  BY <1>1, <1>2, <1>7, <1>8 DEF AnswersExact
<1>9. ASSUME NEW m \in 1 .. MaxInputs, m <= pm_opened', m # pm_opened'
      PROVE  pm_answers'[m] = 0 <=> \E u \in Threads : pm_resolve'[u] = m
  <2>1. m <= pm_opened /\ pm_answers'[m] = pm_answers[m]
    BY <1>1, <1>7, <1>9
  <2>2. CASE m = pm_menu.id
    BY <1>2, <2>1, <2>2 DEF AnswersExact
  <2>3. CASE m # pm_menu.id
    <3>1. pm_answers[m] = 0 <=> \E u \in Threads : pm_resolve[u] = m
      BY <2>1, <2>3 DEF AnswersExact
    <3> QED BY <1>1, <1>2, <2>1, <2>3, <3>1
  <2> QED BY <2>2, <2>3
<1>10. pm_menu'.id \in {0, pm_opened'} /\ pm_menu'.id <= pm_opened'
  BY <1>1 DEF AnswersFrame
<1>11. \A m \in 1 .. MaxInputs :
         /\ m > pm_opened' \/ m = pm_menu'.id =>
              pm_answers'[m] = 0 /\ \A u \in Threads : pm_resolve'[u] # m
         /\ m <= pm_opened' /\ m # pm_menu'.id =>
              (pm_answers'[m] = 0 <=> \E u \in Threads : pm_resolve'[u] = m)
  <2>1. TAKE m \in 1 .. MaxInputs
  <2>2. CASE m > pm_opened'
    BY <1>1, <1>8, <1>10, <2>2
  <2>3. CASE m = pm_opened'
    BY <1>1, <1>2, <1>7, <1>10, <2>3
  <2>4. CASE m < pm_opened'
    BY <1>1, <1>9, <1>10, <2>4
  <2> QED BY <1>1, <2>2, <2>3, <2>4
<1> QED BY <1>1, <1>2, <1>3, <1>5, <1>7, <1>10, <1>11 DEF AnswersExact
-----------------------------------------------------------------------------
Handed(t, answer) ==
  /\ OneLeader' /\ pm_pending' \in Seq(MenuOps) /\ Takes(t, answer)

LEMMA UpdateNone ==
  ASSUME MenuTyped, OneLeader, NEW t \in Threads, NEW r, pm_pc[t] = "idle",
         Update(t, <<>>, r), UNCHANGED pm_commands
  PROVE  Handed(t, r) /\ Stream' = Stream /\ pm_answers' = pm_answers
<1>1. <<>> \in Seq(MenuOps)
  OBVIOUS
<1>2. OneLeader' /\ Stream' = Stream \o <<>> /\ pm_pending' \in Seq(MenuOps)
  BY <1>1, UpdateStream DEF Update
<1>3. Stream \o <<>> = Stream
  BY StreamIs, ConcatEmptySeq
<1> QED BY <1>2, <1>3 DEF Handed, Takes, Update

LEMMA UpdateOne ==
  ASSUME MenuTyped, OneLeader, NEW t \in Threads, NEW r, pm_pc[t] = "idle",
         NEW a \in MenuOps, Update(t, <<a>>, r), UNCHANGED pm_commands
  PROVE  Handed(t, r) /\ Grows(Stream, Stream', a) /\ pm_answers' = pm_answers
<1>1. <<a>> \in Seq(MenuOps)
  OBVIOUS
<1>2. OneLeader' /\ Stream' = Stream \o <<a>> /\ pm_pending' \in Seq(MenuOps)
  BY <1>1, UpdateStream DEF Update
<1>3. Grows(Stream, Stream \o <<a>>, a)
  BY StreamIs, GrowsByOne
<1> QED BY <1>2, <1>3 DEF Handed, Takes, Update

LEMMA UpdateTwo ==
  ASSUME MenuTyped, OneLeader, NEW t \in Threads, NEW r, pm_pc[t] = "idle",
         NEW a \in MenuOps, NEW b \in MenuOps, Update(t, <<a, b>>, r), UNCHANGED pm_commands
  PROVE  Handed(t, r) /\ GrowsTwice(Stream, Stream', a, b) /\ pm_answers' = pm_answers
<1>1. <<a, b>> \in Seq(MenuOps)
  OBVIOUS
<1>2. OneLeader' /\ Stream' = Stream \o <<a, b>> /\ pm_pending' \in Seq(MenuOps)
  BY <1>1, UpdateStream DEF Update
<1>3. GrowsTwice(Stream, Stream \o <<a, b>>, a, b)
  BY StreamIs, GrowsByTwo
<1> QED BY <1>2, <1>3 DEF Handed, Takes, Update

EngineInv == MenuTyped /\ PopupInv /\ MenuInv /\ RenderInv /\ LayoutDue /\ NotReplaced

LEMMA InvParts ==
  PopupMenuInv <=> EngineInv /\ OneLeader /\ AnswersExact /\ StreamInv(Stream)
BY DEF PopupMenuInv, EngineInv

LEMMA TypedParts ==
  EngineInv => /\ Numbers /\ pm_menu \in Menus /\ pm_menu.id \in Nat /\ pm_menu.laid \in Nat
               /\ pm_menu.row \in {0, 1}
               /\ pm_popup.sent \in Places /\ pm_popup.held \in Places
               /\ pm_render.kind \in {"none", "shape", "paint"}
               /\ pm_render.kind # "none" => /\ pm_render.gen \in Nat \ {0} /\ pm_render.of \in Menus
                                             /\ pm_render.of.id \in Nat
                                             /\ pm_render.of.row \in {0, 1}
<1> SUFFICES ASSUME EngineInv
             PROVE  /\ Numbers /\ pm_menu \in Menus /\ pm_menu.id \in Nat /\ pm_menu.laid \in Nat
                    /\ pm_menu.row \in {0, 1}
                    /\ pm_popup.sent \in Places /\ pm_popup.held \in Places
                    /\ pm_render.kind \in {"none", "shape", "paint"}
                    /\ pm_render.kind # "none" => /\ pm_render.gen \in Nat \ {0} /\ pm_render.of \in Menus
                                                  /\ pm_render.of.id \in Nat
                                                  /\ pm_render.of.row \in {0, 1}
  OBVIOUS
<1>1. Numbers
  BY NumbersAre DEF EngineInv
<1>2. pm_menu \in Menus /\ pm_popup \in Popups
  BY DEF EngineInv, MenuTyped
<1>3. pm_menu.id \in Nat /\ pm_menu.laid \in Nat /\ pm_menu.row \in {0, 1}
  BY <1>2 DEF Menus
<1>4. pm_popup.sent \in Places /\ pm_popup.held \in Places
  BY <1>2 DEF Popups
<1>5. /\ pm_render.kind \in {"none", "shape", "paint"}
      /\ pm_render.kind # "none" => pm_render.gen \in Nat \ {0} /\ pm_render.of \in Menus
  <2>1. pm_render \in Renders
    BY DEF EngineInv, MenuTyped
  <2>2. CASE pm_render \in [kind : {"none"}]
    BY <2>2
  <2>3. CASE pm_render \in [kind : {"shape", "paint"}, gen : Nat \ {0}, of : Menus]
    BY <2>3
  <2> QED BY <2>1, <2>2, <2>3 DEF Renders
<1>6. pm_render.kind # "none" => pm_render.of.id \in Nat /\ pm_render.of.row \in {0, 1}
  BY <1>5 DEF Menus
<1> QED BY <1>1, <1>2, <1>3, <1>4, <1>5, <1>6

LEMMA InvisibleIs == Invisible \in Pictures
BY DEF Invisible, Pictures

LEMMA NoMenuIs == NoMenu \in Menus /\ NoMenu.id = Nobody /\ NoMenu.laid = Nobody
BY DEF NoMenu, Menus, Nobody

(* Whoever closes what there is.                                            *)
LEMMA Clears ==
  ASSUME PopupMenuInv, NEW t \in Threads, pm_pc[t] = "idle", ClearMenu,
         pm_pending' = pm_pending \o (IF pm_gen = Nobody THEN <<>> ELSE <<Destroy(pm_gen)>>),
         pm_pc' = [pm_pc EXCEPT ![t] = "flush"],
         pm_resolve' = [pm_resolve EXCEPT ![t] = pm_menu.id],
         UNCHANGED <<pm_draining, pm_op, pm_commands, pm_next, pm_render, pm_popup, pm_armed>>,
         pm_shutdown' \in BOOLEAN, pm_reopened' = pm_reopened,
         pm_events' \in Seq(MenuEvents), \A k \in DOMAIN pm_events' : pm_events'[k].gen <= pm_armed
  PROVE  EngineInv' /\ OneLeader' /\ StreamInv(Stream)' /\ Takes(t, pm_menu.id) /\ pm_menu'.id = Nobody
<1>1. EngineInv /\ MenuTyped /\ OneLeader /\ StreamInv(Stream) /\ Numbers
  BY InvParts, TypedParts DEF EngineInv
<1>2. PICK ops : ops = IF pm_gen = Nobody THEN <<>> ELSE <<Destroy(pm_gen)>>
  OBVIOUS
<1>3. pm_gen # Nobody => Destroy(pm_gen) \in MenuOps
  BY <1>1, MadeOps DEF Numbers
<1>4. ops \in Seq(MenuOps) /\ pm_pending' = pm_pending \o ops
  <2>1. CASE pm_gen = Nobody
    BY <1>2, <2>1
  <2>2. CASE pm_gen # Nobody
    BY <1>2, <1>3, <2>2
  <2> QED BY <1>2, <2>1, <2>2
<1>5. OneLeader' /\ Stream' = Stream \o ops /\ pm_pending' \in Seq(MenuOps)
  BY <1>1, <1>4, UpdateStream
<1>6. StreamInv(Stream)'
  <2>1. CASE pm_gen = Nobody
    <3>1. Stream' = Stream
      BY <1>1, <1>2, <1>5, <2>1, StreamIs, ConcatEmptySeq
    <3> QED BY <1>1, <2>1, <3>1, ClearedStream DEF StreamInv, EngineInv, ClearMenu, NothingFailed
  <2>2. CASE pm_gen # Nobody
    <3>1. Grows(Stream, Stream', Destroy(pm_gen))
      BY <1>1, <1>2, <1>3, <1>5, <2>2, StreamIs, GrowsByOne
    <3> QED BY <1>1, <2>2, <3>1, ClosesStream DEF StreamInv, ClearMenu, NothingFailed
  <2> QED BY <2>1, <2>2
<1>7. /\ pm_gen' = Nobody /\ pm_phase' = "idle" /\ pm_menu' = NoMenu /\ pm_job' = "none"
      /\ pm_failed' \in BOOLEAN /\ pm_refused' \in Pictures
  BY InvisibleIs DEF ClearMenu, NothingFailed
<1>8. MenuTyped'
  BY <1>1, <1>5, <1>7, NoMenuIs DEF MenuTyped, MenuPhases
<1>9. PopupInv'
  BY <1>1, <1>8 DEF EngineInv, PopupInv
<1>10. MenuInv'
  BY <1>7, NoMenuIs DEF MenuInv
<1>11. ~Rendering'
  BY <1>1, <1>7, TypedParts DEF Rendering, Nobody
<1>12. RenderInv' /\ LayoutDue' /\ NotReplaced'
  BY <1>1, <1>7, <1>11, NoMenuIs DEF EngineInv, RenderInv, LayoutDue, NotReplaced
<1> QED BY <1>5, <1>6, <1>7, <1>8, <1>9, <1>10, <1>12, NoMenuIs DEF EngineInv, Takes
-----------------------------------------------------------------------------
LEMMA MenuInitInv == MenuInit => PopupMenuInv
<1> SUFFICES ASSUME MenuInit PROVE PopupMenuInv
  OBVIOUS
<1>1. MenuTyped
  <2>1. pm_menu \in Menus /\ pm_popup \in Popups /\ pm_render \in Renders
    BY DEF MenuInit, Menus, Popups, Renders, NoMenu, NoPopup, Nobody, Places, Pictures
  <2>2. pm_pending \in Seq(MenuOps) /\ pm_commands \in Seq(MenuOps) /\ pm_events \in Seq(MenuEvents)
    BY DEF MenuInit
  <2>3. /\ pm_shutdown \in BOOLEAN /\ pm_reopened \in BOOLEAN /\ pm_failed \in BOOLEAN
        /\ pm_refused \in Pictures
    BY InvisibleIs DEF MenuInit
  <2>4. pm_phase \in MenuPhases /\ pm_next \in Nat /\ pm_gen \in {Nobody, pm_next}
        /\ pm_job \in {"none", "shape", "paint"} /\ pm_armed \in Nat
    BY DEF MenuInit, MenuPhases, Nobody
  <2> QED BY <2>1, <2>2, <2>3, <2>4 DEF MenuTyped
<1>2. OneLeader
  BY DEF MenuInit, OneLeader
<1>3. AnswersExact
  BY MenuAssumption DEF MenuInit, AnswersExact, NoMenu, Nobody
<1>4. PopupInv /\ MenuInv /\ RenderInv /\ LayoutDue /\ NotReplaced
  BY DEF MenuInit, PopupInv, MenuInv, RenderInv, LayoutDue, NotReplaced, Rendering, NoMenu,
         NoPopup, Nobody
<1>5. Stream = <<>>
  <2>1. InHand = <<>>
    BY <1>2, OneLeaderEmits, HeldByIs DEF MenuInit, InHand
  <2> QED BY <2>1 DEF MenuInit, Stream
<1>6. DOMAIN Stream = {}
  BY <1>5
<1>7. StreamInv(Stream)
  <2>1. pm_phase = "idle" /\ pm_popup.gen = Nobody /\ pm_gen = Nobody /\ ~pm_failed
    BY DEF MenuInit, NoPopup
  <2> QED BY <1>6, <2>1, IdleOwesNothing DEF StreamInv, Ordered, Lives, Dies
<1> QED BY <1>1, <1>2, <1>3, <1>4, <1>7 DEF PopupMenuInv

(* Nothing changes but who drains the ops.                                  *)
LEMMA Drained ==
  ASSUME PopupMenuInv,
         UNCHANGED <<pmstate, pm_render, pm_popup, pm_armed, pm_events, pm_reopened, pmfaults>>,
         Stream' = Stream, pm_pending' \in Seq(MenuOps), pm_commands' \in Seq(MenuOps)
  PROVE  EngineInv' /\ StreamInv(Stream)'
<1>1. /\ UNCHANGED <<pm_phase, pm_gen, pm_next, pm_menu, pm_job, pm_shutdown, pm_render, pm_popup,
                     pm_armed, pm_events, pm_reopened, pm_failed, pm_refused>>
      /\ EngineInv /\ StreamInv(Stream)
  BY InvParts DEF pmstate, pmfaults
<1>2. MenuTyped'
  BY <1>1 DEF EngineInv, MenuTyped
<1>3. PopupInv' /\ MenuInv' /\ RenderInv' /\ LayoutDue' /\ NotReplaced'
  BY <1>1 DEF EngineInv, PopupInv, MenuInv, RenderInv, LayoutDue, NotReplaced, Rendering
<1>4. Ready(pm_gen) => Ready(pm_gen)'
  BY <1>1 DEF Ready, Is
<1>5. AllDue(Stream) => PaintDue(Stream)' /\ PlaceDue(Stream)'
  BY <1>1 DEF AllDue, PaintDue, PlaceDue, Rendering, Last, Has, Is, Picture, Placement
<1>6. StreamInv(Stream)'
  BY <1>1, <1>4, <1>5, KeptStream, TypedParts
<1> QED BY <1>2, <1>3, <1>6 DEF EngineInv

LEMMA DrainKeepsInv ==
  ASSUME PopupMenuInv, NEW t \in Threads, Flush(t) \/ PopOp(t) \/ Emit(t)
  PROVE  PopupMenuInv'
<1>1. MenuTyped /\ OneLeader /\ AnswersExact /\ AnswersFrame
  BY FrameIs DEF PopupMenuInv
<1>2. CASE Flush(t)
  <2>1. OneLeader' /\ Stream' = Stream
    BY <1>1, <1>2, FlushStream
  <2>2. UNCHANGED <<pmstate, pm_pending, pm_commands, pm_render, pm_popup, pm_armed, pm_events,
                    pm_left, pm_opened, pm_reopened, pm_menu, pmfaults>>
    BY <1>2 DEF Flush, pmroot, pmopened, pmstate
  <2>3. EngineInv' /\ StreamInv(Stream)'
    BY <1>1, <2>1, <2>2, Drained DEF MenuTyped
  <2>4. AnswersExact'
    <3>1. CASE Finish(t)
      BY <1>1, <1>2, <2>2, <3>1, FinishAnswers DEF Flush
    <3>2. CASE Lead(t)
      BY <1>1, <2>2, <3>2, SameAnswers DEF Lead, AnswersFrame
    <3> QED BY <1>2, <3>1, <3>2 DEF Flush
  <2> QED BY <2>1, <2>3, <2>4 DEF PopupMenuInv, EngineInv
<1>3. CASE PopOp(t)
  <2>1. OneLeader' /\ Stream' = Stream /\ pm_pending' \in Seq(MenuOps)
    BY <1>1, <1>3, PopStream
  <2>2. UNCHANGED <<pmstate, pm_commands, pm_render, pm_popup, pm_armed, pm_events,
                    pm_left, pm_opened, pm_reopened, pm_menu, pmfaults>>
    BY <1>3 DEF PopOp, pmroot, pmopened, pmstate
  <2>3. EngineInv' /\ StreamInv(Stream)'
    BY <1>1, <2>1, <2>2, Drained DEF MenuTyped
  <2>4. AnswersExact'
    <3>1. CASE Finish(t)
      BY <1>1, <1>3, <2>2, <3>1, FinishAnswers DEF PopOp
    <3>2. CASE pm_pc' = [pm_pc EXCEPT ![t] = "emit"] /\ UNCHANGED <<pm_answers, pm_resolve>>
      BY <1>1, <2>2, <3>2, SameAnswers DEF AnswersFrame
    <3> QED BY <1>3, <3>1, <3>2 DEF PopOp
  <2> QED BY <2>1, <2>3, <2>4 DEF PopupMenuInv, EngineInv
<1>4. CASE Emit(t)
  <2>1. OneLeader' /\ Stream' = Stream /\ pm_commands' \in Seq(MenuOps)
    BY <1>1, <1>4, EmitStream
  <2>2. UNCHANGED <<pmstate, pm_pending, pm_render, pm_popup, pm_armed, pm_events,
                    pm_left, pm_opened, pm_reopened, pm_menu, pm_answers, pm_resolve, pmfaults>>
    BY <1>4 DEF Emit, pmopened, pmstate
  <2>3. EngineInv' /\ StreamInv(Stream)'
    BY <1>1, <2>1, <2>2, Drained DEF MenuTyped
  <2>4. AnswersExact'
    BY <1>1, <1>4, <2>2, SameAnswers DEF AnswersFrame, Emit
  <2> QED BY <2>1, <2>3, <2>4 DEF PopupMenuInv, EngineInv
<1> QED BY <1>2, <1>3, <1>4

LEMMA MenuStutter == PopupMenuInv /\ UNCHANGED pmvars => PopupMenuInv'
<1> SUFFICES ASSUME PopupMenuInv, UNCHANGED pmvars PROVE PopupMenuInv'
  OBVIOUS
<1>1. /\ UNCHANGED <<pmstate, pm_render, pm_popup, pm_armed, pm_events, pm_reopened, pm_menu, pmfaults>>
      /\ UNCHANGED <<pm_pending, pm_commands, pm_draining, pm_pc, pm_op, pm_resolve, pm_answers,
                     pm_left, pm_opened>>
  BY DEF pmvars, pmemitter, pmroot, pmopened, pmstate
<1>2. Stream' = Stream /\ OneLeader'
  BY <1>1 DEF Stream, InHand, OneLeader, PopupMenuInv
<1>3. MenuTyped /\ OneLeader /\ AnswersExact /\ AnswersFrame
  BY FrameIs DEF PopupMenuInv
<1>4. EngineInv' /\ StreamInv(Stream)'
  BY <1>1, <1>2, <1>3, Drained DEF MenuTyped
<1>5. AnswersExact'
  BY <1>1, <1>3, SameAnswers
<1> QED BY <1>2, <1>4, <1>5 DEF PopupMenuInv, EngineInv
-----------------------------------------------------------------------------
LEMMA ArmKeepsInv ==
  ASSUME PopupMenuInv, Arm
  PROVE  PopupMenuInv'
<1>1. EngineInv /\ MenuTyped /\ OneLeader /\ StreamInv(Stream) /\ Numbers /\ AnswersExact /\ AnswersFrame
  BY InvParts, TypedParts, FrameIs DEF EngineInv
<1>2. /\ pm_left > 0 /\ pm_left' = pm_left - 1 /\ pm_pc["input"] = "idle" /\ "input" \in Threads
      /\ pm_next' = pm_next + 1 /\ pm_gen' = pm_next + 1
      /\ pm_phase' = "await_placeholder" /\ pm_menu' = NoMenu /\ pm_job' = "none"
      /\ UNCHANGED <<pm_shutdown, pm_opened, pm_reopened, pm_render, pm_commands, pm_popup,
                     pm_armed, pm_events>>
      /\ pm_failed' \in BOOLEAN /\ pm_refused' \in Pictures
  BY InvisibleIs DEF Arm, NothingFailed, Idle, pmroot, pmopened, Threads
<1>3. PICK a \in MenuOps : a = Create(pm_next + 1, <<Nobody, Nobody>>)
  <2>1. <<Nobody, Nobody>> \in Places /\ pm_next + 1 \in Nat \ {0}
    BY <1>1 DEF Places, Nobody, Numbers
  <2> QED BY <2>1, MadeOps
<1>4. Update("input", <<a>>, pm_menu.id)
  BY <1>2, <1>3 DEF Arm
<1>5. Handed("input", pm_menu.id) /\ Grows(Stream, Stream', a) /\ pm_answers' = pm_answers
  BY <1>1, <1>2, <1>4, UpdateOne
<1>6. StreamInv(Stream)'
  BY <1>1, <1>2, <1>3, <1>5, ArmsStream DEF StreamInv
<1>7. MenuTyped'
  <2>1. pm_next' \in Nat /\ pm_gen' \in {Nobody, pm_next'}
    BY <1>1, <1>2 DEF Numbers
  <2> QED BY <1>1, <1>2, <1>5, <2>1, NoMenuIs DEF MenuTyped, MenuPhases, Handed
<1>8. PopupInv'
  <2>1. pm_armed <= pm_next + 1
    BY <1>1 DEF Numbers
  <2> QED BY <1>1, <1>2, <2>1 DEF EngineInv, PopupInv
<1>9. MenuInv'
  BY <1>2, NoMenuIs DEF MenuInv
<1>10. RenderInv' /\ ~Rendering'
  <2>1. pm_render.kind # "none" =>
          pm_render.gen \in Nat /\ pm_render.gen <= pm_next /\ pm_render.of.id # Nobody
    BY <1>1, TypedParts DEF EngineInv, RenderInv
  <2>2. pm_render.kind # "none" => pm_render.gen # pm_next + 1 /\ pm_render.gen <= pm_next + 1
    BY <1>1, <2>1 DEF Numbers
  <2>3. ~Rendering'
    BY <1>2, <2>2 DEF Rendering
  <2> QED BY <1>2, <2>1, <2>2, <2>3 DEF RenderInv
<1>11. LayoutDue' /\ NotReplaced'
  BY <1>2, <1>10, NoMenuIs DEF LayoutDue, NotReplaced
<1>12. AnswersExact'
  <2>1. pm_left' \in Nat /\ pm_left' <= pm_left
    BY <1>1, <1>2 DEF AnswersExact
  <2> QED BY <1>1, <1>2, <1>5, <2>1, CloseAnswers, NoMenuIs DEF Handed
<1> QED BY <1>5, <1>6, <1>7, <1>8, <1>9, <1>10, <1>11, <1>12 DEF PopupMenuInv, Handed

LEMMA CloseKeepsInv ==
  ASSUME PopupMenuInv, NEW t \in Threads, pm_pc[t] = "idle", CloseCurrent(t),
         UNCHANGED <<pm_commands, pm_next, pm_render, pm_popup, pm_armed, pm_reopened, pm_left,
                     pm_opened>>,
         pm_shutdown' \in BOOLEAN, pm_events' \in Seq(MenuEvents),
         \A k \in DOMAIN pm_events' : pm_events'[k].gen <= pm_armed
  PROVE  PopupMenuInv'
<1>1. AnswersExact /\ AnswersFrame
  BY FrameIs DEF PopupMenuInv
<1>2. EngineInv' /\ OneLeader' /\ StreamInv(Stream)' /\ Takes(t, pm_menu.id) /\ pm_menu'.id = Nobody
  BY Clears DEF CloseCurrent, Update
<1>3. AnswersExact'
  <2>1. pm_left' \in Nat /\ pm_left' <= pm_left /\ pm_answers' = pm_answers
    BY <1>1 DEF AnswersExact, CloseCurrent, Update
  <2> QED BY <1>1, <1>2, <2>1, CloseAnswers
<1> QED BY <1>2, <1>3 DEF PopupMenuInv, EngineInv

LEMMA ClosersKeepInv ==
  ASSUME PopupMenuInv, DismissIfSpeculative \/ Close \/ HideMenu \/ ShutdownMenu
  PROVE  PopupMenuInv'
<1>1. PICK t \in {"input", "ui"} :
        /\ Idle(t) /\ CloseCurrent(t) /\ pm_shutdown' \in {pm_shutdown, TRUE}
        /\ UNCHANGED <<pm_next, pm_left, pmopened>>
  BY DEF DismissIfSpeculative, Close, HideMenu, ShutdownMenu
<1>2. t \in Threads /\ pm_pc[t] = "idle"
      /\ UNCHANGED <<pm_commands, pm_next, pm_render, pm_popup, pm_armed, pm_reopened, pm_left,
                     pm_opened, pm_events>>
  BY <1>1 DEF Idle, Threads, pmroot, pmopened
<1>3. pm_shutdown' \in BOOLEAN
  BY <1>1 DEF PopupMenuInv, MenuTyped
<1>4. pm_events \in Seq(MenuEvents) /\ \A k \in DOMAIN pm_events : pm_events[k].gen <= pm_armed
  BY DEF PopupMenuInv, MenuTyped, PopupInv
<1>5. pm_events' \in Seq(MenuEvents) /\ \A k \in DOMAIN pm_events' : pm_events'[k].gen <= pm_armed
  BY <1>2, <1>4
<1> QED BY <1>1, <1>2, <1>3, <1>5, CloseKeepsInv

LEMMA OpenNothingKeepsInv ==
  ASSUME PopupMenuInv, OpenNothingSelectable
  PROVE  PopupMenuInv'
<1>1. AnswersExact /\ AnswersFrame
  BY FrameIs DEF PopupMenuInv
<1>2. "ui" \in Threads /\ pm_pc["ui"] = "idle" /\ ClearMenu
      /\ UNCHANGED <<pm_draining, pm_op, pm_commands, pm_next, pm_render, pm_popup, pm_armed,
                     pm_reopened, pm_events, pm_shutdown>>
  BY DEF OpenNothingSelectable, Idle, Threads, pmroot
<1>3. pm_events' \in Seq(MenuEvents) /\ pm_shutdown' \in BOOLEAN
      /\ \A k \in DOMAIN pm_events' : pm_events'[k].gen <= pm_armed
  BY <1>2 DEF PopupMenuInv, MenuTyped, PopupInv
<1>4. /\ EngineInv' /\ OneLeader' /\ StreamInv(Stream)' /\ Takes("ui", pm_menu.id)
      /\ pm_menu'.id = Nobody
  BY <1>2, <1>3, Clears DEF OpenNothingSelectable
<1>5. AnswersExact'
  <2>1. pm_left > 0 /\ pm_left' = pm_left - 1 /\ pm_opened' = pm_opened + 1
    BY DEF OpenNothingSelectable, Opens
  <2>2. pm_answers' = [pm_answers EXCEPT ![pm_opened + 1] = @ + 1]
    <3>1. pm_opened + 1 # Nobody
      BY <1>1 DEF AnswersExact, Nobody
    <3> QED BY <2>1, <3>1 DEF OpenNothingSelectable, Answer
  <2> QED BY <1>1, <1>2, <1>4, <2>1, <2>2, OpenAnswers
<1> QED BY <1>4, <1>5 DEF PopupMenuInv, EngineInv
-----------------------------------------------------------------------------
LEMMA OpenKeepsInv ==
  ASSUME PopupMenuInv, Open
  PROVE  PopupMenuInv'
<1>1. EngineInv /\ MenuTyped /\ OneLeader /\ StreamInv(Stream) /\ Numbers /\ AnswersExact /\ AnswersFrame
  BY InvParts, TypedParts, FrameIs DEF EngineInv
<1>2. /\ pm_left > 0 /\ pm_left' = pm_left - 1 /\ pm_opened' = pm_opened + 1
      /\ pm_pc["ui"] = "idle" /\ "ui" \in Threads /\ ~pm_shutdown
      /\ pm_menu' = [id |-> pm_opened + 1, laid |-> Nobody, row |-> 0] /\ pm_job' = "shape"
      /\ UNCHANGED <<pm_phase, pm_shutdown, pm_render, pm_commands, pm_popup, pm_armed, pm_events,
                     pm_failed, pm_refused>>
      /\ \/ pm_phase = "idle" /\ pm_next' = pm_next + 1 /\ pm_gen' = pm_next + 1
         \/ pm_phase # "idle" /\ UNCHANGED <<pm_next, pm_gen>>
      /\ pm_reopened' = (pm_reopened \/ (pm_menu # NoMenu /\ pm_phase # "shown"))
  BY DEF Open, Opens, Idle, pmroot, pmfaults, Threads
<1>3. Handed("ui", pm_menu.id) /\ Stream' = Stream /\ pm_answers' = pm_answers
  BY <1>1, <1>2, UpdateNone DEF Open
<1>4. /\ pm_menu' \in Menus /\ pm_menu'.id = pm_opened + 1 /\ pm_menu'.laid = Nobody
      /\ pm_menu'.id # Nobody /\ pm_menu' # NoMenu
  BY <1>1, <1>2, NoMenuIs DEF AnswersExact, Menus, Nobody
<1>5. AnswersExact'
  BY <1>1, <1>2, <1>3, <1>4, OpenAnswers DEF Handed
<1>6. pm_next' \in Nat /\ pm_gen' \in {Nobody, pm_next'} /\ pm_gen' # Nobody /\ pm_next <= pm_next'
  BY <1>1, <1>2 DEF Numbers, StreamInv, Lives
<1>7. MenuTyped'
  <2>1. pm_reopened' \in BOOLEAN
    BY <1>2
  <2> QED BY <1>1, <1>2, <1>3, <1>4, <1>6, <2>1 DEF MenuTyped, Handed
<1>8. PopupInv'
  <2>1. pm_armed <= pm_next'
    BY <1>1, <1>6 DEF Numbers
  <2> QED BY <1>1, <1>2, <2>1 DEF EngineInv, PopupInv
<1>9. MenuInv'
  BY <1>1, <1>2, <1>4, <1>6 DEF MenuInv
<1>10. Rendering' => Rendering /\ pm_phase # "idle"
  <2>1. CASE pm_phase = "idle" /\ pm_next' = pm_next + 1 /\ pm_gen' = pm_next + 1
    <3>1. pm_render.kind # "none" => pm_render.gen \in Nat /\ pm_render.gen <= pm_next
      BY <1>1, TypedParts DEF EngineInv, RenderInv
    <3> QED BY <1>1, <1>2, <2>1, <3>1 DEF Rendering, Numbers
  <2>2. CASE pm_phase # "idle" /\ UNCHANGED <<pm_next, pm_gen>>
    BY <1>2, <2>2 DEF Rendering
  <2> QED BY <1>2, <2>1, <2>2
<1>11. RenderInv'
  <2>1. pm_render.kind # "none" =>
          pm_render.gen \in Nat /\ pm_render.gen <= pm_next /\ pm_render.of.id # Nobody
    BY <1>1, TypedParts DEF EngineInv, RenderInv
  <2>2. pm_render.kind # "none" => pm_render.gen <= pm_next'
    BY <1>1, <1>6, <2>1 DEF Numbers
  <2> QED BY <1>2, <1>4, <1>10, <2>1, <2>2 DEF RenderInv
<1>12. LayoutDue'
  BY <1>2 DEF LayoutDue
<1>13. NotReplaced'
  <2>1. ASSUME ~pm_reopened', pm_phase' # "shown"
        PROVE  /\ pm_menu'.laid \in {Nobody, pm_menu'.id}
               /\ pm_phase' # "await_menu"
               /\ ~Rendering'
    <3>1. pm_menu = NoMenu
      BY <1>2, <2>1
    <3> QED BY <1>1, <1>2, <1>4, <1>10, <3>1 DEF EngineInv, MenuInv, RenderInv
  <2> QED BY <2>1 DEF NotReplaced
<1>14. StreamInv(Stream)'
  <2>1. CASE pm_phase = "idle" /\ pm_next' = pm_next + 1 /\ pm_gen' = pm_next + 1
    <3>1. Stream \in Seq(MenuOps)
      BY <1>1, StreamIs
    <3> QED BY <1>1, <1>2, <1>3, <2>1, <3>1, NewGenerationStream DEF StreamInv
  <2>2. CASE pm_phase # "idle" /\ UNCHANGED <<pm_next, pm_gen>>
    <3>1. Ready(pm_gen) => Ready(pm_gen)'
      BY <1>2, <2>2 DEF Ready, Is
    <3>2. PaintDue(Stream)' /\ PlaceDue(Stream)'
      BY <1>2, <1>4 DEF PaintDue, PlaceDue
    <3> QED BY <1>1, <1>2, <1>3, <2>2, <3>1, <3>2, KeptStream
  <2> QED BY <1>2, <2>1, <2>2
<1> QED BY <1>3, <1>5, <1>7, <1>8, <1>9, <1>11, <1>12, <1>13, <1>14 DEF PopupMenuInv, Handed

LEMMA RedrawKeepsInv ==
  ASSUME PopupMenuInv, Redraw
  PROVE  PopupMenuInv'
<1>1. EngineInv /\ MenuTyped /\ OneLeader /\ StreamInv(Stream) /\ Numbers /\ AnswersExact /\ AnswersFrame
      /\ pm_menu \in Menus /\ pm_menu.row \in {0, 1}
  BY InvParts, TypedParts, FrameIs DEF EngineInv
<1>2. /\ pm_left > 0 /\ pm_left' = pm_left - 1 /\ pm_menu.laid # Nobody
      /\ pm_pc["input"] = "idle" /\ "input" \in Threads
      /\ pm_menu' = [pm_menu EXCEPT !.row = 1 - @]
      /\ pm_job' = MoreUrgent("paint")
      /\ UNCHANGED <<pm_phase, pm_gen, pm_next, pm_shutdown, pm_render, pm_commands, pm_popup,
                     pm_armed, pm_events, pm_opened, pm_reopened, pm_failed, pm_refused>>
  BY DEF Redraw, Idle, pmroot, pmopened, pmfaults, Threads
<1>3. Handed("input", Nobody) /\ Stream' = Stream /\ pm_answers' = pm_answers
  BY <1>1, <1>2, UpdateNone DEF Redraw
<1>4. /\ pm_menu' \in Menus /\ pm_menu'.id = pm_menu.id /\ pm_menu'.laid = pm_menu.laid
      /\ pm_menu' # NoMenu /\ pm_menu # NoMenu
  <2>1. 1 - pm_menu.row \in {0, 1}
    BY <1>1
  <2>2. pm_menu' \in Menus /\ pm_menu'.id = pm_menu.id /\ pm_menu'.laid = pm_menu.laid
    BY <1>1, <1>2, <2>1 DEF Menus
  <2> QED BY <1>2, <2>2, NoMenuIs
<1>5. /\ pm_job' \in {"shape", "paint"} /\ pm_job' # "none" /\ (pm_job = "shape" => pm_job' = "shape")
      /\ Rendering' = Rendering
  BY <1>2 DEF MoreUrgent, Rendering
<1>6. MenuTyped'
  BY <1>1, <1>2, <1>3, <1>4, <1>5 DEF MenuTyped, Handed
<1>7. PopupInv' /\ MenuInv'
  BY <1>1, <1>2, <1>4 DEF EngineInv, PopupInv, MenuInv
<1>8. RenderInv'
  BY <1>1, <1>2, <1>4, <1>5 DEF EngineInv, RenderInv
<1>9. LayoutDue' /\ NotReplaced'
  BY <1>1, <1>2, <1>4, <1>5 DEF EngineInv, LayoutDue, NotReplaced
<1>10. StreamInv(Stream)'
  <2>1. Ready(pm_gen) => Ready(pm_gen)'
    BY <1>2 DEF Ready, Is
  <2>2. PaintDue(Stream)'
    BY <1>5 DEF PaintDue
  <2>3. AllDue(Stream) => PlaceDue(Stream)'
    BY <1>2, <1>3, <1>4 DEF AllDue, PlaceDue, Last, Has, Is, Placement
  <2> QED BY <1>1, <1>2, <1>3, <2>1, <2>2, <2>3, KeptStream
<1>11. AnswersExact'
  <2>1. /\ pm_resolve' = pm_resolve
    <3>1. pm_resolve \in [Threads -> 0 .. pm_opened] /\ pm_resolve["input"] = Nobody
      BY <1>1, <1>2 DEF AnswersExact
    <3> QED BY <1>3, <3>1 DEF Handed, Takes
  <2>2. \A u \in Threads : pm_pc'[u] = "idle" => pm_pc[u] = "idle"
    BY <1>1, <1>3 DEF Handed, Takes, AnswersFrame
  <2>3. pm_left' \in Nat /\ pm_opened + pm_left' <= MaxInputs
    <3>1. \A o, a, n \in Nat : o + a <= n /\ a > 0 => a - 1 \in Nat /\ o + (a - 1) <= n
      OBVIOUS
    <3> QED BY <1>1, <1>2, <3>1 DEF AnswersExact, AnswersFrame
  <2> QED BY <1>1, <1>2, <1>3, <1>4, <2>1, <2>2, <2>3 DEF AnswersExact
<1> QED BY <1>3, <1>6, <1>7, <1>8, <1>9, <1>10, <1>11 DEF PopupMenuInv, Handed

LEMMA TakeKeepsInv ==
  ASSUME PopupMenuInv, TakeRenderJob
  PROVE  PopupMenuInv'
<1>1. EngineInv /\ MenuTyped /\ OneLeader /\ StreamInv(Stream) /\ Numbers /\ AnswersExact /\ AnswersFrame
      /\ pm_menu \in Menus
  BY InvParts, TypedParts, FrameIs DEF EngineInv
<1>2. /\ pm_render.kind = "none" /\ ~Rendering /\ pm_job # "none" /\ pm_job' = "none"
      /\ UNCHANGED <<pm_phase, pm_gen, pm_next, pm_menu, pm_shutdown, pm_pending, pm_draining,
                     pm_pc, pm_op, pm_resolve, pm_answers, pm_commands, pm_popup, pm_armed,
                     pm_events, pm_left, pm_opened, pm_reopened, pm_failed, pm_refused>>
  BY DEF TakeRenderJob, pmemitter, pmroot, pmopened, pmfaults, Rendering
<1>3. \/ /\ pm_render' = [kind |-> "none"] /\ pm_render'.kind = "none"
         /\ pm_gen = Nobody \/ pm_menu = NoMenu \/ (pm_job = "paint" /\ pm_menu.laid = Nobody)
      \/ /\ pm_gen # Nobody /\ pm_menu # NoMenu /\ (pm_job = "paint" => pm_menu.laid # Nobody)
         /\ pm_render' = [kind |-> pm_job, gen |-> pm_gen, of |-> pm_menu]
         /\ pm_render'.kind = pm_job /\ pm_render'.gen = pm_gen /\ pm_render'.of = pm_menu
  BY DEF TakeRenderJob
<1>4. Stream' = Stream /\ OneLeader'
  BY <1>1, <1>2 DEF Stream, InHand, OneLeader
<1>5. MenuTyped'
  <2>1. pm_job \in {"shape", "paint"}
    BY <1>1, <1>2 DEF MenuTyped
  <2>2. pm_gen # Nobody => pm_gen \in Nat \ {0}
    BY <1>1 DEF Numbers, Nobody
  <2>3. pm_render' \in Renders
    BY <1>1, <1>3, <2>1, <2>2 DEF Renders
  <2> QED BY <1>1, <1>2, <2>3 DEF MenuTyped
<1>6. PopupInv' /\ MenuInv'
  BY <1>1, <1>2 DEF EngineInv, PopupInv, MenuInv
<1>7. RenderInv'
  <2>1. CASE pm_render'.kind = "none"
    BY <2>1 DEF RenderInv, Rendering
  <2>2. CASE /\ pm_gen # Nobody /\ pm_menu # NoMenu /\ (pm_job = "paint" => pm_menu.laid # Nobody)
             /\ pm_render'.kind = pm_job /\ pm_render'.gen = pm_gen /\ pm_render'.of = pm_menu
    <3>1. pm_gen <= pm_next /\ pm_menu.id # Nobody
      BY <1>1, <2>2 DEF Numbers, EngineInv, MenuInv
    <3>2. pm_phase = "idle" => pm_job = "shape"
      BY <1>1, <1>2, <2>2 DEF EngineInv, MenuInv, MenuTyped
    <3> QED BY <1>2, <2>2, <3>1, <3>2 DEF RenderInv, Rendering
  <2> QED BY <1>3, <2>1, <2>2
<1>8. pm_menu # NoMenu /\ pm_menu.laid # pm_menu.id =>
        pm_render'.kind = "shape" /\ Rendering' /\ pm_render'.of.id = pm_menu.id
  <2>1. ASSUME pm_menu # NoMenu, pm_menu.laid # pm_menu.id
        PROVE  pm_render'.kind = "shape" /\ Rendering' /\ pm_render'.of.id = pm_menu.id
    <3>1. pm_job = "shape" /\ pm_gen # Nobody
      BY <1>1, <1>2, <2>1 DEF EngineInv, LayoutDue, MenuInv
    <3> QED BY <1>2, <1>3, <2>1, <3>1 DEF Rendering
  <2> QED BY <2>1
<1>9. LayoutDue'
  BY <1>2, <1>8 DEF LayoutDue
<1>10. NotReplaced'
  BY <1>1, <1>2, <1>3 DEF EngineInv, NotReplaced, Rendering
<1>11. StreamInv(Stream)'
  <2>1. Ready(pm_gen) => Ready(pm_gen)'
    BY <1>2 DEF Ready, Is
  <2>2. pm_phase = "shown" => Rendering'
    <3>1. ASSUME pm_phase = "shown" PROVE Rendering'
      <4>1. pm_menu # NoMenu /\ pm_gen # Nobody
        BY <1>1, <3>1 DEF EngineInv, MenuInv
      <4>2. CASE pm_menu.laid # pm_menu.id
        BY <1>8, <4>1, <4>2
      <4>3. CASE pm_menu.laid = pm_menu.id
        <5>1. pm_menu.laid # Nobody
          BY <1>1, <4>1, <4>3 DEF EngineInv, MenuInv
        <5> QED BY <1>2, <1>3, <4>1, <5>1 DEF Rendering
      <4> QED BY <4>2, <4>3
    <3> QED BY <3>1
  <2>3. PaintDue(Stream)'
    BY <1>2, <2>2 DEF PaintDue
  <2>4. AllDue(Stream) => PlaceDue(Stream)'
    BY <1>2, <1>4 DEF AllDue, PlaceDue, Last, Has, Is, Placement
  <2> QED BY <1>1, <1>2, <1>4, <2>1, <2>3, <2>4, KeptStream
<1>12. AnswersExact'
  BY <1>1, <1>2, SameAnswers
<1> QED BY <1>4, <1>5, <1>6, <1>7, <1>9, <1>10, <1>11, <1>12 DEF PopupMenuInv
-----------------------------------------------------------------------------
(* An update of a thread that answers nothing.                              *)
LEMMA NoAnswer ==
  ASSUME AnswersFrame, AnswersExact, NEW t \in Threads, Takes(t, Nobody),
         UNCHANGED <<pm_answers, pm_opened, pm_left>>, pm_menu'.id = pm_menu.id
  PROVE  AnswersExact'
<1>1. pm_resolve' = pm_resolve
  <2>1. pm_resolve \in [Threads -> 0 .. pm_opened] /\ pm_resolve[t] = Nobody
    BY DEF AnswersExact, Takes
  <2> QED BY <2>1 DEF Takes
<1>2. \A u \in Threads : pm_pc'[u] = "idle" => pm_pc[u] = "idle"
  BY DEF Takes, AnswersFrame
<1> QED BY <1>1, <1>2, SameAnswers

Delivered ==
  /\ pm_pc["render"] = "idle" /\ "render" \in Threads /\ pm_render.kind # "none"
  /\ pm_render' = [kind |-> "none"]
  /\ UNCHANGED <<pm_gen, pm_next, pm_shutdown, pm_commands, pm_popup, pm_armed, pm_events, pm_left,
                 pm_opened, pm_reopened, pm_failed, pm_refused>>

LEMMA StaleKeepsInv ==
  ASSUME PopupMenuInv, Delivered, Stale, Update("render", <<>>, Nobody),
         UNCHANGED <<pm_phase, pm_menu, pm_job>>
  PROVE  PopupMenuInv'
<1>1. EngineInv /\ MenuTyped /\ OneLeader /\ StreamInv(Stream) /\ Numbers /\ AnswersExact /\ AnswersFrame
  BY InvParts, TypedParts, FrameIs DEF EngineInv
<1>2. Handed("render", Nobody) /\ Stream' = Stream /\ pm_answers' = pm_answers
  BY <1>1, UpdateNone DEF Delivered
<1>3. ~Rendering /\ ~Rendering' /\ pm_render' \in Renders /\ pm_render'.kind = "none"
  BY <1>1 DEF Rendering, Stale, Delivered, EngineInv, RenderInv, Renders
<1>4. MenuTyped'
  BY <1>1, <1>2, <1>3 DEF MenuTyped, Delivered, Handed
<1>5. PopupInv' /\ MenuInv' /\ RenderInv' /\ LayoutDue' /\ NotReplaced'
  BY <1>1, <1>3 DEF EngineInv, PopupInv, MenuInv, RenderInv, LayoutDue, NotReplaced, Delivered
<1>6. StreamInv(Stream)'
  <2>1. Ready(pm_gen) => Ready(pm_gen)'
    BY DEF Ready, Is, Delivered
  <2>2. AllDue(Stream) => PaintDue(Stream)' /\ PlaceDue(Stream)'
    BY <1>2, <1>3 DEF AllDue, PaintDue, PlaceDue, Last, Has, Is, Picture, Placement, Delivered
  <2> QED BY <1>1, <1>2, <2>1, <2>2, KeptStream DEF Delivered
<1>7. AnswersExact'
  BY <1>1, <1>2, NoAnswer DEF Delivered, Handed
<1> QED BY <1>2, <1>4, <1>5, <1>6, <1>7 DEF PopupMenuInv, Handed

LEMMA PixelsKeepInv ==
  ASSUME PopupMenuInv, Delivered, ~Stale, pm_render.kind = "paint", OnPixels
  PROVE  PopupMenuInv'
<1>1. EngineInv /\ MenuTyped /\ OneLeader /\ StreamInv(Stream) /\ Numbers /\ AnswersExact /\ AnswersFrame
  BY InvParts, TypedParts, FrameIs DEF EngineInv
<1>2. PICK x : x = <<pm_menu.laid, pm_render.of.id, pm_render.of.row>>
  OBVIOUS
<1>3. x \in Pictures
  <2>1. pm_menu.laid \in Nat /\ pm_render.of.id \in Nat /\ pm_render.of.row \in Nat
    BY <1>1, TypedParts
  <2> QED BY <1>2, <2>1 DEF Pictures
<1>4. Rendering /\ pm_gen \in Nat \ {0} /\ pm_menu # NoMenu /\ pm_phase # "idle"
  BY <1>1, TypedParts DEF Rendering, Stale, EngineInv, RenderInv
<1>5. PICK a \in MenuOps : a = Present(pm_gen, x)
  BY <1>3, <1>4, MadeOps
<1>6. Update("render", <<a>>, Nobody) /\ UNCHANGED <<pm_phase, pm_menu, pm_job>>
  BY <1>2, <1>5 DEF OnPixels, Drawn
<1>7. Handed("render", Nobody) /\ Grows(Stream, Stream', Present(pm_gen, x)) /\ pm_answers' = pm_answers
  BY <1>1, <1>5, <1>6, UpdateOne DEF Delivered
<1>8. ~Rendering' /\ pm_render' \in Renders /\ pm_render'.kind = "none"
  BY DEF Rendering, Delivered, Renders
<1>9. MenuTyped'
  BY <1>1, <1>6, <1>7, <1>8 DEF MenuTyped, Delivered, Handed
<1>10. PopupInv' /\ MenuInv' /\ RenderInv' /\ NotReplaced'
  BY <1>1, <1>6, <1>8 DEF EngineInv, PopupInv, MenuInv, RenderInv, NotReplaced, Delivered
<1>11. LayoutDue'
  BY <1>1, <1>6 DEF EngineInv, LayoutDue
<1>12. pm_phase = "shown" => pm_job # "none" \/ x = Picture(pm_menu)
  <2>1. pm_job = "none" => pm_menu.laid = pm_menu.id
    BY <1>1, <1>4 DEF EngineInv, LayoutDue
  <2>2. pm_job = "none" => pm_render.of.id = pm_menu.id /\ pm_render.of.row = pm_menu.row
    BY <1>1, <1>4 DEF EngineInv, RenderInv
  <2> QED BY <1>2, <2>1, <2>2 DEF Picture
<1>13. StreamInv(Stream)'
  BY <1>1, <1>4, <1>6, <1>7, <1>12, PaintsStream DEF StreamInv, Delivered
<1>14. AnswersExact'
  BY <1>1, <1>6, <1>7, NoAnswer DEF Delivered, Handed
<1> QED BY <1>7, <1>9, <1>10, <1>11, <1>13, <1>14 DEF PopupMenuInv, Handed

(* What of the engine a layout changes.                                     *)
LEMMA LaidOut ==
  ASSUME PopupMenuInv, Delivered, ~Stale, pm_render.kind = "shape",
         OnLayout, Handed("render", Nobody), pm_answers' = pm_answers
  PROVE  /\ EngineInv' /\ AnswersExact' /\ pm_menu' \in Menus
         /\ pm_menu'.id = pm_menu.id /\ pm_menu'.laid = pm_render.of.id
         /\ pm_menu.id # Nobody /\ pm_gen # Nobody /\ pm_gen \in Nat \ {0}
         /\ pm_phase' = IF pm_phase \in {"placeholder", "idle"} THEN "await_menu" ELSE pm_phase
         /\ pm_phase = "shown" => pm_job' # "none"
         /\ ~pm_reopened /\ pm_phase = "await_menu" => pm_menu'.laid = pm_menu.laid
<1>1. EngineInv /\ MenuTyped /\ OneLeader /\ Numbers /\ AnswersExact /\ AnswersFrame
      /\ pm_menu \in Menus /\ pm_render.of.id \in Nat
  BY InvParts, TypedParts, FrameIs DEF EngineInv
<1>2. /\ Rendering /\ pm_menu # NoMenu /\ pm_menu.id # Nobody /\ pm_gen # Nobody
      /\ pm_gen \in Nat \ {0} /\ pm_render.of.id # Nobody
  BY <1>1, TypedParts DEF Rendering, Stale, EngineInv, RenderInv, MenuInv
<1>3. /\ pm_menu' = [pm_menu EXCEPT !.laid = pm_render.of.id]
      /\ pm_phase' = IF pm_phase \in {"placeholder", "idle"} THEN "await_menu" ELSE pm_phase
      /\ pm_job' = IF pm_phase = "shown" THEN MoreUrgent("paint") ELSE pm_job
  BY DEF OnLayout
<1>4. /\ pm_menu' \in Menus /\ pm_menu'.id = pm_menu.id /\ pm_menu'.laid = pm_render.of.id
      /\ pm_menu' # NoMenu
  <2>1. pm_menu' \in Menus /\ pm_menu'.id = pm_menu.id /\ pm_menu'.laid = pm_render.of.id
    BY <1>1, <1>3 DEF Menus
  <2> QED BY <1>2, <2>1, NoMenuIs
<1>5. /\ pm_job' \in {"none", "shape", "paint"} /\ (pm_job = "shape" => pm_job' = "shape")
      /\ pm_phase = "shown" => pm_job' # "none"
  BY <1>1, <1>3 DEF MoreUrgent, MenuTyped
<1>6. ~Rendering' /\ pm_render' \in Renders /\ pm_render'.kind = "none"
  BY DEF Rendering, Delivered, Renders
<1>7. MenuTyped'
  <2>1. pm_phase' \in MenuPhases
    BY <1>1, <1>3 DEF MenuTyped, MenuPhases
  <2> QED BY <1>1, <1>4, <1>5, <1>6, <2>1 DEF MenuTyped, Delivered, Handed
<1>8. PopupInv'
  BY <1>1 DEF EngineInv, PopupInv, Delivered
<1>9. MenuInv'
  BY <1>1, <1>2, <1>3, <1>4 DEF EngineInv, MenuInv, Delivered
<1>10. RenderInv'
  BY <1>6 DEF RenderInv
<1>11. LayoutDue'
  BY <1>1, <1>2, <1>4, <1>5 DEF EngineInv, LayoutDue, RenderInv
<1>12. ~pm_reopened /\ pm_phase # "shown" => pm_menu'.laid = pm_menu.id
  BY <1>1, <1>2, <1>4 DEF EngineInv, NotReplaced
<1>13. NotReplaced'
  <2>1. pm_reopened' = pm_reopened /\ (pm_phase' # "shown" => pm_phase # "shown")
    BY <1>3 DEF Delivered
  <2> QED BY <1>4, <1>6, <1>12, <2>1 DEF NotReplaced
<1>14. ~pm_reopened /\ pm_phase = "await_menu" => pm_menu'.laid = pm_menu.laid
  BY <1>1, <1>12 DEF EngineInv, NotReplaced
<1>15. AnswersExact'
  BY <1>1, <1>4, NoAnswer DEF Delivered, Handed
<1> QED BY <1>2, <1>3, <1>4, <1>5, <1>7, <1>8, <1>9, <1>10, <1>11, <1>13, <1>14, <1>15 DEF EngineInv

LEMMA LayoutKeepsInv ==
  ASSUME PopupMenuInv, Delivered, ~Stale, pm_render.kind = "shape", OnLayout
  PROVE  PopupMenuInv'
<1>1. EngineInv /\ MenuTyped /\ OneLeader /\ StreamInv(Stream) /\ Numbers /\ AnswersExact /\ AnswersFrame
      /\ pm_menu.id \in Nat /\ pm_render.of.id \in Nat
  BY InvParts, TypedParts, FrameIs DEF EngineInv
<1>2. PICK m : m = [pm_menu EXCEPT !.laid = pm_render.of.id]
  OBVIOUS
<1>3. pm_menu' = m /\ m.id = pm_menu.id /\ m.laid = pm_render.of.id
  <2>1. pm_menu \in Menus
    BY <1>1 DEF MenuTyped
  <2> QED BY <1>2, <2>1 DEF OnLayout, Menus
<1>4. Placement(m) \in Places /\ Placement(m) = Placement(pm_menu)' /\ pm_gen \in Nat \ {0}
  <2>1. pm_gen \in Nat \ {0}
    BY <1>1, TypedParts DEF Stale
  <2> QED BY <1>1, <1>3, <2>1 DEF Placement, Places
<1>5. Present(pm_gen, Invisible) \in MenuOps /\ Reposition(pm_gen, Placement(m)) \in MenuOps
      /\ Create(pm_gen, Placement(m)) \in MenuOps
  <2>1. Invisible \in Pictures
    BY DEF Invisible, Pictures
  <2> QED BY <1>4, <2>1, MadeOps
<1>6. CASE pm_phase = "placeholder"
  <2>1. Update("render", <<Present(pm_gen, Invisible), Reposition(pm_gen, Placement(m))>>, Nobody)
    BY <1>2, <1>6 DEF OnLayout, BeginMenu
  <2>2. Handed("render", Nobody) /\ pm_answers' = pm_answers
        /\ GrowsTwice(Stream, Stream', Present(pm_gen, Invisible), Reposition(pm_gen, Placement(m)))
    BY <1>1, <1>5, <2>1, UpdateTwo DEF Delivered
  <2>3. EngineInv' /\ AnswersExact' /\ pm_menu.id # Nobody /\ pm_phase' = "await_menu"
    BY <1>6, <2>2, LaidOut
  <2>4. StreamInv(Stream)'
    <3>1. pm_popup.gen = pm_gen
      BY <1>1, <1>6 DEF StreamInv, Lives
    <3> QED BY <1>1, <1>3, <1>6, <2>2, <2>3, <3>1, BeginsStream DEF StreamInv, Delivered
  <2> QED BY <2>2, <2>3, <2>4, InvParts DEF Handed, PopupMenuInv, EngineInv
<1>7. CASE pm_phase = "idle"
  <2>1. Update("render", <<Create(pm_gen, Placement(m))>>, Nobody)
    BY <1>2, <1>7 DEF OnLayout
  <2>2. Handed("render", Nobody) /\ pm_answers' = pm_answers
        /\ Grows(Stream, Stream', Create(pm_gen, Placement(m)))
    BY <1>1, <1>5, <2>1, UpdateOne DEF Delivered
  <2>3. EngineInv' /\ AnswersExact' /\ pm_gen # Nobody /\ pm_phase' = "await_menu"
    BY <1>7, <2>2, LaidOut
  <2>4. StreamInv(Stream)'
    BY <1>1, <1>4, <1>7, <2>2, <2>3, CreatesStream DEF StreamInv, Delivered
  <2> QED BY <2>2, <2>3, <2>4 DEF Handed, PopupMenuInv, EngineInv
<1>8. CASE pm_phase = "shown"
  <2>1. Update("render", <<Reposition(pm_gen, Placement(m))>>, Nobody)
    BY <1>2, <1>8 DEF OnLayout
  <2>2. Handed("render", Nobody) /\ pm_answers' = pm_answers
        /\ Grows(Stream, Stream', Reposition(pm_gen, Placement(m)))
    BY <1>1, <1>5, <2>1, UpdateOne DEF Delivered
  <2>3. EngineInv' /\ AnswersExact' /\ pm_job' # "none" /\ pm_phase' = "shown"
    BY <1>8, <2>2, LaidOut
  <2>4. StreamInv(Stream)'
    BY <1>1, <1>4, <1>8, <2>2, <2>3, MovesStream DEF StreamInv, Delivered
  <2> QED BY <2>2, <2>3, <2>4 DEF Handed, PopupMenuInv, EngineInv
<1>9. CASE pm_phase \notin {"placeholder", "idle", "shown"}
  <2>1. Update("render", <<>>, Nobody)
    BY <1>9 DEF OnLayout
  <2>2. Handed("render", Nobody) /\ pm_answers' = pm_answers /\ Stream' = Stream
    BY <1>1, <2>1, UpdateNone DEF Delivered
  <2>3. /\ EngineInv' /\ AnswersExact' /\ pm_phase' = pm_phase
        /\ ~pm_reopened /\ pm_phase = "await_menu" => pm_menu'.laid = pm_menu.laid
    BY <1>9, <2>2, LaidOut
  <2>4. StreamInv(Stream)'
    <3>1. Ready(pm_gen) => Ready(pm_gen)'
      BY DEF Ready, Is, Delivered
    <3>2. PaintDue(Stream)'
      BY <1>9, <2>3 DEF PaintDue
    <3>3. AllDue(Stream) => PlaceDue(Stream)'
      <4>1. SUFFICES ASSUME AllDue(Stream), ~pm_reopened, pm_phase = "await_menu",
                            pm_menu'.laid = pm_menu'.id
                     PROVE  PlaceDue(Stream)'
        BY <1>9, <2>3 DEF PlaceDue, Delivered
      <4>2. pm_menu.laid = pm_menu.id /\ Placement(pm_menu)' = Placement(pm_menu)
        BY <1>3, <2>3, <4>1 DEF Placement
      <4> QED BY <2>2, <2>3, <4>1, <4>2 DEF AllDue, PlaceDue, Last, Has, Is, Delivered
    <3> QED BY <1>1, <2>2, <2>3, <3>1, <3>2, <3>3, KeptStream DEF Delivered
  <2> QED BY <2>2, <2>3, <2>4 DEF Handed, PopupMenuInv, EngineInv
<1> QED BY <1>6, <1>7, <1>8, <1>9

LEMMA DeliverKeepsInv ==
  ASSUME PopupMenuInv, Deliver
  PROVE  PopupMenuInv'
<1>1. Delivered
  BY DEF Deliver, Delivered, Threads, pmroot, pmopened, pmfaults
<1>2. CASE Stale
  BY <1>1, <1>2, StaleKeepsInv DEF Deliver
<1>3. CASE ~Stale
  BY <1>1, <1>3, LayoutKeepsInv, PixelsKeepInv DEF Deliver
<1> QED BY <1>2, <1>3

(* A picture is given up before it is handed on.                            *)
LEMMA PaintFailsKeepsInv ==
  ASSUME PopupMenuInv, PaintFails
  PROVE  PopupMenuInv'
<1>1. EngineInv /\ MenuTyped /\ OneLeader /\ StreamInv(Stream) /\ Numbers /\ AnswersExact /\ AnswersFrame
  BY InvParts, TypedParts, FrameIs DEF EngineInv
<1>2. /\ pm_render.kind = "paint" /\ pm_render' = [kind |-> "none"] /\ Loses(Drawn)
      /\ UNCHANGED <<pm_phase, pm_gen, pm_next, pm_menu, pm_job, pm_shutdown, pm_pending, pm_draining,
                     pm_pc, pm_op, pm_resolve, pm_answers, pm_commands, pm_popup, pm_armed,
                     pm_events, pm_left, pm_opened, pm_reopened, pm_failed>>
  BY DEF PaintFails, pmstate, pmemitter, pmroot, pmopened
<1>3. Stream' = Stream /\ OneLeader'
  BY <1>1, <1>2 DEF Stream, InHand, OneLeader
<1>4. ~Rendering' /\ pm_render' \in Renders /\ pm_render'.kind = "none"
  BY <1>2 DEF Rendering, Renders
<1>5. MenuTyped'
  <2>1. pm_menu.laid \in Nat /\ pm_render.of.id \in Nat /\ pm_render.of.row \in Nat
    BY <1>1, <1>2, TypedParts
  <2>2. Drawn \in Pictures
    BY <2>1 DEF Drawn, Pictures
  <2>3. pm_refused' \in Pictures
    BY <1>1, <1>2, <2>2 DEF Loses, MenuTyped
  <2> QED BY <1>1, <1>2, <1>4, <2>3 DEF MenuTyped
<1>6. PopupInv' /\ MenuInv' /\ RenderInv' /\ NotReplaced'
  BY <1>1, <1>2, <1>4 DEF EngineInv, PopupInv, MenuInv, RenderInv, NotReplaced
<1>7. LayoutDue'
  BY <1>1, <1>2 DEF EngineInv, LayoutDue
<1>8. AllDue(Stream) => PaintDue(Stream)' /\ PlaceDue(Stream)'
  <2>1. SUFFICES ASSUME AllDue(Stream) PROVE PaintDue(Stream)' /\ PlaceDue(Stream)'
    OBVIOUS
  <2>2. PlaceDue(Stream)'
    BY <1>2, <1>3, <2>1 DEF AllDue, PlaceDue, Last, Has, Is, Placement
  <2>3. Picture(pm_menu)' = Picture(pm_menu)
    BY <1>2 DEF Picture
  <2>4. pm_refused = Picture(pm_menu) => pm_refused' = Picture(pm_menu)'
    BY <1>2, <2>3 DEF Loses
  <2>5. CASE pm_phase = "shown" /\ pm_job = "none" /\ Rendering
    <3>1. pm_menu # NoMenu /\ pm_render.of.id = pm_menu.id /\ pm_render.of.row = pm_menu.row
      BY <1>1, <1>2, <2>5 DEF EngineInv, RenderInv
    <3>2. pm_menu.laid = pm_menu.id
      BY <1>1, <1>2, <2>5, <3>1 DEF EngineInv, LayoutDue
    <3>3. Drawn = Picture(pm_menu)
      BY <3>1, <3>2 DEF Drawn, Picture
    <3>4. pm_refused' = Picture(pm_menu)'
      BY <1>2, <2>3, <3>3 DEF Loses
    <3> QED BY <2>2, <3>4 DEF PaintDue
  <2>6. CASE ~(pm_phase = "shown" /\ pm_job = "none" /\ Rendering)
    <3>1. PaintDue(Stream)'
      BY <1>2, <1>3, <2>1, <2>3, <2>4, <2>6 DEF AllDue, PaintDue, Last, Has, Is
    <3> QED BY <2>2, <3>1
  <2> QED BY <2>5, <2>6
<1>9. StreamInv(Stream)'
  <2>1. Ready(pm_gen) => Ready(pm_gen)'
    BY <1>2 DEF Ready, Is
  <2> QED BY <1>1, <1>2, <1>3, <1>8, <2>1, KeptStream
<1>10. AnswersExact'
  BY <1>1, <1>2, SameAnswers
<1> QED BY <1>3, <1>5, <1>6, <1>7, <1>9, <1>10 DEF PopupMenuInv
-----------------------------------------------------------------------------
LEMMA MoreEvents ==
  ASSUME pm_events \in Seq(MenuEvents), NEW e \in MenuEvents, pm_events' = Append(pm_events, e),
         pm_gen' = pm_gen
  PROVE  /\ pm_events' \in Seq(MenuEvents)
         /\ Ready(pm_gen) => Ready(pm_gen)'
         /\ Is(e, "ready", pm_gen) => Ready(pm_gen)'
         /\ \A k \in DOMAIN pm_events' :
              pm_events'[k] = e \/ \E j \in DOMAIN pm_events : pm_events'[k] = pm_events[j]
<1>1. PICK l \in Nat : l = Len(pm_events)
  OBVIOUS
<1>2. /\ pm_events' \in Seq(MenuEvents) /\ DOMAIN pm_events = 1 .. l /\ DOMAIN pm_events' = 1 .. l + 1
      /\ pm_events'[l + 1] = e /\ \A k \in 1 .. l : pm_events'[k] = pm_events[k]
  BY <1>1
<1>3. \A k \in 1 .. l + 1 : k \in 1 .. l \/ k = l + 1
  OBVIOUS
<1>4. \A k \in 1 .. l : k \in 1 .. l + 1
  OBVIOUS
<1>5. l + 1 \in 1 .. l + 1
  OBVIOUS
<1> QED BY <1>2, <1>3, <1>4, <1>5 DEF Ready

LEMMA LessEvents ==
  ASSUME pm_events \in Seq(MenuEvents), pm_events # <<>>, pm_events' = Tail(pm_events),
         pm_gen' = pm_gen
  PROVE  /\ pm_events' \in Seq(MenuEvents) /\ Head(pm_events) \in MenuEvents
         /\ \E k \in DOMAIN pm_events : pm_events[k] = Head(pm_events)
         /\ Ready(pm_gen) => Ready(pm_gen)' \/ Is(Head(pm_events), "ready", pm_gen)
         /\ \A k \in DOMAIN pm_events' : \E j \in DOMAIN pm_events : pm_events'[k] = pm_events[j]
<1>1. PICK l \in Nat : l + 1 = Len(pm_events)
  <2>1. Len(pm_events) \in Nat \ {0}
    BY EmptySeq, LenProperties
  <2>2. Len(pm_events) - 1 \in Nat /\ (Len(pm_events) - 1) + 1 = Len(pm_events)
    BY <2>1
  <2> QED BY <2>2
<1>2. /\ pm_events' \in Seq(MenuEvents) /\ Head(pm_events) = pm_events[1]
      /\ DOMAIN pm_events = 1 .. l + 1 /\ DOMAIN pm_events' = 1 .. l
      /\ \A k \in 1 .. l : pm_events'[k] = pm_events[k + 1]
  BY <1>1
<1>3. Head(pm_events) \in MenuEvents
  OBVIOUS
<1>4. /\ \A k \in 1 .. l + 1 : k = 1 \/ (k - 1 \in 1 .. l /\ pm_events'[k - 1] = pm_events[k])
      /\ \A k \in 1 .. l : k + 1 \in 1 .. l + 1
      /\ 1 \in 1 .. l + 1
  BY <1>2
<1>5. \E k \in DOMAIN pm_events : pm_events[k] = Head(pm_events)
  BY <1>2, <1>4
<1>6. \A k \in DOMAIN pm_events' : \E j \in DOMAIN pm_events : pm_events'[k] = pm_events[j]
  BY <1>2, <1>4
<1>7. \A k \in DOMAIN pm_events :
        pm_events[k] = Head(pm_events) \/ \E j \in DOMAIN pm_events' : pm_events'[j] = pm_events[k]
  BY <1>2, <1>4
<1>8. Ready(pm_gen) => Ready(pm_gen)' \/ Is(Head(pm_events), "ready", pm_gen)
  BY <1>7 DEF Ready, Is
<1> QED BY <1>2, <1>3, <1>5, <1>6, <1>8

LEMMA AppliedEngine ==
  ASSUME PopupMenuInv, UNCHANGED <<pmstate, pm_pending, pmemitter, pm_render, pm_left, pmopened>>,
         pm_commands' \in Seq(MenuOps), pm_popup' \in Popups, pm_armed' \in Nat, pm_events' \in Seq(MenuEvents),
         pm_failed' \in BOOLEAN, pm_refused' \in Pictures
  PROVE  /\ MenuTyped' /\ MenuInv' /\ RenderInv' /\ LayoutDue' /\ NotReplaced' /\ AnswersExact'
         /\ UNCHANGED <<pm_phase, pm_gen, pm_next, pm_menu, pm_job, pm_shutdown, pm_render, pm_reopened>>
         /\ UNCHANGED <<pm_pc, pm_op, pm_pending, pm_draining>>
<1>1. /\ UNCHANGED <<pm_phase, pm_gen, pm_next, pm_menu, pm_job, pm_shutdown, pm_render, pm_reopened>>
      /\ UNCHANGED <<pm_pc, pm_op, pm_pending, pm_draining, pm_resolve, pm_answers, pm_left, pm_opened>>
  BY DEF pmstate, pmemitter, pmopened
<1>2. MenuTyped'
  BY <1>1 DEF PopupMenuInv, MenuTyped
<1>3. MenuInv' /\ RenderInv' /\ LayoutDue' /\ NotReplaced'
  BY <1>1 DEF PopupMenuInv, MenuInv, RenderInv, LayoutDue, NotReplaced, Rendering
<1>4. AnswersExact'
  <2>1. AnswersFrame /\ AnswersExact
    BY FrameIs DEF PopupMenuInv
  <2> QED BY <1>1, <2>1, SameAnswers
<1> QED BY <1>1, <1>2, <1>3, <1>4

LEMMA NoPopupIs ==
  NoPopup \in Popups /\ NoPopup.gen = Nobody /\ ~NoPopup.mapped /\ NoPopup.pixels = <<>>
<1>1. <<>> \in Places /\ <<>> \in Pictures
  BY DEF Places, Pictures
<1> QED BY <1>1 DEF NoPopup, Popups, Nobody

(* What creation does to the popup, and what it does if it fails.           *)
LEMMA Created ==
  ASSUME PopupMenuInv, NEW c \in MenuOps, Shrinks(Stream, Stream', c), OneLeader',
         pm_commands' \in Seq(MenuOps), c.kind = "create", pm_armed' = c.gen,
         pm_popup' \in Popups, pm_events' \in Seq(MenuEvents),
         \/ pm_popup' = NoPopup
         \/ pm_popup'.gen = c.gen /\ pm_popup'.held = <<>> /\ pm_popup'.pixels = <<>>,
         \A k \in DOMAIN pm_events' : pm_events'[k].gen <= c.gen,
         pm_refused' = pm_refused, pm_failed' \in BOOLEAN,
         c.gen # pm_gen => pm_failed' = pm_failed,
         UNCHANGED <<pmstate, pm_pending, pmemitter, pm_render, pm_left, pmopened>>,
         pm_phase # "idle" /\ ~pm_failed' => AllDue(Stream)'
  PROVE  PopupMenuInv'
<1>1. EngineInv /\ MenuTyped /\ OneLeader /\ StreamInv(Stream) /\ Numbers
  BY InvParts, TypedParts DEF EngineInv, StreamInv
<1>2. c.gen <= pm_next /\ c.gen \in Nat \ {0} /\ c.gen # Nobody
  BY <1>1, HeadFirst DEF StreamInv, Nobody
<1>3. pm_popup'.gen \in {Nobody, c.gen} /\ (pm_popup'.gen # Nobody => pm_popup'.gen = c.gen)
  BY DEF NoPopup
<1>4. UNCHANGED <<pm_phase, pm_gen, pm_next, pm_menu, pm_job, pm_shutdown, pm_render, pm_reopened>>
  BY DEF pmstate, pmopened
<1>5. MenuTyped' /\ MenuInv' /\ RenderInv' /\ LayoutDue' /\ NotReplaced' /\ AnswersExact'
  BY <1>1, <1>2, AppliedEngine DEF MenuTyped
<1>6. PopupInv'
  <2>1. pm_popup'.held = <<>> /\ pm_popup'.pixels = <<>>
    BY DEF NoPopup
  <2> QED BY <1>2, <1>3, <1>4, <2>1 DEF PopupInv, NoPopup
<1>7. Ordered(Stream)' /\ Dies(Stream)'
  BY <1>1, <1>3, <1>4, AppliedOrder DEF StreamInv
<1>8. Lives(Stream)'
  BY <1>1, <1>4, AppliedLives DEF StreamInv
<1>9. ~pm_failed' => AllDue(Stream)'
  BY <1>4, IdleOwesNothing DEF AllDue, Reaches, PlaceholderInv, ConfigureDue, PaintDue, PlaceDue
<1> QED BY <1>5, <1>6, <1>7, <1>8, <1>9 DEF PopupMenuInv, StreamInv

LEMMA CreateKeepsInv ==
  ASSUME PopupMenuInv, NEW c \in MenuOps, Shrinks(Stream, Stream', c), OneLeader',
         pm_commands' \in Seq(MenuOps), CreateMenuPopup(c),
         UNCHANGED <<pmstate, pm_pending, pmemitter, pm_render, pm_left, pmopened>>
  PROVE  PopupMenuInv'
<1>1. EngineInv /\ MenuTyped /\ OneLeader /\ StreamInv(Stream) /\ Numbers
  BY InvParts, TypedParts DEF EngineInv, StreamInv
<1>2. c.kind = "create" /\ pm_armed < c.gen /\ c.gen <= pm_next /\ c.gen \in Nat \ {0}
      /\ c.place \in Places /\ (pm_gen # Nobody => pm_popup.gen # pm_gen)
  BY <1>1, HeadFirst, OpFacts DEF CreateMenuPopup, StreamInv
<1>3. PICK e \in MenuEvents : e = [kind |-> "ready", gen |-> c.gen] /\ e.gen = c.gen /\ e.kind = "ready"
  <2>1. PICK g \in Nat \ {0} : g = c.gen
    BY <1>2
  <2>2. [kind |-> "ready", gen |-> g] \in MenuEvents
    BY DEF MenuEvents
  <2> QED BY <2>1, <2>2
<1>4. /\ pm_armed' = c.gen /\ pm_refused' = pm_refused
      /\ \/ /\ pm_popup' = [NoPopup EXCEPT !.gen = c.gen, !.sent = c.place]
            /\ pm_events' = Append(pm_events, e) /\ pm_failed' = pm_failed
         \/ /\ pm_popup' = NoPopup /\ pm_events' = pm_events
            /\ pm_failed' = (pm_failed \/ c.gen = pm_gen)
  <2>1. ~(c.gen <= pm_armed)
    BY <1>1, <1>2 DEF Numbers
  <2> QED BY <1>3, <2>1 DEF CreateMenuPopup, Configured, Fails
<1>5. /\ UNCHANGED <<pm_phase, pm_gen, pm_next, pm_menu, pm_job, pm_shutdown, pm_render, pm_reopened>>
      /\ pm_events \in Seq(MenuEvents) /\ pm_failed \in BOOLEAN
  BY <1>1 DEF pmstate, pmopened, MenuTyped
<1>6. \A k \in DOMAIN pm_events : pm_events[k].gen <= c.gen
  <2>1. \A k \in DOMAIN pm_events : pm_events[k].gen <= pm_armed /\ pm_events[k].gen \in Nat
    <3>1. \A k \in DOMAIN pm_events : pm_events[k] \in MenuEvents
      BY <1>5
    <3> QED BY <1>1, <3>1 DEF EngineInv, PopupInv, MenuEvents
  <2> QED BY <1>1, <1>2, <2>1 DEF Numbers
<1>7. ~pm_failed' => ~pm_failed
  BY <1>4
<1>8. CASE /\ pm_popup' = [NoPopup EXCEPT !.gen = c.gen, !.sent = c.place]
           /\ pm_events' = Append(pm_events, e) /\ pm_failed' = pm_failed
  <2>1. /\ pm_popup' \in Popups /\ pm_popup'.gen = c.gen /\ pm_popup'.sent = c.place
        /\ pm_popup'.held = <<>> /\ pm_popup'.pixels = <<>>
    <3>1. pm_popup' = [gen |-> c.gen, mapped |-> FALSE, sent |-> c.place, held |-> <<>>,
                       pixels |-> <<>>]
      BY <1>8 DEF NoPopup
    <3>2. <<>> \in Places /\ <<>> \in Pictures /\ c.gen \in Nat
      BY <1>2 DEF Places, Pictures
    <3>3. pm_popup' \in Popups
      BY <1>2, <3>1, <3>2 DEF Popups
    <3> QED BY <3>1, <3>3
  <2>2. /\ pm_events' \in Seq(MenuEvents)
        /\ Ready(pm_gen) => Ready(pm_gen)'
        /\ c.gen = pm_gen => Ready(pm_gen)'
        /\ \A k \in DOMAIN pm_events' :
             pm_events'[k] = e \/ \E j \in DOMAIN pm_events : pm_events'[k] = pm_events[j]
    BY <1>3, <1>5, <1>8, MoreEvents DEF Is
  <2>3. \A k \in DOMAIN pm_events' : pm_events'[k].gen <= c.gen
    BY <1>2, <1>3, <1>6, <2>2
  <2>4. ASSUME pm_phase # "idle", ~pm_failed' PROVE AllDue(Stream)'
    BY <1>1, <1>2, <1>4, <1>5, <1>7, <2>1, <2>2, <2>4, CreateApplied DEF StreamInv
  <2> QED BY <1>2, <1>4, <1>5, <1>8, <2>1, <2>2, <2>3, <2>4, Created
<1>9. CASE /\ pm_popup' = NoPopup /\ pm_events' = pm_events
           /\ pm_failed' = (pm_failed \/ c.gen = pm_gen)
  <2>1. pm_events' \in Seq(MenuEvents) /\ \A k \in DOMAIN pm_events' : pm_events'[k].gen <= c.gen
    BY <1>5, <1>6, <1>9
  <2>2. pm_failed' \in BOOLEAN /\ (c.gen # pm_gen => pm_failed' = pm_failed)
    BY <1>5, <1>9
  <2>3. ASSUME pm_phase # "idle", ~pm_failed' PROVE AllDue(Stream)'
    <3>1. c.gen # pm_gen
      BY <1>9, <2>3
    <3>2. Ready(pm_gen) => Ready(pm_gen)'
      BY <1>5, <1>9 DEF Ready, Is
    <3>3. pm_gen # Nobody /\ pm_popup.gen # pm_gen /\ pm_popup'.gen # pm_gen
      BY <1>1, <1>2, <1>9, <2>3 DEF StreamInv, Lives, NoPopup
    <3>4. AllDue(Stream)
      BY <1>1, <1>7, <2>3 DEF StreamInv
    <3> QED BY <1>1, <1>4, <1>5, <2>3, <3>1, <3>2, <3>3, <3>4, OthersApplied
  <2> QED BY <1>2, <1>4, <1>9, <2>1, <2>2, <2>3, NoPopupIs, Created
<1> QED BY <1>4, <1>8, <1>9

(* An op that creates nothing: its effect on the popup.                     *)
Kept(c) ==
  /\ c.kind # "create" /\ pm_armed' = pm_armed /\ pm_popup' \in Popups
  /\ pm_events' \in Seq(MenuEvents)
  /\ \A k \in DOMAIN pm_events' : pm_events'[k].gen <= pm_armed
  /\ Ready(pm_gen) => Ready(pm_gen)'
  /\ pm_popup.gen # c.gen => pm_popup' = pm_popup
  /\ pm_popup.gen = c.gen => pm_popup'.gen = IF c.kind = "destroy" THEN Nobody ELSE c.gen
  /\ pm_popup'.gen = Nobody => pm_popup' = NoPopup
  /\ pm_popup'.mapped => pm_popup'.held = <<>>
  /\ ~pm_popup'.mapped => pm_popup'.pixels = <<>>
  /\ pm_failed' \in BOOLEAN
  /\ pm_failed => pm_failed'
  /\ c.gen # pm_gen => pm_failed' = pm_failed
  /\ pm_refused' \in Pictures /\ pm_refused' \in {pm_refused, Picture(pm_menu)}

LEMMA KeptKeepsInv ==
  ASSUME PopupMenuInv, NEW c \in MenuOps, Shrinks(Stream, Stream', c), OneLeader',
         pm_commands' \in Seq(MenuOps), Kept(c),
         UNCHANGED <<pmstate, pm_pending, pmemitter, pm_render, pm_left, pmopened>>,
         pm_phase # "idle" /\ c.gen = pm_gen /\ ~pm_failed' => AllDue(Stream)'
  PROVE  PopupMenuInv'
<1>1. EngineInv /\ MenuTyped /\ OneLeader /\ StreamInv(Stream) /\ Numbers
  BY InvParts, TypedParts DEF EngineInv, StreamInv
<1>2. c.gen \in Nat \ {0} /\ c.gen # Nobody
  BY OpFacts
<1>3. MenuTyped' /\ MenuInv' /\ RenderInv' /\ LayoutDue' /\ NotReplaced' /\ AnswersExact'
      /\ UNCHANGED <<pm_phase, pm_gen, pm_next, pm_menu, pm_job, pm_shutdown, pm_render, pm_reopened>>
  BY <1>1, AppliedEngine DEF Kept, MenuTyped
<1>4. PopupInv'
  BY <1>1, <1>3 DEF Kept, EngineInv, PopupInv
<1>5. Ordered(Stream)' /\ Dies(Stream)'
  <2>1. pm_popup'.gen # Nobody => pm_popup'.gen = pm_popup.gen /\ ~Goes(c, pm_popup.gen)
    BY <1>2 DEF Kept, Goes, Is
  <2> QED BY <1>1, <1>3, <2>1, AppliedOrder DEF StreamInv, Kept
<1>6. Lives(Stream)'
  <2>1. pm_popup.gen = pm_gen /\ ~Is(c, "destroy", pm_gen) => pm_popup'.gen = pm_gen
    BY DEF Kept, Is
  <2> QED BY <1>1, <1>3, <2>1, AppliedLives DEF StreamInv, Kept
<1>7. ASSUME ~pm_failed' PROVE AllDue(Stream)'
  <2>1. CASE pm_phase = "idle"
    BY <1>3, <2>1 DEF AllDue, Reaches, PlaceholderInv, ConfigureDue, PaintDue, PlaceDue
  <2>2. CASE pm_phase # "idle" /\ c.gen # pm_gen
    <3>1. pm_gen # Nobody
      BY <1>1, <2>2 DEF StreamInv, Lives
    <3>2. pm_popup.gen = pm_gen => pm_popup' = pm_popup
      BY <2>2 DEF Kept
    <3>3. pm_popup.gen # pm_gen => pm_popup'.gen # pm_gen
      BY <2>2, <3>1 DEF Kept
    <3>4. AllDue(Stream)
      BY <1>1, <1>7 DEF StreamInv, Kept
    <3> QED BY <1>1, <1>3, <2>2, <3>2, <3>3, <3>4, OthersApplied DEF Kept
  <2> QED BY <1>7, <2>1, <2>2
<1> QED BY <1>3, <1>4, <1>5, <1>6, <1>7 DEF PopupMenuInv, StreamInv
-----------------------------------------------------------------------------
LEMMA RepositionKeepsInv ==
  ASSUME PopupMenuInv, NEW c \in MenuOps, Shrinks(Stream, Stream', c), OneLeader',
         pm_commands' \in Seq(MenuOps), RepositionMenuPopup(c),
         UNCHANGED <<pmstate, pm_pending, pmemitter, pm_render, pm_left, pmopened>>
  PROVE  PopupMenuInv'
<1>1. EngineInv /\ MenuTyped /\ StreamInv(Stream) /\ Numbers /\ PopupInv
      /\ pm_events \in Seq(MenuEvents) /\ pm_popup \in Popups
      /\ pm_popup.sent \in Places /\ pm_popup.held \in Places
      /\ pm_failed \in BOOLEAN /\ pm_refused \in Pictures
  BY InvParts, TypedParts DEF EngineInv, StreamInv, MenuTyped
<1>2. /\ UNCHANGED <<pm_phase, pm_gen, pm_next, pm_menu, pm_job, pm_render, pm_reopened>>
      /\ c.kind = "reposition" /\ pm_armed' = pm_armed /\ pm_refused' = pm_refused
      /\ c.gen \in Nat \ {0} /\ c.gen # Nobody
      /\ c.place \in Places /\ <<>> \in Places
  BY OpFacts DEF pmstate, pmopened, RepositionMenuPopup, Places
<1>3. PICK e : e = [kind |-> "ready", gen |-> c.gen]
  OBVIOUS
<1>4. e \in MenuEvents /\ e.gen = c.gen /\ e.kind = "ready"
  <2>1. PICK g \in Nat \ {0} : g = c.gen
    BY <1>2
  <2>2. [kind |-> "ready", gen |-> g] \in MenuEvents
    BY DEF MenuEvents
  <2> QED BY <1>3, <2>1, <2>2
<1>5. \/ UNCHANGED <<pm_popup, pm_events, pm_failed>>
         /\ (pm_popup.gen # c.gen \/ (pm_popup.mapped /\ c.place = pm_popup.sent))
      \/ /\ pm_popup.gen = c.gen /\ ~pm_popup.mapped /\ UNCHANGED <<pm_events, pm_failed>>
         /\ pm_popup' = [pm_popup EXCEPT !.held = IF c.place = pm_popup.sent THEN <<>> ELSE c.place]
      \/ /\ pm_popup.gen = c.gen /\ pm_popup.mapped
         /\ pm_events' = Append(pm_events, e) /\ pm_failed' = pm_failed
         /\ pm_popup' = [pm_popup EXCEPT !.sent = c.place]
      \/ /\ pm_popup.gen = c.gen /\ pm_popup.mapped
         /\ pm_events' = pm_events /\ pm_failed' = (pm_failed \/ c.gen = pm_gen)
         /\ pm_popup' = [pm_popup EXCEPT !.sent = c.place]
  BY <1>3 DEF RepositionMenuPopup, GivesPlace, Configured, Fails
<1>6. CASE /\ UNCHANGED <<pm_popup, pm_events, pm_failed>>
           /\ pm_popup.gen # c.gen \/ (pm_popup.mapped /\ c.place = pm_popup.sent)
  <2>1. Ready(pm_gen) => Ready(pm_gen)'
    BY <1>2, <1>6 DEF Ready, Is
  <2>2. Kept(c)
    BY <1>1, <1>2, <1>6, <2>1 DEF Kept, PopupInv
  <2>3. ASSUME pm_phase # "idle", c.gen = pm_gen, ~pm_failed' PROVE AllDue(Stream)'
    <3>1. AllDue(Stream) /\ pm_popup.gen = pm_gen
      <4>1. ~Has(Stream, "create", pm_gen)
        BY <1>1, <1>2, <2>3, HeadFirst DEF StreamInv
      <4>2. AllDue(Stream)
        BY <1>1, <1>6, <2>3 DEF StreamInv
      <4> QED BY <2>3, <4>1, <4>2 DEF AllDue, Reaches
    <3>2. pm_popup.held = <<>> /\ pm_popup' = pm_popup /\ c.place = pm_popup.sent
      BY <1>1, <1>6, <2>3, <3>1 DEF PopupInv
    <3>3. Is(c, "reposition", pm_gen)
      BY <1>2, <2>3 DEF Is
    <3> QED BY <1>1, <1>2, <2>1, <2>3, <3>1, <3>2, <3>3, OwnReposition DEF StreamInv
  <2> QED BY <2>2, <2>3, KeptKeepsInv
<1>7. CASE /\ pm_popup.gen = c.gen /\ ~pm_popup.mapped /\ UNCHANGED <<pm_events, pm_failed>>
           /\ pm_popup' = [pm_popup EXCEPT !.held = IF c.place = pm_popup.sent THEN <<>> ELSE c.place]
  <2>1. Ready(pm_gen) => Ready(pm_gen)'
    BY <1>2, <1>7 DEF Ready, Is
  <2>2. /\ pm_popup' \in Popups /\ pm_popup'.gen = c.gen /\ ~pm_popup'.mapped
        /\ pm_popup'.pixels = pm_popup.pixels /\ pm_popup'.sent = pm_popup.sent
        /\ pm_popup'.held = IF c.place = pm_popup.sent THEN <<>> ELSE c.place
    BY <1>1, <1>2, <1>7 DEF Popups
  <2>3. Kept(c)
    BY <1>1, <1>2, <1>7, <2>1, <2>2 DEF Kept, PopupInv
  <2>4. ASSUME pm_phase # "idle", c.gen = pm_gen, ~pm_failed' PROVE AllDue(Stream)'
    <3>1. Is(c, "reposition", pm_gen) /\ AllDue(Stream)
      BY <1>1, <1>2, <1>7, <2>4 DEF Is, StreamInv
    <3> QED BY <1>1, <1>2, <1>7, <2>1, <2>2, <2>4, <3>1, OwnReposition DEF StreamInv
  <2> QED BY <2>3, <2>4, KeptKeepsInv
<1>8. CASE /\ pm_popup.gen = c.gen /\ pm_popup.mapped
           /\ pm_events' = Append(pm_events, e) /\ pm_failed' = pm_failed
           /\ pm_popup' = [pm_popup EXCEPT !.sent = c.place]
  <2>1. /\ pm_events' \in Seq(MenuEvents)
        /\ Ready(pm_gen) => Ready(pm_gen)'
        /\ Is(e, "ready", pm_gen) => Ready(pm_gen)'
        /\ \A k \in DOMAIN pm_events' :
             pm_events'[k] = e \/ \E j \in DOMAIN pm_events : pm_events'[k] = pm_events[j]
    BY <1>1, <1>2, <1>4, <1>8, MoreEvents
  <2>2. /\ pm_popup' \in Popups /\ pm_popup'.gen = c.gen /\ pm_popup'.mapped
        /\ pm_popup'.pixels = pm_popup.pixels /\ pm_popup'.sent = c.place
        /\ pm_popup'.held = pm_popup.held /\ pm_popup.held = <<>>
    BY <1>1, <1>2, <1>8 DEF Popups, PopupInv
  <2>3. \A k \in DOMAIN pm_events' : pm_events'[k].gen <= pm_armed
    <3>1. c.gen <= pm_armed
      BY <1>1, <1>2, <1>8 DEF Numbers
    <3> QED BY <1>1, <1>4, <2>1, <3>1 DEF PopupInv
  <2>4. Kept(c)
    BY <1>1, <1>2, <1>8, <2>1, <2>2, <2>3 DEF Kept, PopupInv
  <2>5. ASSUME pm_phase # "idle", c.gen = pm_gen, ~pm_failed' PROVE AllDue(Stream)'
    <3>1. Is(c, "reposition", pm_gen) /\ Ready(pm_gen)' /\ AllDue(Stream)
      BY <1>1, <1>2, <1>4, <1>8, <2>1, <2>5 DEF Is, StreamInv
    <3> QED BY <1>1, <1>2, <1>8, <2>1, <2>2, <2>5, <3>1, OwnReposition DEF StreamInv
  <2> QED BY <2>4, <2>5, KeptKeepsInv
<1>9. CASE /\ pm_popup.gen = c.gen /\ pm_popup.mapped
           /\ pm_events' = pm_events /\ pm_failed' = (pm_failed \/ c.gen = pm_gen)
           /\ pm_popup' = [pm_popup EXCEPT !.sent = c.place]
  <2>1. Ready(pm_gen) => Ready(pm_gen)'
    BY <1>2, <1>9 DEF Ready, Is
  <2>2. /\ pm_popup' \in Popups /\ pm_popup'.gen = c.gen /\ pm_popup'.mapped
        /\ pm_popup'.held = pm_popup.held /\ pm_popup.held = <<>>
    BY <1>1, <1>2, <1>9 DEF Popups, PopupInv
  <2>3. pm_failed' \in BOOLEAN /\ (pm_failed => pm_failed') /\ (c.gen # pm_gen => pm_failed' = pm_failed)
    BY <1>1, <1>9
  <2>4. Kept(c)
    BY <1>1, <1>2, <1>9, <2>1, <2>2, <2>3 DEF Kept, PopupInv
  <2>5. ASSUME c.gen = pm_gen, ~pm_failed' PROVE FALSE
    BY <1>9, <2>5
  <2> QED BY <2>4, <2>5, KeptKeepsInv
<1> QED BY <1>5, <1>6, <1>7, <1>8, <1>9

LEMMA PaintKeepsInv ==
  ASSUME PopupMenuInv, NEW c \in MenuOps, Shrinks(Stream, Stream', c), OneLeader',
         pm_commands' \in Seq(MenuOps), PaintMenuPopup(c),
         UNCHANGED <<pmstate, pm_pending, pmemitter, pm_render, pm_left, pmopened>>
  PROVE  PopupMenuInv'
<1>1. EngineInv /\ MenuTyped /\ StreamInv(Stream) /\ Numbers /\ PopupInv
      /\ pm_events \in Seq(MenuEvents) /\ pm_popup \in Popups
      /\ pm_popup.sent \in Places /\ pm_popup.held \in Places
      /\ pm_failed \in BOOLEAN /\ pm_refused \in Pictures
  BY InvParts, TypedParts DEF EngineInv, StreamInv, MenuTyped
<1>2. /\ UNCHANGED <<pm_phase, pm_gen, pm_next, pm_menu, pm_job, pm_render, pm_reopened>>
      /\ c.kind = "paint" /\ pm_armed' = pm_armed /\ c.gen \in Nat \ {0} /\ c.gen # Nobody
      /\ c.pixels \in Pictures /\ <<>> \in Places
  BY OpFacts DEF pmstate, pmopened, PaintMenuPopup, Places
<1>3. PICK e : e = [kind |-> "ready", gen |-> c.gen]
  OBVIOUS
<1>4. e \in MenuEvents /\ e.gen = c.gen /\ e.kind = "ready"
  <2>1. PICK g \in Nat \ {0} : g = c.gen
    BY <1>2
  <2>2. [kind |-> "ready", gen |-> g] \in MenuEvents
    BY DEF MenuEvents
  <2> QED BY <1>3, <2>1, <2>2
<1>5. CASE pm_popup.gen # c.gen
  <2>1. UNCHANGED <<pm_popup, pm_events, pm_failed, pm_refused>>
    BY <1>5 DEF PaintMenuPopup, pmfaults
  <2>2. Ready(pm_gen) => Ready(pm_gen)'
    BY <1>2, <2>1 DEF Ready, Is
  <2>3. Kept(c)
    BY <1>1, <1>2, <1>5, <2>1, <2>2 DEF Kept, PopupInv
  <2>4. ASSUME pm_phase # "idle", c.gen = pm_gen, ~pm_failed' PROVE FALSE
    <3>1. ~Has(Stream, "create", pm_gen)
      BY <1>1, <1>2, <2>4, HeadFirst DEF StreamInv
    <3>2. Reaches(Stream)
      BY <1>1, <2>1, <2>4 DEF StreamInv, AllDue
    <3> QED BY <1>5, <2>4, <3>1, <3>2 DEF Reaches
  <2> QED BY <2>3, <2>4, KeptKeepsInv
<1>6. CASE pm_popup.gen = c.gen /\ Attach(c)
  <2>1. PICK maps \in BOOLEAN : maps = (~pm_popup.mapped /\ pm_popup.held # <<>>)
    OBVIOUS
  <2>2. /\ pm_popup' = [pm_popup EXCEPT !.mapped = TRUE, !.pixels = c.pixels,
                          !.sent = IF maps THEN pm_popup.held ELSE @,
                          !.held = IF pm_popup.mapped THEN @ ELSE <<>>]
        /\ pm_refused' = pm_refused /\ (~maps => pm_failed' = pm_failed)
        /\ \/ pm_events' = pm_events /\ (maps => pm_failed' = (pm_failed \/ c.gen = pm_gen))
           \/ pm_events' = Append(pm_events, e) /\ pm_failed' = pm_failed /\ maps
    BY <1>3, <1>6, <2>1 DEF Attach, GivesPlace, Configured, Fails
  <2>3. pm_popup.mapped => pm_popup.held = <<>>
    BY <1>1 DEF PopupInv
  <2>4. /\ pm_popup' \in Popups /\ pm_popup'.gen = c.gen /\ pm_popup'.mapped
        /\ pm_popup'.pixels = c.pixels /\ pm_popup'.held = <<>>
        /\ pm_popup'.sent = IF maps THEN pm_popup.held ELSE pm_popup.sent
    <3>1. pm_popup.held # <<>> \/ ~maps
      BY <2>1
    <3> QED BY <1>1, <1>2, <1>6, <2>2, <2>3 DEF Popups
  <2>5. /\ pm_events' \in Seq(MenuEvents)
        /\ Ready(pm_gen) => Ready(pm_gen)'
        /\ maps /\ c.gen = pm_gen /\ ~pm_failed' => Ready(pm_gen)'
        /\ \A k \in DOMAIN pm_events' : pm_events'[k].gen <= pm_armed
    <3>1. \A k \in DOMAIN pm_events : pm_events[k].gen <= pm_armed
      BY <1>1 DEF PopupInv
    <3>2. CASE pm_events' = Append(pm_events, e)
      <4>1. /\ pm_events' \in Seq(MenuEvents)
            /\ Ready(pm_gen) => Ready(pm_gen)'
            /\ Is(e, "ready", pm_gen) => Ready(pm_gen)'
            /\ \A k \in DOMAIN pm_events' :
                 pm_events'[k] = e \/ \E j \in DOMAIN pm_events : pm_events'[k] = pm_events[j]
        BY <1>1, <1>2, <1>4, <3>2, MoreEvents
      <4>2. e.gen <= pm_armed
        BY <1>1, <1>2, <1>4, <1>6 DEF Numbers
      <4> QED BY <1>4, <3>1, <4>1, <4>2 DEF Is
    <3>3. CASE pm_events' = pm_events /\ (maps => pm_failed' = (pm_failed \/ c.gen = pm_gen))
      <4>1. Ready(pm_gen) => Ready(pm_gen)'
        BY <1>2, <3>3 DEF Ready, Is
      <4> QED BY <1>1, <1>2, <3>1, <3>3, <4>1
    <3> QED BY <2>2, <3>2, <3>3
  <2>6. pm_failed' \in BOOLEAN /\ (pm_failed => pm_failed') /\ (c.gen # pm_gen => pm_failed' = pm_failed)
    BY <1>1, <2>2
  <2>7. Kept(c)
    BY <1>1, <1>2, <1>6, <2>2, <2>4, <2>5, <2>6 DEF Kept, PopupInv
  <2>8. ASSUME pm_phase # "idle", c.gen = pm_gen, ~pm_failed' PROVE AllDue(Stream)'
    <3>1. Is(c, "paint", pm_gen) /\ AllDue(Stream)
      BY <1>1, <1>2, <2>6, <2>8 DEF Is, StreamInv
    <3>2. \/ pm_popup.held = <<>> /\ pm_popup'.sent = pm_popup.sent
          \/ pm_popup.held # <<>> /\ pm_popup'.sent = pm_popup.held /\ Ready(pm_gen)'
      BY <2>1, <2>3, <2>4, <2>5, <2>8
    <3> QED BY <1>1, <1>2, <1>6, <2>2, <2>4, <2>5, <2>8, <3>1, <3>2, OwnPaint DEF StreamInv
  <2> QED BY <2>7, <2>8, KeptKeepsInv
<1>7. CASE pm_popup.gen = c.gen /\ NoBuffer(c)
  <2>1. /\ pm_popup' = pm_popup /\ pm_events' = pm_events
        /\ pm_refused' = IF c.pixels = Picture(pm_menu) THEN c.pixels ELSE pm_refused
        /\ pm_failed' = (pm_failed \/ (c.gen = pm_gen /\ c.pixels = Invisible /\ ~pm_popup.mapped))
    BY <1>1, <1>7 DEF NoBuffer, Loses, Fails
  <2>2. Ready(pm_gen) => Ready(pm_gen)'
    BY <1>2, <2>1 DEF Ready, Is
  <2>3. pm_failed' \in BOOLEAN /\ (pm_failed => pm_failed') /\ (c.gen # pm_gen => pm_failed' = pm_failed)
    BY <1>1, <2>1
  <2>4. pm_refused' \in Pictures /\ pm_refused' \in {pm_refused, Picture(pm_menu)}
    BY <1>1, <1>2, <2>1
  <2>5. Kept(c)
    BY <1>1, <1>2, <1>7, <2>1, <2>2, <2>3, <2>4 DEF Kept, PopupInv
  <2>6. ASSUME pm_phase # "idle", c.gen = pm_gen, ~pm_failed' PROVE AllDue(Stream)'
    <3>1. Is(c, "paint", pm_gen) /\ AllDue(Stream)
      BY <1>1, <1>2, <2>3, <2>6 DEF Is, StreamInv
    <3>2. Maps(c) => pm_popup.mapped
      BY <2>1, <2>6 DEF Maps
    <3> QED BY <1>1, <1>2, <1>7, <2>1, <2>2, <2>6, <3>1, <3>2, OwnLost DEF StreamInv
  <2> QED BY <2>5, <2>6, KeptKeepsInv
<1> QED BY <1>5, <1>6, <1>7 DEF PaintMenuPopup

LEMMA DestroyKeepsInv ==
  ASSUME PopupMenuInv, NEW c \in MenuOps, Shrinks(Stream, Stream', c), OneLeader',
         pm_commands' \in Seq(MenuOps), DestroyMenuPopup(c),
         UNCHANGED <<pmstate, pm_pending, pmemitter, pm_render, pm_left, pmopened>>
  PROVE  PopupMenuInv'
<1>1. EngineInv /\ MenuTyped /\ StreamInv(Stream) /\ Numbers /\ PopupInv
      /\ pm_events \in Seq(MenuEvents) /\ pm_popup \in Popups
      /\ pm_failed \in BOOLEAN /\ pm_refused \in Pictures
  BY InvParts, TypedParts DEF EngineInv, MenuTyped
<1>2. /\ UNCHANGED <<pm_phase, pm_gen, pm_next, pm_menu, pm_job, pm_render, pm_reopened>>
      /\ c.kind = "destroy" /\ pm_armed' = pm_armed /\ pm_events' = pm_events
      /\ pm_failed' = pm_failed /\ pm_refused' = pm_refused
  BY DEF pmstate, pmopened, pmfaults, DestroyMenuPopup
<1>3. Ready(pm_gen) => Ready(pm_gen)'
  BY <1>2 DEF Ready, Is
<1>4. NoPopup \in Popups /\ NoPopup.gen = Nobody /\ ~NoPopup.mapped /\ NoPopup.pixels = <<>>
  BY NoPopupIs
<1>5. pm_popup' \in Popups /\ pm_popup' \in {pm_popup, NoPopup}
  BY <1>1, <1>4 DEF DestroyMenuPopup
<1>6. Kept(c)
  <2>1. CASE pm_popup.gen = c.gen
    <3>1. pm_popup' = NoPopup
      BY <2>1 DEF DestroyMenuPopup
    <3> QED BY <1>1, <1>2, <1>3, <1>4, <2>1, <3>1 DEF Kept, PopupInv
  <2>2. CASE pm_popup.gen # c.gen
    <3>1. pm_popup' = pm_popup
      BY <2>2 DEF DestroyMenuPopup
    <3> QED BY <1>1, <1>2, <1>3, <2>2, <3>1 DEF Kept, PopupInv
  <2> QED BY <2>1, <2>2
<1>7. ASSUME pm_phase # "idle", c.gen = pm_gen PROVE FALSE
  <2>1. PICK k \in DOMAIN Stream : Stream[k] = c
    BY <1>1, HeadFirst DEF StreamInv
  <2> QED BY <1>1, <1>2, <1>7, <2>1 DEF StreamInv, Lives, Has, Is
<1> QED BY <1>6, <1>7, KeptKeepsInv

LEMMA ApplyKeepsInv ==
  ASSUME PopupMenuInv, ApplyCommand
  PROVE  PopupMenuInv'
<1>1. MenuTyped /\ OneLeader
  BY DEF PopupMenuInv
<1>2. UNCHANGED <<pm_pc, pm_op, pm_pending, pm_draining>> /\ pm_commands # <<>>
      /\ pm_commands' = Tail(pm_commands)
  BY DEF ApplyCommand, pmemitter
<1>3. /\ OneLeader' /\ pm_commands' \in Seq(MenuOps)
      /\ Stream # <<>> /\ Head(Stream) = Head(pm_commands) /\ Stream' = Tail(Stream)
  BY <1>1, <1>2, ApplyStream
<1>4. PICK c : c = Head(pm_commands)
  OBVIOUS
<1>5. c \in MenuOps /\ Shrinks(Stream, Stream', c)
  <2>1. Stream \in Seq(MenuOps)
    BY <1>1, StreamIs
  <2>2. Shrinks(Stream, Tail(Stream), Head(Stream)) /\ Head(Stream) \in MenuOps
    BY <1>3, <2>1, ShrinksByOne
  <2> QED BY <1>3, <1>4, <2>2
<1>6. CreateMenuPopup(c) \/ RepositionMenuPopup(c) \/ PaintMenuPopup(c) \/ DestroyMenuPopup(c)
  BY <1>4 DEF ApplyCommand
<1>7. UNCHANGED <<pmstate, pm_pending, pmemitter, pm_render, pm_left, pmopened>>
  BY DEF ApplyCommand
<1> QED BY <1>3, <1>5, <1>6, <1>7, CreateKeepsInv, RepositionKeepsInv, PaintKeepsInv, DestroyKeepsInv
-----------------------------------------------------------------------------
(* The root thread has taken an event.                                      *)
Noticed(e) ==
  /\ pm_pc["root"] = "idle" /\ "root" \in Threads /\ e \in MenuEvents
  /\ pm_events' \in Seq(MenuEvents) /\ e.gen <= pm_armed
  /\ \A k \in DOMAIN pm_events' : pm_events'[k].gen <= pm_armed
  /\ pm_gen' = pm_gen => (Ready(pm_gen) => Ready(pm_gen)' \/ Is(e, "ready", pm_gen))
  /\ UNCHANGED <<pm_next, pm_shutdown, pm_commands, pm_popup, pm_armed, pm_render,
                 pm_left, pm_opened, pm_reopened>>

LEMMA IsNoticed == PopupMenuInv /\ PopupEvent => \E e : e = Head(pm_events) /\ Noticed(e)
<1> SUFFICES ASSUME PopupMenuInv, PopupEvent PROVE \E e : e = Head(pm_events) /\ Noticed(e)
  OBVIOUS
<1>1. PICK e : e = Head(pm_events)
  OBVIOUS
<1>2. /\ pm_events \in Seq(MenuEvents) /\ pm_events # <<>> /\ pm_events' = Tail(pm_events)
      /\ \A k \in DOMAIN pm_events : pm_events[k].gen <= pm_armed
  BY DEF PopupEvent, PopupMenuInv, MenuTyped, PopupInv
<1>3. /\ pm_events' \in Seq(MenuEvents) /\ e \in MenuEvents
      /\ \E k \in DOMAIN pm_events : pm_events[k] = e
      /\ \A k \in DOMAIN pm_events' : \E j \in DOMAIN pm_events : pm_events'[k] = pm_events[j]
  <2>1. PICK l \in Nat : l + 1 = Len(pm_events)
    <3>1. Len(pm_events) \in Nat \ {0}
      BY <1>2, EmptySeq, LenProperties
    <3>2. Len(pm_events) - 1 \in Nat /\ (Len(pm_events) - 1) + 1 = Len(pm_events)
      BY <3>1
    <3> QED BY <3>2
  <2>2. /\ pm_events' \in Seq(MenuEvents) /\ e = pm_events[1] /\ e \in MenuEvents
        /\ DOMAIN pm_events = 1 .. l + 1 /\ DOMAIN pm_events' = 1 .. l
        /\ \A k \in 1 .. l : pm_events'[k] = pm_events[k + 1]
    BY <1>1, <1>2, <2>1
  <2>3. (\A k \in 1 .. l : k + 1 \in 1 .. l + 1) /\ 1 \in 1 .. l + 1
    OBVIOUS
  <2> QED BY <2>2, <2>3
<1>4. pm_gen' = pm_gen => (Ready(pm_gen) => Ready(pm_gen)' \/ Is(e, "ready", pm_gen))
  BY <1>1, <1>2, LessEvents
<1>5. /\ pm_pc["root"] = "idle" /\ "root" \in Threads
      /\ UNCHANGED <<pm_next, pm_shutdown, pm_commands, pm_popup, pm_armed, pm_render,
                     pm_left, pm_opened, pm_reopened>>
  BY DEF PopupEvent, Threads, pmopened
<1> QED BY <1>1, <1>2, <1>3, <1>4, <1>5 DEF Noticed

(* Nothing of the engine changes, though the event is gone.                 *)
LEMMA NoticedKeeps ==
  ASSUME PopupMenuInv, NEW e, Noticed(e),
         UNCHANGED <<pm_phase, pm_gen, pm_menu, pm_job, pm_failed, pm_refused>>,
         Stream' = Stream, pm_pending' \in Seq(MenuOps),
         Is(e, "ready", pm_gen) =>
           pm_popup.gen # pm_gen \/ pm_phase \notin {"await_placeholder", "await_menu"}
  PROVE  EngineInv' /\ StreamInv(Stream)'
<1>1. EngineInv /\ MenuTyped /\ StreamInv(Stream) /\ Numbers
  BY InvParts, TypedParts DEF EngineInv
<1>2. MenuTyped' /\ PopupInv' /\ MenuInv' /\ RenderInv' /\ LayoutDue' /\ NotReplaced'
  <2>1. MenuTyped'
    BY <1>1 DEF MenuTyped, Noticed
  <2>2. PopupInv' /\ MenuInv' /\ RenderInv' /\ LayoutDue' /\ NotReplaced'
    BY <1>1 DEF EngineInv, PopupInv, MenuInv, RenderInv, LayoutDue, NotReplaced, Rendering, Noticed
  <2> QED BY <2>1, <2>2
<1>3. AllDue(Stream) => PaintDue(Stream)' /\ PlaceDue(Stream)'
  BY DEF AllDue, PaintDue, PlaceDue, Rendering, Last, Has, Is, Picture, Placement, Noticed
<1>4. StreamInv(Stream)'
  <2>1. CASE Ready(pm_gen) => Ready(pm_gen)' \/ Has(Stream, "create", pm_gen)
    BY <1>1, <1>3, <2>1, KeptStream DEF Noticed
  <2>2. CASE Is(e, "ready", pm_gen) /\ ~Has(Stream, "create", pm_gen)
    <3>1. Ordered(Stream)' /\ Lives(Stream)' /\ Dies(Stream)'
      BY <1>1 DEF StreamInv, Ordered, Lives, Dies, Has, Is, Goes, Noticed
    <3>2. ASSUME AllDue(Stream) PROVE AllDue(Stream)'
      <4>1. pm_phase \notin {"await_placeholder", "await_menu"}
        BY <2>2, <3>2 DEF AllDue, Reaches
      <4>2. PlaceholderInv(Stream)'
        BY <3>2, <4>1 DEF AllDue, PlaceholderInv, Has, Is, Noticed
      <4>3. ConfigureDue(Stream)'
        BY <4>1 DEF ConfigureDue
      <4>4. Reaches(Stream)'
        BY <3>2 DEF AllDue, Reaches, Has, Is, Noticed
      <4> QED BY <1>3, <3>2, <4>2, <4>3, <4>4 DEF AllDue
    <3> QED BY <1>1, <3>1, <3>2 DEF StreamInv
  <2> QED BY <2>1, <2>2 DEF Noticed
<1> QED BY <1>2, <1>4 DEF EngineInv

(* The engine's popup has its configure.                                    *)
LEMMA OnReadyKeepsInv ==
  ASSUME PopupMenuInv, NEW e, Noticed(e), pm_popup.gen = e.gen, pm_gen = e.gen, OnReady
  PROVE  PopupMenuInv'
<1>1. EngineInv /\ MenuTyped /\ OneLeader /\ StreamInv(Stream) /\ Numbers /\ AnswersExact /\ AnswersFrame
      /\ pm_menu.id \in Nat /\ pm_menu.laid \in Nat
  BY InvParts, TypedParts, FrameIs DEF EngineInv
<1>2. /\ pm_gen' = pm_gen /\ pm_menu' = pm_menu /\ pm_gen \in Nat \ {0} /\ pm_gen # Nobody
      /\ pm_failed' = pm_failed /\ pm_refused' = pm_refused
  BY DEF OnReady, Noticed, MenuEvents, Nobody, pmfaults
<1>3. Rendering' = Rendering
  BY <1>2 DEF Rendering, Noticed
<1>4. CASE pm_phase = "await_placeholder" /\ pm_menu.laid # Nobody
  <2>1. pm_phase' = "await_menu" /\ pm_job' = pm_job
        /\ Update("root", BeginMenu(pm_menu), Nobody)
    BY <1>4 DEF OnReady
  <2>2. Present(pm_gen, Invisible) \in MenuOps /\ Reposition(pm_gen, Placement(pm_menu)) \in MenuOps
    <3>1. Invisible \in Pictures /\ Placement(pm_menu) \in Places
      BY <1>1 DEF Invisible, Pictures, Placement, Places
    <3> QED BY <1>2, <3>1, MadeOps
  <2>3. Handed("root", Nobody) /\ pm_answers' = pm_answers
        /\ GrowsTwice(Stream, Stream', Present(pm_gen, Invisible), Reposition(pm_gen, Placement(pm_menu)))
    <3>1. UNCHANGED pm_commands /\ "root" \in Threads /\ pm_pc["root"] = "idle"
      BY DEF Noticed
    <3> QED BY <1>1, <2>1, <2>2, <3>1, UpdateTwo DEF BeginMenu
  <2>4. pm_menu # NoMenu /\ pm_menu.id # Nobody
    BY <1>1, <1>4, NoMenuIs DEF EngineInv, MenuInv
  <2>5. StreamInv(Stream)'
    BY <1>1, <1>2, <1>4, <2>1, <2>3, <2>4, BeginsStream DEF Noticed
  <2>6. EngineInv'
    <3>1. MenuTyped'
      BY <1>1, <1>2, <2>1, <2>3 DEF MenuTyped, MenuPhases, Noticed, Handed
    <3>2. PopupInv' /\ MenuInv' /\ RenderInv' /\ LayoutDue'
      BY <1>1, <1>2, <1>3, <1>4, <2>1, <2>4 DEF EngineInv, PopupInv, MenuInv, RenderInv, LayoutDue, Noticed
    <3>3. NotReplaced'
      BY <1>1, <1>2, <1>3, <1>4, <2>1 DEF EngineInv, NotReplaced, Noticed
    <3> QED BY <3>1, <3>2, <3>3 DEF EngineInv
  <2>7. AnswersExact'
    BY <1>1, <1>2, <2>3, NoAnswer DEF Noticed, Handed
  <2> QED BY <2>3, <2>5, <2>6, <2>7 DEF PopupMenuInv, EngineInv, Handed
<1>5. CASE ~(pm_phase = "await_placeholder" /\ pm_menu.laid # Nobody)
  <2>1. /\ Update("root", <<>>, Nobody)
        /\ pm_job' = IF pm_phase = "await_menu" THEN MoreUrgent("paint") ELSE pm_job
    BY <1>5 DEF OnReady
  <2>2. Handed("root", Nobody) /\ Stream' = Stream /\ pm_answers' = pm_answers
    <3>1. UNCHANGED pm_commands /\ "root" \in Threads /\ pm_pc["root"] = "idle"
      BY DEF Noticed
    <3> QED BY <1>1, <2>1, <3>1, UpdateNone
  <2>3. AnswersExact'
    BY <1>1, <1>2, <2>2, NoAnswer DEF Noticed, Handed
  <2>4. EngineInv' /\ StreamInv(Stream)'
    <3>1. CASE pm_phase = "await_placeholder" /\ pm_menu.laid = Nobody
      <4>1. pm_phase' = "placeholder" /\ pm_job' = pm_job
        BY <2>1, <3>1 DEF OnReady
      <4>2. MenuTyped'
        BY <1>1, <1>2, <2>2, <4>1 DEF MenuTyped, MenuPhases, Noticed, Handed
      <4>3. PopupInv' /\ MenuInv' /\ RenderInv' /\ LayoutDue' /\ NotReplaced'
        BY <1>1, <1>2, <1>3, <3>1, <4>1
           DEF EngineInv, PopupInv, MenuInv, RenderInv, LayoutDue, NotReplaced, Noticed
      <4>4. Ordered(Stream)' /\ Lives(Stream)' /\ Dies(Stream)'
        BY <1>1, <1>2, <2>2, <3>1, <4>1 DEF StreamInv, Ordered, Lives, Dies, Has, Is, Noticed
      <4>5. ASSUME AllDue(Stream) PROVE AllDue(Stream)'
        <5>1. PlaceholderInv(Stream)' /\ Reaches(Stream)'
          BY <1>2, <2>2, <3>1, <4>1, <4>5 DEF AllDue, Reaches, PlaceholderInv, Has, Is, Noticed
        <5>2. ConfigureDue(Stream)' /\ PaintDue(Stream)' /\ PlaceDue(Stream)'
          BY <4>1 DEF ConfigureDue, PaintDue, PlaceDue
        <5> QED BY <5>1, <5>2 DEF AllDue
      <4> QED BY <1>1, <1>2, <4>2, <4>3, <4>4, <4>5 DEF EngineInv, StreamInv
    <3>2. CASE pm_phase = "await_menu"
      <4>1. pm_phase' = "shown" /\ pm_job' \in {"shape", "paint"} /\ pm_job' # "none"
            /\ (pm_job = "shape" => pm_job' = "shape")
        BY <2>1, <3>2 DEF OnReady, MoreUrgent
      <4>2. MenuTyped'
        BY <1>1, <1>2, <2>2, <4>1 DEF MenuTyped, MenuPhases, Noticed, Handed
      <4>3. PopupInv' /\ MenuInv' /\ RenderInv' /\ LayoutDue' /\ NotReplaced'
        BY <1>1, <1>2, <1>3, <3>2, <4>1
           DEF EngineInv, PopupInv, MenuInv, RenderInv, LayoutDue, NotReplaced, Noticed
      <4>4. Ordered(Stream)' /\ Lives(Stream)' /\ Dies(Stream)'
        BY <1>1, <1>2, <2>2, <3>2, <4>1 DEF StreamInv, Ordered, Lives, Dies, Has, Is, Noticed
      <4>5. ASSUME AllDue(Stream) PROVE AllDue(Stream)'
        <5>1. PlaceDue(Stream)' /\ Reaches(Stream)'
          BY <1>2, <2>2, <3>2, <4>1, <4>5
             DEF AllDue, Reaches, PlaceDue, Last, Has, Is, Placement, Noticed
        <5>2. PlaceholderInv(Stream)' /\ ConfigureDue(Stream)' /\ PaintDue(Stream)'
          BY <4>1 DEF PlaceholderInv, ConfigureDue, PaintDue
        <5> QED BY <5>1, <5>2 DEF AllDue
      <4> QED BY <1>1, <1>2, <4>2, <4>3, <4>4, <4>5 DEF EngineInv, StreamInv
    <3>3. CASE pm_phase \notin {"await_placeholder", "await_menu"}
      <4>1. UNCHANGED <<pm_phase, pm_gen, pm_menu, pm_job>>
        BY <1>2, <2>1, <3>3 DEF OnReady
      <4> QED BY <1>2, <2>2, <3>3, <4>1, NoticedKeeps DEF Handed
    <3> QED BY <1>5, <3>1, <3>2, <3>3
  <2> QED BY <2>2, <2>3, <2>4 DEF PopupMenuInv, EngineInv, Handed
<1> QED BY <1>4, <1>5

LEMMA EventKeepsInv ==
  ASSUME PopupMenuInv, PopupEvent
  PROVE  PopupMenuInv'
<1>1. PICK e : e = Head(pm_events) /\ Noticed(e)
  BY IsNoticed
<1>2. MenuTyped /\ OneLeader /\ AnswersExact /\ AnswersFrame
  BY FrameIs DEF PopupMenuInv
<1>3. CASE pm_popup.gen # e.gen
  <2>1. UNCHANGED <<pm_phase, pm_gen, pm_menu, pm_job, pm_pending, pm_draining, pm_pc, pm_op,
                    pm_resolve, pm_answers, pm_failed, pm_refused>>
    BY <1>1, <1>3 DEF PopupEvent, pmemitter, pmfaults
  <2>2. Stream' = Stream /\ OneLeader' /\ pm_pending' \in Seq(MenuOps)
    BY <1>1, <1>2, <2>1 DEF Stream, InHand, OneLeader, Noticed, MenuTyped
  <2>3. EngineInv' /\ StreamInv(Stream)'
    BY <1>1, <1>3, <2>1, <2>2, NoticedKeeps DEF Is
  <2>4. AnswersExact'
    BY <1>1, <1>2, <2>1, SameAnswers DEF Noticed
  <2> QED BY <2>2, <2>3, <2>4 DEF PopupMenuInv, EngineInv
<1>4. CASE pm_popup.gen = e.gen /\ pm_gen # e.gen
  <2>1. /\ Update("root", <<>>, Nobody)
        /\ UNCHANGED <<pm_phase, pm_gen, pm_menu, pm_job, pm_failed, pm_refused>>
    BY <1>1, <1>4 DEF PopupEvent, pmfaults
  <2>2. Handed("root", Nobody) /\ Stream' = Stream /\ pm_answers' = pm_answers
    <3>1. UNCHANGED pm_commands /\ "root" \in Threads /\ pm_pc["root"] = "idle"
      BY <1>1 DEF Noticed
    <3> QED BY <1>2, <2>1, <3>1, UpdateNone
  <2>3. EngineInv' /\ StreamInv(Stream)'
    BY <1>1, <1>4, <2>1, <2>2, NoticedKeeps DEF Is, Handed
  <2>4. AnswersExact'
    BY <1>1, <1>2, <2>1, <2>2, NoAnswer DEF Noticed, Handed
  <2> QED BY <2>2, <2>3, <2>4 DEF PopupMenuInv, EngineInv, Handed
<1>5. CASE pm_popup.gen = e.gen /\ pm_gen = e.gen
  <2>1. OnReady \/ CloseCurrent("root")
    BY <1>1, <1>5 DEF PopupEvent
  <2>2. CASE OnReady
    BY <1>1, <1>5, <2>2, OnReadyKeepsInv
  <2>3. CASE CloseCurrent("root")
    <3>1. pm_shutdown' \in BOOLEAN
      BY <1>1, <1>2 DEF Noticed, MenuTyped
    <3> QED BY <1>1, <2>3, <3>1, CloseKeepsInv DEF Noticed
  <2> QED BY <2>1, <2>2, <2>3
<1> QED BY <1>3, <1>4, <1>5

LEMMA DismissedKeepsInv ==
  ASSUME PopupMenuInv, Dismissed
  PROVE  PopupMenuInv'
<1>1. EngineInv /\ MenuTyped /\ OneLeader /\ StreamInv(Stream) /\ Numbers /\ AnswersExact /\ AnswersFrame
      /\ PopupInv /\ pm_events \in Seq(MenuEvents)
  BY InvParts, TypedParts, FrameIs DEF EngineInv, MenuTyped
<1>2. /\ UNCHANGED <<pm_phase, pm_gen, pm_next, pm_menu, pm_job, pm_shutdown, pm_render, pm_popup,
                     pm_armed, pm_reopened, pm_commands, pm_pending, pm_draining, pm_pc, pm_op,
                     pm_resolve, pm_answers, pm_opened, pm_failed, pm_refused>>
      /\ pm_popup # NoPopup /\ pm_left > 0 /\ pm_left' = pm_left - 1
  BY DEF Dismissed, pmstate, pmemitter, pmopened, pmfaults
<1>3. PICK e : e = [kind |-> "done", gen |-> pm_popup.gen]
  OBVIOUS
<1>4. e \in MenuEvents /\ e.gen = pm_popup.gen /\ pm_events' = Append(pm_events, e)
  <2>1. PICK g \in Nat \ {0} : g = pm_popup.gen
    BY <1>1, <1>2 DEF PopupInv, Numbers
  <2>2. [kind |-> "done", gen |-> g] \in MenuEvents
    BY DEF MenuEvents
  <2> QED BY <1>3, <2>1, <2>2 DEF Dismissed
<1>5. /\ pm_events' \in Seq(MenuEvents)
      /\ Ready(pm_gen) => Ready(pm_gen)'
      /\ \A k \in DOMAIN pm_events' :
           pm_events'[k] = e \/ \E j \in DOMAIN pm_events : pm_events'[k] = pm_events[j]
  BY <1>1, <1>2, <1>4, MoreEvents
<1>6. Stream' = Stream /\ OneLeader'
  BY <1>1, <1>2 DEF Stream, InHand, OneLeader
<1>7. MenuTyped'
  BY <1>1, <1>2, <1>5 DEF MenuTyped
<1>8. PopupInv'
  <2>1. pm_popup.gen <= pm_armed
    BY <1>1 DEF Numbers
  <2> QED BY <1>1, <1>2, <1>4, <1>5, <2>1 DEF PopupInv
<1>9. MenuInv' /\ RenderInv' /\ LayoutDue' /\ NotReplaced'
  BY <1>1, <1>2 DEF EngineInv, MenuInv, RenderInv, LayoutDue, NotReplaced, Rendering
<1>10. StreamInv(Stream)'
  <2>1. AllDue(Stream) => PaintDue(Stream)' /\ PlaceDue(Stream)'
    BY <1>2, <1>6 DEF AllDue, PaintDue, PlaceDue, Rendering, Last, Has, Is, Picture, Placement
  <2> QED BY <1>1, <1>2, <1>5, <1>6, <2>1, KeptStream
<1>11. AnswersExact'
  <2>1. pm_left' \in Nat /\ pm_opened + pm_left' <= MaxInputs
    <3>1. \A o, a, n \in Nat : o + a <= n /\ a > 0 => a - 1 \in Nat /\ o + (a - 1) <= n
      OBVIOUS
    <3> QED BY <1>1, <1>2, <3>1 DEF AnswersExact, AnswersFrame
  <2> QED BY <1>1, <1>2, <2>1 DEF AnswersExact
<1> QED BY <1>6, <1>7, <1>8, <1>9, <1>10, <1>11 DEF PopupMenuInv

LEMMA MenuNextKeepsInv == PopupMenuInv /\ [MenuNext]_pmvars => PopupMenuInv'
<1> SUFFICES ASSUME PopupMenuInv, [MenuNext]_pmvars PROVE PopupMenuInv'
  OBVIOUS
<1>1. CASE \E t \in Threads : Flush(t) \/ PopOp(t) \/ Emit(t)
  BY <1>1, DrainKeepsInv
<1>2. CASE Arm
  BY <1>2, ArmKeepsInv
<1>3. CASE DismissIfSpeculative \/ Close \/ HideMenu \/ ShutdownMenu
  BY <1>3, ClosersKeepInv
<1>4. CASE OpenNothingSelectable
  BY <1>4, OpenNothingKeepsInv
<1>5. CASE Open
  BY <1>5, OpenKeepsInv
<1>6. CASE Redraw
  BY <1>6, RedrawKeepsInv
<1>7. CASE TakeRenderJob
  BY <1>7, TakeKeepsInv
<1>8. CASE Deliver
  BY <1>8, DeliverKeepsInv
<1>9. CASE ApplyCommand
  BY <1>9, ApplyKeepsInv
<1>10. CASE PopupEvent
  BY <1>10, EventKeepsInv
<1>11. CASE Dismissed
  BY <1>11, DismissedKeepsInv
<1>12. CASE PaintFails
  BY <1>12, PaintFailsKeepsInv
<1>13. CASE UNCHANGED pmvars
  BY <1>13, MenuStutter
<1> QED BY <1>1, <1>2, <1>3, <1>4, <1>5, <1>6, <1>7, <1>8, <1>9, <1>10, <1>11, <1>12, <1>13 DEF MenuNext

LEMMA QuietMenuShows == PopupMenuInv => MenuIsOnScreen
<1> SUFFICES ASSUME PopupMenuInv, AllQuiet
             PROVE  /\ pm_popup.gen \in {pm_gen, Nobody}
                    /\ ~pm_failed => pm_popup.gen = pm_gen
                    /\ pm_menu # NoMenu /\ ~pm_shutdown /\ ~pm_failed =>
                         /\ pm_phase = "shown"
                         /\ Picture(pm_menu) \in {pm_popup.pixels, pm_refused}
                         /\ pm_popup.mapped /\ ~pm_reopened => pm_popup.sent = Placement(pm_menu)
                    /\ \A m \in 1 .. pm_opened : pm_answers[m] = IF m = pm_menu.id THEN 0 ELSE 1
  BY DEF MenuIsOnScreen
<1>1. EngineInv /\ MenuTyped /\ OneLeader /\ StreamInv(Stream) /\ Numbers /\ AnswersExact
      /\ AnswersFrame /\ PopupInv /\ MenuInv
  BY InvParts, TypedParts, FrameIs DEF EngineInv
<1>2. DOMAIN Stream = {} /\ DOMAIN pm_events = {} /\ ~Rendering
      /\ \A t \in Threads : pm_pc[t] = "idle"
  <2>1. \A t \in Threads : pm_pc[t] = "idle"
    BY DEF AllQuiet
  <2>2. InHand = <<>>
    BY <1>1, <2>1, OneLeaderEmits, HeldByIs DEF InHand
  <2>3. Stream = <<>>
    BY <2>2 DEF Stream, AllQuiet
  <2> QED BY <2>1, <2>3 DEF AllQuiet, Rendering
<1>3. ASSUME pm_menu # NoMenu
      PROVE  pm_job = "none" /\ pm_menu.laid = pm_menu.id /\ pm_menu.id # Nobody
  BY <1>1, <1>2, <1>3 DEF EngineInv, MenuInv, LayoutDue, AllQuiet
<1>4. pm_popup.gen \in {pm_gen, Nobody} /\ (pm_phase = "idle" => pm_popup.gen = pm_gen)
  <2>1. CASE pm_phase = "idle"
    <3>1. pm_popup.gen = Nobody
      BY <1>1, <1>2, <2>1 DEF StreamInv, Dies
    <3>2. pm_gen = Nobody
      BY <1>1, <1>3, <2>1 DEF MenuInv
    <3> QED BY <3>1, <3>2
  <2>2. CASE pm_phase # "idle"
    <3>1. pm_armed = pm_gen
      BY <1>1, <1>2, <2>2 DEF StreamInv, Lives, Has
    <3> QED BY <1>1, <2>2, <3>1 DEF PopupInv
  <2> QED BY <2>1, <2>2
<1>5. ~pm_failed => pm_popup.gen = pm_gen
  BY <1>1, <1>2, <1>4 DEF StreamInv, AllDue, Reaches, Has
<1>6. ASSUME pm_menu # NoMenu, ~pm_failed
      PROVE  /\ pm_phase = "shown" /\ Picture(pm_menu) \in {pm_popup.pixels, pm_refused}
             /\ pm_popup.mapped /\ ~pm_reopened => pm_popup.sent = Placement(pm_menu)
  <2>1. AllDue(Stream)
    BY <1>1, <1>6 DEF StreamInv
  <2>2. pm_phase = "shown"
    <3>1. pm_phase \notin {"await_placeholder", "await_menu"}
      BY <1>2, <2>1 DEF AllDue, PlaceholderInv, ConfigureDue, Has, Ready
    <3> QED BY <1>1, <1>3, <1>6, <3>1 DEF MenuInv, MenuTyped, MenuPhases
  <2>3. Picture(pm_menu) \in {pm_popup.pixels, pm_refused}
    BY <1>2, <1>3, <1>6, <2>1, <2>2 DEF AllDue, PaintDue
  <2>4. pm_popup.mapped => pm_popup.held = <<>>
    BY <1>1 DEF PopupInv
  <2>5. pm_popup.mapped /\ ~pm_reopened => pm_popup.sent = Placement(pm_menu)
    BY <1>2, <1>3, <1>6, <2>1, <2>2, <2>4 DEF AllDue, PlaceDue
  <2> QED BY <2>2, <2>3, <2>5
<1>7. ASSUME NEW m \in 1 .. pm_opened
      PROVE  pm_answers[m] = IF m = pm_menu.id THEN 0 ELSE 1
  <2>1. m \in 1 .. MaxInputs /\ m <= pm_opened /\ m # Nobody
    <3>1. \A o, a, n \in Nat : \A i \in 1 .. o : o + a <= n => i \in 1 .. n /\ i <= o
      OBVIOUS
    <3> QED BY <1>1, <3>1 DEF AnswersExact, AnswersFrame
  <2>2. \A t \in Threads : pm_resolve[t] # m
    BY <1>1, <1>2, <2>1 DEF AnswersExact
  <2>3. pm_answers[m] \in {0, 1}
    BY <1>1, <2>1 DEF AnswersExact
  <2>4. m = pm_menu.id => pm_answers[m] = 0
    BY <1>1, <2>1 DEF AnswersExact
  <2>5. m # pm_menu.id => pm_answers[m] # 0
    BY <1>1, <2>1, <2>2 DEF AnswersExact
  <2> QED BY <2>3, <2>4, <2>5
<1> QED BY <1>4, <1>5, <1>6, <1>7

(* Once presses, menus, configures, dismissals and pictures have all been   *)
(* dealt with, in whatever order the input, user interface, render and root *)
(* threads took them and whatever failed on the way, the popup is that of   *)
(* the generation of the engine or there is none                            *)
(* (linux_util/src/menu/engine.rs, wayland/src/root_window.rs).  Unless the *)
(* popup of this generation could not be made, mapped or placed, it is      *)
(* there, and an open menu is shown with its own picture, if that was not   *)
(* itself lost, and where it belongs unless it was opened over one not yet  *)
(* up.  Every menu that is gone was answered once.                          *)
THEOREM MenuReachesScreen == MenuSpec => []MenuIsOnScreen
<1>1. MenuInit => PopupMenuInv
  BY MenuInitInv
<1>2. PopupMenuInv /\ [MenuNext]_pmvars => PopupMenuInv'
  BY MenuNextKeepsInv
<1>3. PopupMenuInv => MenuIsOnScreen
  BY QuietMenuShows
<1> QED BY <1>1, <1>2, <1>3, PTL DEF MenuSpec
=============================================================================
