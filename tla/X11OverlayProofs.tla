-------------------------- MODULE X11OverlayProofs -------------------------
(***************************************************************************)
(* Where the overlay windows of the X11 backend end up, for any overlays   *)
(* and any number of operations on them and of moves of the parent: once   *)
(* all is handled, each is what it is to be (OverlaysFollow).              *)
(*                                                                         *)
(* The invariant says of each part of the work who still owes it.  What    *)
(* the thread knows of the parent is so, or news of it is on its way       *)
(* (ParentKnown, MappedKnown); what it observed of an overlay is so, or    *)
(* news came since (Fresh); an overlay it has settled is in its place, or  *)
(* will be by a request the window manager still has (Settled); and an     *)
(* unmanaged one is above the parent, or left to a pass that raises it     *)
(* (RaisedAbove), a managed one always (ManagedAbove).  The commands on    *)
(* their way tell of each overlay what its window does not show yet        *)
(* (Lives).                                                                *)
(***************************************************************************)
EXTENDS X11Overlay, FiniteSetTheorems, SequenceTheorems, TLAPS

(* What the server, the queue and the two sides of it can hold. *)
WindowRecords == [made : BOOLEAN, mapped : BOOLEAN, override : BOOLEAN,
                  managed : BOOLEAN, geom : Geoms]
RequestRecords == [unmapped : BOOLEAN, map : BOOLEAN, place : Geoms \cup {NoGeom}]
ParentRecords == [geom : Geoms, fullscreen : BOOLEAN, mapped : BOOLEAN]
NewsRecords == [level : 0..3, parent : {"same", "mapped", "unmapped"}]
Stacks == SUBSET ((Overlays \cup {"parent"}) \X (Overlays \cup {"parent"}))
Servers == [win : [Overlays -> WindowRecords], stack : Stacks, parent : ParentRecords,
            wm : [Overlays -> RequestRecords], news : NewsRecords]
OverlayCommands ==
  [op : {"create", "destroy"}, id : Overlays]
    \cup [op : {"visible"}, id : Overlays, visible : BOOLEAN]
    \cup [op : {"order"}, ids : Seq(Overlays)]

ServerTyped == xo_server \in Servers /\ xo_parsed \in NewsRecords /\ xo_pending \in 0..3
CefTyped ==
  /\ xo_surface \in [Overlays -> {"unborn", "live", "freed"}]
  /\ xo_visible \in [Overlays -> BOOLEAN] /\ xo_asked \in [Overlays -> BOOLEAN]
  /\ xo_ops \in 0..MaxSurfaceOps /\ xo_moves \in 0..MaxParentMoves /\ xo_resync \in BOOLEAN
ThreadTyped ==
  /\ xo_at \in {"loop", "commands", "pass", "apply"}
  /\ xo_work \in [geom : Geoms, fullscreen : BOOLEAN, mapped : BOOLEAN, reassert : BOOLEAN]
  /\ xo_fsm \in [Overlays -> [mapped : BOOLEAN, unmanaged : BOOLEAN]]
  /\ xo_seen \in [geom : Geoms \cup {NoGeom}, mapped : BOOLEAN]
  /\ xo_order \in Seq(Overlays) /\ xo_todo \in Seq(Overlays)
QueueTyped ==
  /\ xo_hand \in Seq(OverlayCommands) /\ xo_commands \in Seq(OverlayCommands)
  /\ xo_batch \in Seq(OverlayCommands)

(* A pass or a batch is never empty, and commands wake the thread. *)
Places ==
  /\ xo_resync <=> xo_commands # <<>>
  /\ xo_at = "commands" <=> xo_batch # <<>>
  /\ xo_at \in {"pass", "apply"} <=> xo_todo # <<>>

(* The order is of the windows there are, and a pass is over some of them. *)
Has(s) == xo_server.win[s].made
Owned ==
  /\ \A s \in Overlays : (Has(s) <=> s \in ToSet(xo_order))
  /\ \A s \in ToSet(xo_todo) : Has(s)

(* The commands that are on their way, the first to be handled first. *)
Joined(b, c, h) == (b \o c) \o h
Underway == Joined(xo_batch, xo_commands, xo_hand)
(* A surface is created once and destroyed once, in this order: where the  *)
(* commands on their way do not say so any more, its window says it.       *)
Asks(q, k, op, s) == q[k].op = op /\ q[k].id = s
Birth(q, s) == \E k \in DOMAIN q : Asks(q, k, "create", s)
Death(q, s) == \E k \in DOMAIN q : Asks(q, k, "destroy", s)
LifeOf(s, q, surface, has) ==
  /\ \A j, k \in DOMAIN q : Asks(q, j, "create", s) /\ Asks(q, k, "create", s) => j = k
  /\ \A j, k \in DOMAIN q : Asks(q, j, "create", s) /\ Asks(q, k, "destroy", s) => j < k
  /\ surface = "unborn" => ~has /\ ~Birth(q, s) /\ ~Death(q, s)
  /\ surface = "live" => (has <=> ~Birth(q, s)) /\ ~Death(q, s)
  /\ surface = "freed" => Death(q, s) \/ (~has /\ ~Birth(q, s))
  /\ has => ~Birth(q, s)
Lives == \A s \in Overlays : LifeOf(s, Underway, xo_surface[s], Has(s))

(* What is not made has nothing. *)
Unmade == \A s \in Overlays : ~Has(s) =>
  xo_server.win[s] = NoWindow /\ xo_server.wm[s] = NoRequest /\ ~xo_fsm[s].mapped

(* Work of a level is owed as long as news of it was not taken up by a     *)
(* pass; commands that are not handled yet will owe a restack.             *)
Owes(n) == xo_pending >= n \/ xo_parsed.level >= n \/ xo_server.news.level >= n
Requested == xo_hand # <<>> \/ xo_commands # <<>> \/ xo_batch # <<>>

(* What the thread knows of the parent is so, or it will read it again.    *)
Full(parent) == parent.fullscreen \/ parent.geom = "screen"
ParentKnown ==
  \/ Owes(Restack)
  \/ xo_work.geom = xo_server.parent.geom /\ xo_work.fullscreen = Full(xo_server.parent)
Leveled(news) == /\ news.parent = "mapped" => news.level = Refocus
                 /\ news.parent = "unmapped" => news.level >= Reconcile
Says(mapped) == IF mapped THEN "mapped" ELSE "unmapped"
(* What is told of the mapping of the parent: the last word stands.        *)
KnowsMapped(parsed, news, believed, mapped) ==
  /\ Leveled(parsed) /\ Leveled(news)
  /\ news.parent # "same" => news.parent = Says(mapped)
  /\ news.parent = "same" /\ parsed.parent # "same" => parsed.parent = Says(mapped)
  /\ news.parent = "same" /\ parsed.parent = "same" => believed = mapped
MappedKnown ==
  KnowsMapped(xo_parsed, xo_server.news, xo_work.mapped, xo_server.parent.mapped)

(* The thread knows which windows are unmanaged; those that are managed    *)
(* and shown are above the parent.                                         *)
Overridden == \A s \in Overlays : xo_server.win[s].override = xo_fsm[s].unmanaged
Above(sv, s) == <<s, "parent">> \in sv.stack
ShownAbove(sv, s) ==
  sv.win[s].mapped /\ ~sv.win[s].override =>
    sv.win[s].managed /\ ~sv.wm[s].unmapped /\ Above(sv, s)
ManagedAbove == \A s \in Overlays : ShownAbove(xo_server, s)

(* An unmanaged window that is to be seen is above the parent, unless a    *)
(* restack is owed, or this pass still comes to it and reasserts.          *)
Lively(s) == xo_surface[s] = "live" /\ Has(s)
Left(s) == s \in ToSet(xo_todo)
RaisedAbove == \A s \in Overlays :
  Lively(s) /\ Wanted(s) /\ xo_server.win[s].override =>
    (Owes(Restack) \/ Requested) \/ (Left(s) /\ xo_work.reassert) \/ Above(xo_server, s)

(* What was observed of an overlay is still so, or news of it came.        *)
Fresh ==
  xo_at = "apply" /\ ~Owes(Reconcile) =>
    LET win == xo_server.win[Head(xo_todo)]
    IN  (xo_seen.mapped => win.mapped) /\ xo_seen.geom = win.geom

(* An overlay that nothing is owed to is what it is to be, or becomes so   *)
(* by a request that the window manager has still to handle.               *)
InPlace(s) ==
  LET win == xo_server.win[s]
      request == xo_server.wm[s]
  IN  /\ win.mapped \/ (request.map /\ ~win.override)
      /\ win.geom = xo_work.geom \/ (request.place = xo_work.geom /\ ~win.override)
Settled == \A s \in Overlays :
  Lively(s) /\ ~Requested /\ ~Owes(Reconcile) /\ ~Left(s) =>
    /\ (xo_fsm[s].mapped <=> Wanted(s)) /\ xo_fsm[s].unmanaged = xo_work.fullscreen
    /\ Wanted(s) => InPlace(s)

OverlayInv ==
  /\ ServerTyped /\ CefTyped /\ ThreadTyped /\ QueueTyped
  /\ Places /\ Owned /\ Lives /\ Unmade /\ ParentKnown /\ MappedKnown /\ Overridden
  /\ ManagedAbove /\ RaisedAbove /\ Fresh /\ Settled

-----------------------------------------------------------------------------

(* What is picked out of a sequence: each position kept has a rank among   *)
(* those kept, and each rank a position.                                   *)
LEMMA OnlyWanted ==
  ASSUME NEW S, NEW seq \in Seq(S), NEW wanted
  PROVE  /\ Only(seq, wanted) \in Seq(S)
         /\ ToSet(Only(seq, wanted)) = ToSet(seq) \cap wanted
<1>1. PICK kept : kept = {k \in DOMAIN seq : seq[k] \in wanted}
  OBVIOUS
<1>2. kept \subseteq 1..Len(seq) /\ Len(seq) \in Nat
  BY <1>1
<1>3. IsFiniteSet(kept) /\ \A T \in SUBSET kept : IsFiniteSet(T) /\ Cardinality(T) \in Nat
  <2>1. IsFiniteSet(1..Len(seq))
    BY <1>2, FS_Interval
  <2>2. IsFiniteSet(kept)
    BY <2>1, <1>2, FS_Subset
  <2>3. ASSUME NEW T \in SUBSET kept PROVE IsFiniteSet(T) /\ Cardinality(T) \in Nat
    BY <2>2, FS_Subset, FS_CardinalityType
  <2> QED BY <2>2, <2>3
<1>4. PICK n : n = Cardinality(kept) /\ n \in Nat
  BY <1>3
<1>5. PICK rank : rank = [k \in kept |-> Cardinality({j \in kept : j <= k})]
  OBVIOUS
<1>6. \A k \in kept : rank[k] \in 1..n
  <2> SUFFICES ASSUME NEW k \in kept PROVE rank[k] \in 1..n
    OBVIOUS
  <2>1. PICK T : T = {j \in kept : j <= k}
    OBVIOUS
  <2>2. T \in SUBSET kept /\ k \in T
    BY <1>2, <2>1
  <2>3. Cardinality(T) \in Nat /\ Cardinality(T) <= n /\ Cardinality(T) # 0
    BY <2>2, <1>3, <1>4, FS_Subset, FS_EmptySet
  <2> QED BY <2>1, <2>3, <1>4, <1>5
<1>7. \A j, k \in kept : rank[j] = rank[k] => j = k
  <2> SUFFICES ASSUME NEW j \in kept, NEW k \in kept, j < k PROVE rank[j] # rank[k]
    BY <1>2
  <2>1. PICK T, U : T = {i \in kept : i <= j} /\ U = {i \in kept : i <= k}
    OBVIOUS
  <2>2. T \in SUBSET U /\ k \in U /\ k \notin T /\ U \in SUBSET kept
    <3>1. kept \subseteq Nat
      BY <1>2
    <3>2. U \in SUBSET kept /\ T \in SUBSET kept
      BY <2>1
    <3>3. k \in U /\ k \notin T
      BY <2>1, <3>1
    <3>4. \A i \in T : i \in U
      BY <2>1, <3>1
    <3> QED BY <3>2, <3>3, <3>4
  <2>3. Cardinality(T) # Cardinality(U)
    <3>1. IsFiniteSet(U)
      BY <2>2, <1>3
    <3>2. Cardinality(U) = Cardinality(T) => U = T
      BY <3>1, <2>2, FS_Subset
    <3> QED BY <3>2, <2>2
  <2> QED BY <2>1, <2>3, <1>5
<1>8. \A m \in 1..n : \E k \in kept : rank[k] = m
  <2>1. rank \in Injection(kept, 1..n)
    BY <1>5, <1>6, <1>7 DEF Injection, IsInjective
  <2>2. IsFiniteSet(1..n) /\ Cardinality(1..n) = n
    BY <1>4, FS_Interval
  <2>3. rank \in Surjection(kept, 1..n)
    BY <2>1, <2>2, <1>4, FS_Injection
  <2> QED BY <2>3 DEF Surjection
<1>9. PICK at : at = [m \in 1..n |-> CHOOSE k \in kept : rank[k] = m]
  OBVIOUS
<1>10. \A m \in 1..n : at[m] \in kept /\ rank[at[m]] = m
  BY <1>8, <1>9
<1>11. Only(seq, wanted) = [m \in 1..n |-> seq[CHOOSE k \in kept : Cardinality({j \in kept : j <= k}) = m]]
  BY <1>1, <1>4 DEF Only
<1>12. \A m \in 1..n : (CHOOSE k \in kept : Cardinality({j \in kept : j <= k}) = m) = at[m]
  <2> SUFFICES ASSUME NEW m \in 1..n
               PROVE  (CHOOSE k \in kept : Cardinality({j \in kept : j <= k}) = m) = at[m]
    OBVIOUS
  <2>1. \A k \in kept : Cardinality({j \in kept : j <= k}) = rank[k]
    BY <1>5
  <2>2. \A k \in kept : (rank[k] = m) <=> (k = at[m])
    BY <1>7, <1>10
  <2> QED BY <2>1, <2>2, <1>10
<1>13. PICK s : s = [m \in 1..n |-> seq[at[m]]]
  OBVIOUS
<1>14. Only(seq, wanted) = s
  BY <1>11, <1>12, <1>13
<1>15. s \in Seq(S)
  BY <1>13, <1>10, <1>1, <1>4
<1>16. ToSet(s) = ToSet(seq) \cap wanted
  <2>1. DOMAIN s = 1..n
    BY <1>13
  <2>2. \A k \in kept : s[rank[k]] = seq[k]
    BY <1>6, <1>7, <1>10, <1>13
  <2>3. \A m \in 1..n : s[m] = seq[at[m]] /\ at[m] \in kept
    BY <1>10, <1>13
  <2> QED BY <2>1, <2>2, <2>3, <1>1, <1>6 DEF ToSet
<1> QED BY <1>14, <1>15, <1>16

LEMMA JoinedSet ==
  ASSUME NEW S, NEW p \in Seq(S), NEW q \in Seq(S)
  PROVE  p \o q \in Seq(S) /\ ToSet(p \o q) = ToSet(p) \cup ToSet(q)
<1>1. p \o q \in Seq(S) /\ Len(p \o q) = Len(p) + Len(q)
  OBVIOUS
<1>2. \A k \in 1..Len(p) : (p \o q)[k] = p[k]
  OBVIOUS
<1>3. \A k \in 1..Len(q) : (p \o q)[Len(p) + k] = q[k] /\ Len(p) + k \in 1..Len(p) + Len(q)
  OBVIOUS
<1>4. \A k \in 1..Len(p) + Len(q) : k \in 1..Len(p) \/ (k - Len(p)) \in 1..Len(q)
  OBVIOUS
<1>5. \A k \in 1..Len(p) + Len(q) : k \notin 1..Len(p) => (p \o q)[k] = q[k - Len(p)]
  OBVIOUS
<1>6. DOMAIN (p \o q) = 1..Len(p) + Len(q) /\ DOMAIN p = 1..Len(p) /\ DOMAIN q = 1..Len(q)
  BY <1>1
<1>7. PICK pq : pq = p \o q
  OBVIOUS
<1>8. ToSet(p) \cup ToSet(q) \subseteq ToSet(pq)
  <2>1. \A k \in 1..Len(p) : p[k] \in ToSet(pq)
    <3>1. \A k \in 1..Len(p) : k \in 1..Len(p) + Len(q)
      OBVIOUS
    <3> QED BY <1>2, <1>6, <1>7, <3>1 DEF ToSet
  <2>2. \A k \in 1..Len(q) : q[k] \in ToSet(pq)
    BY <1>3, <1>6, <1>7 DEF ToSet
  <2> QED BY <2>1, <2>2, <1>6 DEF ToSet
<1>9. ToSet(pq) \subseteq ToSet(p) \cup ToSet(q)
  BY <1>2, <1>4, <1>5, <1>6, <1>7 DEF ToSet
<1> QED BY <1>1, <1>7, <1>8, <1>9

LEMMA AppendedSet ==
  ASSUME NEW S, NEW q \in Seq(S), NEW e \in S
  PROVE  Append(q, e) \in Seq(S) /\ ToSet(Append(q, e)) = ToSet(q) \cup {e}
<1>1. Append(q, e) \in Seq(S) /\ DOMAIN Append(q, e) = 1..Len(q) + 1 /\ DOMAIN q = 1..Len(q)
  OBVIOUS
<1>2. \A k \in 1..Len(q) : Append(q, e)[k] = q[k]
  OBVIOUS
<1>3. Append(q, e)[Len(q) + 1] = e
  OBVIOUS
<1>4. PICK a : a = Append(q, e)
  OBVIOUS
<1>5. \A k \in 1..Len(q) + 1 : k \in 1..Len(q) \/ k = Len(q) + 1
  OBVIOUS
<1>6. Len(q) + 1 \in 1..Len(q) + 1 /\ 1..Len(q) \subseteq 1..Len(q) + 1
  OBVIOUS
<1>7. ToSet(a) = ToSet(q) \cup {e}
  BY <1>1, <1>2, <1>3, <1>4, <1>5, <1>6 DEF ToSet
<1> QED BY <1>1, <1>4, <1>7

LEMMA HeadAndTail ==
  ASSUME NEW S, NEW q \in Seq(S), q # <<>>
  PROVE  /\ Head(q) \in S /\ Tail(q) \in Seq(S)
         /\ ToSet(q) = {Head(q)} \cup ToSet(Tail(q))
<1>1. /\ Tail(q) \in Seq(S) /\ Len(q) \in Nat \ {0} /\ DOMAIN q = 1..Len(q)
      /\ DOMAIN Tail(q) = 1..Len(q) - 1 /\ Head(q) = q[1] /\ q[1] \in S
  OBVIOUS
<1>2. \A k \in 1..Len(q) - 1 : Tail(q)[k] = q[k + 1] /\ k + 1 \in 1..Len(q)
  BY <1>1
<1>3. \A k \in 1..Len(q) : k = 1 \/ (k - 1 \in 1..Len(q) - 1 /\ (k - 1) + 1 = k)
  BY <1>1
<1>4. PICK t : t = Tail(q)
  OBVIOUS
<1>5. \A k \in 1..Len(q) : k = 1 \/ (k - 1 \in 1..Len(q) - 1 /\ t[k - 1] = q[k])
  BY <1>2, <1>3, <1>4
<1>6. ToSet(q) = {q[1]} \cup ToSet(t)
  <2>1. ToSet(q) \subseteq {q[1]} \cup ToSet(t)
    BY <1>1, <1>4, <1>5 DEF ToSet
  <2>2. {q[1]} \cup ToSet(t) \subseteq ToSet(q)
    BY <1>1, <1>2, <1>4 DEF ToSet
  <2> QED BY <2>1, <2>2
<1> QED BY <1>1, <1>4, <1>6

-----------------------------------------------------------------------------

LEMMA QueueOther ==
  ASSUME NEW q \in Seq(OverlayCommands), NEW c \in OverlayCommands, NEW s, NEW surface, NEW has,
         LifeOf(s, q, surface, has), ~(c.op \in {"create", "destroy"} /\ c.id = s)
  PROVE  LifeOf(s, Append(q, c), surface, has)
<1>1. PICK a : a = Append(q, c)
  OBVIOUS
<1>2. DOMAIN a = 1..Len(q) + 1 /\ DOMAIN q = 1..Len(q) /\ Len(q) \in Nat
  BY <1>1
<1>3. a[Len(q) + 1] = c /\ \A k \in 1..Len(q) : a[k] = q[k]
  BY <1>1
<1>4. \A k \in DOMAIN a : k \in DOMAIN q \/ k = Len(q) + 1
  BY <1>2
<1>5. \A k \in DOMAIN a : (Asks(a, k, "create", s) => k \in DOMAIN q /\ Asks(q, k, "create", s))
                       /\ (Asks(a, k, "destroy", s) => k \in DOMAIN q /\ Asks(q, k, "destroy", s))
  BY <1>2, <1>3, <1>4 DEF Asks
<1>6. \A k \in DOMAIN q : k \in DOMAIN a /\ (Asks(q, k, "create", s) => Asks(a, k, "create", s))
                       /\ (Asks(q, k, "destroy", s) => Asks(a, k, "destroy", s))
  BY <1>2, <1>3 DEF Asks
<1>7. (Birth(a, s) <=> Birth(q, s)) /\ (Death(a, s) <=> Death(q, s))
  BY <1>5, <1>6 DEF Birth, Death
<1>8. LifeOf(s, a, surface, has)
  BY <1>5, <1>7 DEF LifeOf
<1> QED BY <1>1, <1>8

LEMMA QueueBirth ==
  ASSUME NEW q \in Seq(OverlayCommands), NEW c \in OverlayCommands, NEW s, NEW has \in BOOLEAN,
         LifeOf(s, q, "unborn", has), c.op = "create", c.id = s
  PROVE  LifeOf(s, Append(q, c), "live", has)
<1>1. PICK a : a = Append(q, c)
  OBVIOUS
<1>2. DOMAIN a = 1..Len(q) + 1 /\ DOMAIN q = 1..Len(q) /\ Len(q) \in Nat
  BY <1>1
<1>3. a[Len(q) + 1] = c /\ \A k \in 1..Len(q) : a[k] = q[k]
  BY <1>1
<1>4. \A k \in DOMAIN a : k \in DOMAIN q \/ k = Len(q) + 1
  BY <1>2
<1>5. ~has /\ ~Birth(q, s) /\ ~Death(q, s)
  BY DEF LifeOf
<1>6. \A k \in DOMAIN a : (Asks(a, k, "create", s) => k = Len(q) + 1) /\ ~Asks(a, k, "destroy", s)
  BY <1>2, <1>3, <1>4, <1>5 DEF Asks, Birth, Death
<1>7. Birth(a, s) /\ ~Death(a, s)
  <2>1. Len(q) + 1 \in DOMAIN a
    BY <1>2
  <2> QED BY <1>3, <1>6, <2>1 DEF Birth, Death, Asks
<1>8. LifeOf(s, a, "live", has)
  BY <1>5, <1>6, <1>7 DEF LifeOf
<1> QED BY <1>1, <1>8

LEMMA QueueDeath ==
  ASSUME NEW q \in Seq(OverlayCommands), NEW c \in OverlayCommands, NEW s, NEW has \in BOOLEAN,
         LifeOf(s, q, "live", has), c.op = "destroy", c.id = s
  PROVE  LifeOf(s, Append(q, c), "freed", has)
<1>1. PICK a : a = Append(q, c)
  OBVIOUS
<1>2. DOMAIN a = 1..Len(q) + 1 /\ DOMAIN q = 1..Len(q) /\ Len(q) \in Nat
  BY <1>1
<1>3. a[Len(q) + 1] = c /\ \A k \in 1..Len(q) : a[k] = q[k]
  BY <1>1
<1>4. \A k \in DOMAIN a : k \in DOMAIN q \/ k = Len(q) + 1
  BY <1>2
<1>5. (has <=> ~Birth(q, s)) /\ ~Death(q, s)
  BY DEF LifeOf
<1>6. \A k \in DOMAIN a : (Asks(a, k, "create", s) => k \in DOMAIN q /\ Asks(q, k, "create", s))
                       /\ (Asks(a, k, "destroy", s) => k = Len(q) + 1)
  BY <1>2, <1>3, <1>4, <1>5 DEF Asks, Death
<1>7. Death(a, s)
  <2>1. Len(q) + 1 \in DOMAIN a
    BY <1>2
  <2> QED BY <1>3, <2>1 DEF Death, Asks
<1>8. has => ~Birth(a, s)
  BY <1>5, <1>6 DEF Birth
<1>9. \A j, k \in DOMAIN a : Asks(a, j, "create", s) /\ Asks(a, k, "destroy", s) => j < k
  BY <1>2, <1>6
<1>10. \A j, k \in DOMAIN a : Asks(a, j, "create", s) /\ Asks(a, k, "create", s) => j = k
  BY <1>6 DEF LifeOf
<1>11. LifeOf(s, a, "freed", has)
  BY <1>7, <1>8, <1>9, <1>10 DEF LifeOf
<1> QED BY <1>1, <1>11

(* What of the queue is left when its first command is handled.             *)
LEMMA TailAsks ==
  ASSUME NEW q \in Seq(OverlayCommands), q # <<>>, NEW op, NEW s
  PROVE  /\ \A k \in DOMAIN Tail(q) : k + 1 \in DOMAIN q /\ k \in Nat
                /\ (Asks(Tail(q), k, op, s) <=> Asks(q, k + 1, op, s))
         /\ \A k \in DOMAIN q : k = 1 \/ \E j \in DOMAIN Tail(q) : k = j + 1
         /\ \A k \in DOMAIN q : k \in Nat /\ k >= 1
         /\ 1 \in DOMAIN q /\ q[1] = Head(q)
<1>1. PICK t : t = Tail(q)
  OBVIOUS
<1>2. Len(q) \in Nat \ {0} /\ DOMAIN q = 1..Len(q) /\ DOMAIN t = 1..Len(q) - 1 /\ Head(q) = q[1]
  BY <1>1
<1>3. \A k \in 1..Len(q) - 1 : t[k] = q[k + 1]
  BY <1>1
<1>4. \A k \in DOMAIN t : k + 1 \in DOMAIN q /\ k \in Nat /\ (Asks(t, k, op, s) <=> Asks(q, k + 1, op, s))
  BY <1>2, <1>3 DEF Asks
<1>5. \A k \in DOMAIN q : k = 1 \/ (k - 1 \in DOMAIN t /\ k = (k - 1) + 1)
  BY <1>2
<1>6. \A k \in DOMAIN q : k = 1 \/ \E j \in DOMAIN t : k = j + 1
  BY <1>5
<1> QED BY <1>1, <1>2, <1>4, <1>6

LEMMA TailOther ==
  ASSUME NEW q \in Seq(OverlayCommands), q # <<>>, NEW s, NEW surface, NEW has \in BOOLEAN,
         LifeOf(s, q, surface, has), ~(Head(q).op \in {"create", "destroy"} /\ Head(q).id = s)
  PROVE  LifeOf(s, Tail(q), surface, has)
<1>1. PICK t : t = Tail(q)
  OBVIOUS
<1>2. /\ \A k \in DOMAIN t : k + 1 \in DOMAIN q /\ k \in Nat
            /\ (Asks(t, k, "create", s) <=> Asks(q, k + 1, "create", s))
            /\ (Asks(t, k, "destroy", s) <=> Asks(q, k + 1, "destroy", s))
      /\ \A k \in DOMAIN q : k = 1 \/ \E j \in DOMAIN t : k = j + 1
      /\ q[1] = Head(q)
  BY <1>1, TailAsks
<1>3. ~Asks(q, 1, "create", s) /\ ~Asks(q, 1, "destroy", s)
  BY <1>2 DEF Asks
<1>4. (Birth(t, s) <=> Birth(q, s)) /\ (Death(t, s) <=> Death(q, s))
  <2>1. Birth(t, s) => Birth(q, s)
    BY <1>2 DEF Birth
  <2>2. Birth(q, s) => Birth(t, s)
    BY <1>2, <1>3 DEF Birth
  <2>3. Death(t, s) => Death(q, s)
    BY <1>2 DEF Death
  <2>4. Death(q, s) => Death(t, s)
    BY <1>2, <1>3 DEF Death
  <2> QED BY <2>1, <2>2, <2>3, <2>4
<1>5. \A j, k \in DOMAIN t : Asks(t, j, "create", s) /\ Asks(t, k, "create", s) => j = k
  <2> SUFFICES ASSUME NEW j \in DOMAIN t, NEW k \in DOMAIN t, Asks(t, j, "create", s), Asks(t, k, "create", s)
               PROVE  j = k
    OBVIOUS
  <2>1. j + 1 = k + 1
    BY <1>2 DEF LifeOf
  <2> QED BY <2>1, <1>2
<1>6. \A j, k \in DOMAIN t : Asks(t, j, "create", s) /\ Asks(t, k, "destroy", s) => j < k
  <2> SUFFICES ASSUME NEW j \in DOMAIN t, NEW k \in DOMAIN t, Asks(t, j, "create", s), Asks(t, k, "destroy", s)
               PROVE  j < k
    OBVIOUS
  <2>1. j + 1 < k + 1
    BY <1>2 DEF LifeOf
  <2> QED BY <2>1, <1>2
<1>7. LifeOf(s, t, surface, has)
  BY <1>4, <1>5, <1>6 DEF LifeOf
<1> QED BY <1>1, <1>7

LEMMA TailBirth ==
  ASSUME NEW q \in Seq(OverlayCommands), q # <<>>, NEW s, NEW surface, NEW has \in BOOLEAN,
         LifeOf(s, q, surface, has), Head(q).op = "create", Head(q).id = s
  PROVE  LifeOf(s, Tail(q), surface, TRUE)
<1>1. PICK t : t = Tail(q)
  OBVIOUS
<1>2. /\ \A k \in DOMAIN t : k + 1 \in DOMAIN q /\ k \in Nat
            /\ (Asks(t, k, "create", s) <=> Asks(q, k + 1, "create", s))
            /\ (Asks(t, k, "destroy", s) <=> Asks(q, k + 1, "destroy", s))
      /\ \A k \in DOMAIN q : k = 1 \/ \E j \in DOMAIN t : k = j + 1
      /\ 1 \in DOMAIN q /\ q[1] = Head(q)
  BY <1>1, TailAsks
<1>3. Asks(q, 1, "create", s) /\ ~Asks(q, 1, "destroy", s)
  BY <1>2 DEF Asks
<1>4. Birth(q, s)
  BY <1>2, <1>3 DEF Birth
<1>5. \A k \in DOMAIN t : ~Asks(t, k, "create", s)
  <2> SUFFICES ASSUME NEW k \in DOMAIN t, Asks(t, k, "create", s) PROVE FALSE
    OBVIOUS
  <2>1. k + 1 = 1
    BY <1>2, <1>3 DEF LifeOf
  <2> QED BY <2>1, <1>2
<1>6. ~Birth(t, s)
  BY <1>5 DEF Birth
<1>7. Death(t, s) <=> Death(q, s)
  <2>1. Death(t, s) => Death(q, s)
    BY <1>2 DEF Death
  <2>2. Death(q, s) => Death(t, s)
    BY <1>2, <1>3 DEF Death
  <2> QED BY <2>1, <2>2
<1>8. LifeOf(s, t, surface, TRUE)
  BY <1>4, <1>5, <1>6, <1>7 DEF LifeOf
<1> QED BY <1>1, <1>8

LEMMA TailDeath ==
  ASSUME NEW q \in Seq(OverlayCommands), q # <<>>, NEW s, NEW surface, NEW has \in BOOLEAN,
         LifeOf(s, q, surface, has), Head(q).op = "destroy", Head(q).id = s,
         surface \in {"unborn", "live", "freed"}
  PROVE  LifeOf(s, Tail(q), surface, FALSE)
<1>1. PICK t : t = Tail(q)
  OBVIOUS
<1>2. /\ \A k \in DOMAIN t : k + 1 \in DOMAIN q /\ k \in Nat
            /\ (Asks(t, k, "create", s) <=> Asks(q, k + 1, "create", s))
            /\ (Asks(t, k, "destroy", s) <=> Asks(q, k + 1, "destroy", s))
      /\ \A k \in DOMAIN q : k \in Nat /\ k >= 1
      /\ 1 \in DOMAIN q /\ q[1] = Head(q)
  BY <1>1, TailAsks
<1>3. Asks(q, 1, "destroy", s)
  BY <1>2 DEF Asks
<1>4. Death(q, s)
  BY <1>2, <1>3 DEF Death
<1>5. surface = "freed"
  BY <1>4 DEF LifeOf
<1>6. \A k \in DOMAIN t : ~Asks(t, k, "create", s)
  <2> SUFFICES ASSUME NEW k \in DOMAIN t, Asks(t, k, "create", s) PROVE FALSE
    OBVIOUS
  <2>1. k + 1 < 1
    BY <1>2, <1>3 DEF LifeOf
  <2> QED BY <2>1, <1>2
<1>7. ~Birth(t, s)
  BY <1>6 DEF Birth
<1>8. LifeOf(s, t, surface, FALSE)
  BY <1>5, <1>6, <1>7 DEF LifeOf
<1> QED BY <1>1, <1>8
-----------------------------------------------------------------------------
(* How the queue as a whole is changed by what moves a part of it.          *)
LEMMA Regrouped ==
  ASSUME NEW C, NEW b \in Seq(C), NEW c \in Seq(C), NEW h \in Seq(C)
  PROVE  (b \o (c \o h)) \o <<>> = (b \o c) \o h /\ (c \o <<>>) \o h = (<<>> \o c) \o h
<1>1. (b \o (c \o h)) \o <<>> = (b \o c) \o h
  <2>1. PICK ch : ch = c \o h
    OBVIOUS
  <2>2. PICK bch : bch = b \o ch
    OBVIOUS
  <2>a. ch \in Seq(C)
    BY <2>1, ConcatProperties
  <2>b. bch \in Seq(C)
    BY <2>2, <2>a, ConcatProperties
  <2>3. bch \o <<>> = bch
    BY <2>b, ConcatEmptySeq
  <2>4. (b \o c) \o h = b \o (c \o h)
    BY ConcatAssociative, SMTT(60)
  <2> QED BY <2>1, <2>2, <2>3, <2>4
<1>2. c \o <<>> = c /\ <<>> \o c = c
  BY ConcatEmptySeq
<1> QED BY <1>1, <1>2

LEMMA Extended ==
  ASSUME NEW C, NEW b \in Seq(C), NEW e \in C
  PROVE  b \o <<e>> = Append(b \o <<>>, e)
<1>1. b \o <<>> = b
  BY ConcatEmptySeq
<1>2. Append(b, e) = b \o <<e>>
  BY AppendIsConcat
<1> QED BY <1>1, <1>2

LEMMA Shortened ==
  ASSUME NEW C, NEW b \in Seq(C), NEW c \in Seq(C), NEW h \in Seq(C), b # <<>>
  PROVE  /\ Joined(Tail(b), c, h) = Tail(Joined(b, c, h))
         /\ Head(Joined(b, c, h)) = Head(b) /\ Joined(b, c, h) # <<>>
<1>1. ASSUME NEW p \in Seq(C), NEW r \in Seq(C), p # <<>>
      PROVE  /\ Tail(p) \o r = Tail(p \o r) /\ Head(p \o r) = Head(p)
             /\ p \o r # <<>> /\ p \o r \in Seq(C)
  <2>a. PICK t : t = Tail(p)
    OBVIOUS
  <2>1. t = Tail(p) /\ t \in Seq(C) /\ Len(t) = Len(p) - 1
          /\ \A k \in 1..Len(p) - 1 : t[k] = p[k + 1]
    BY <1>1, <2>a
  <2>b. Len(p) \in Nat /\ Len(r) \in Nat /\ Len(p) # 0
    BY <1>1
  <2>2. PICK lp \in Nat, lr \in Nat : lp = Len(p) /\ lr = Len(r) /\ lp # 0
    BY <2>b
  <2>3. PICK pr : pr = p \o r
    OBVIOUS
  <2>4. /\ pr \in Seq(C) /\ Len(pr) = lp + lr
        /\ \A k \in 1..lp : pr[k] = p[k]
        /\ \A k \in 1..lp + lr : k > lp => pr[k] = r[k - lp]
    BY <2>2, <2>3, ConcatProperties
  <2>5. pr # <<>> /\ Head(pr) = pr[1] /\ Head(p) = p[1] /\ pr[1] = p[1]
    BY <1>1, <2>2, <2>4
  <2>c. PICK u : u = Tail(pr)
    OBVIOUS
  <2>6. u = Tail(pr) /\ u \in Seq(C) /\ Len(u) = lp + lr - 1
          /\ \A k \in 1..lp + lr - 1 : u[k] = pr[k + 1]
    BY <2>2, <2>4, <2>5, <2>c
  <2>7. PICK v : v = t \o r
    OBVIOUS
  <2>8. /\ v \in Seq(C) /\ Len(v) = lp + lr - 1
        /\ \A k \in 1..lp - 1 : v[k] = t[k]
        /\ \A k \in 1..lp + lr - 1 : k > lp - 1 => v[k] = r[k - (lp - 1)]
    <3>1. v \in Seq(C) /\ Len(v) = Len(t) + lr
      BY <2>1, <2>2, <2>7, ConcatProperties
    <3>2. \A k \in 1..Len(t) + lr : v[k] = IF k <= Len(t) THEN t[k] ELSE r[k - Len(t)]
      BY <2>1, <2>2, <2>7, ConcatProperties
    <3>a. Len(t) = lp - 1
      BY <2>1, <2>2
    <3>b. lp - 1 \in Nat
      BY <2>2
    <3>3. PICK lt \in Nat : lt = Len(t) /\ lt = lp - 1
      BY <3>a, <3>b
    <3>4. \A k \in 1..lt + lr : v[k] = IF k <= lt THEN t[k] ELSE r[k - lt]
      BY <3>2, <3>3
    <3>5. \A k \in 1..lp - 1 : k \in 1..lt + lr /\ k <= lt
      BY <3>3, <2>2
    <3>6. \A k \in 1..lp - 1 : v[k] = t[k]
      BY <3>4, <3>5
    <3>7. \A k \in 1..lp + lr - 1 : k > lp - 1 => v[k] = r[k - (lp - 1)]
      BY <3>3, <3>4, <2>2
    <3>8. Len(v) = lp + lr - 1
      BY <3>1, <3>3, <2>2
    <3> QED BY <3>1, <3>6, <3>7, <3>8
  <2>9. \A k \in 1..lp + lr - 1 : u[k] = v[k]
    <3> SUFFICES ASSUME NEW k \in 1..lp + lr - 1 PROVE u[k] = v[k]
      OBVIOUS
    <3>1. CASE k <= lp - 1
      <4>1. k \in 1..lp - 1 /\ k + 1 \in 1..lp /\ k + 1 \in 1..lp + lr
        BY <3>1, <2>2
      <4>2. u[k] = pr[k + 1] /\ pr[k + 1] = p[k + 1] /\ v[k] = t[k]
        BY <4>1, <2>4, <2>6, <2>8
      <4>3. t[k] = p[k + 1]
        BY <4>1, <2>1, <2>2
      <4> QED BY <4>2, <4>3
    <3>2. CASE k > lp - 1
      <4>1. k + 1 \in 1..lp + lr /\ k + 1 > lp /\ (k + 1) - lp = k - (lp - 1)
        BY <3>2, <2>2
      <4>2. pr[k + 1] = r[(k + 1) - lp] /\ v[k] = r[k - (lp - 1)] /\ u[k] = pr[k + 1]
        BY <4>1, <3>2, <2>4, <2>6, <2>8
      <4> QED BY <4>1, <4>2
    <3> QED BY <3>1, <3>2, <2>2
  <2>10. u = v
    <3>1. Len(u) = Len(v)
      BY <2>6, <2>8
    <3> QED BY <2>6, <2>8, <2>9, <3>1, SeqEqual
  <2> QED BY <2>1, <2>3, <2>4, <2>5, <2>6, <2>7, <2>10
<1>a. PICK bc : bc = b \o c
  OBVIOUS
<1>2. bc = b \o c /\ bc \in Seq(C)
  BY <1>a, ConcatProperties
<1>3. Tail(b) \o c = Tail(bc) /\ Head(bc) = Head(b) /\ bc # <<>>
  BY <1>1, <1>2
<1>4. Tail(bc) \o h = Tail(bc \o h) /\ Head(bc \o h) = Head(bc) /\ bc \o h # <<>>
  BY <1>1, <1>2, <1>3
<1>5. Joined(Tail(b), c, h) = Tail(bc) \o h /\ Joined(b, c, h) = bc \o h
  BY <1>2, <1>3 DEF Joined
<1> QED BY <1>3, <1>4, <1>5

-----------------------------------------------------------------------------

(* What a request about the window of s leaves as it was. *)
Spares(sv, r, s) ==
  /\ r \in Servers /\ r.parent = sv.parent
  /\ r.news.parent = sv.news.parent /\ r.news.level >= sv.news.level
  /\ \A t \in Overlays : r.win[t].made = sv.win[t].made
  /\ \A t \in Overlays : t # s =>
       r.win[t] = sv.win[t] /\ r.wm[t] = sv.wm[t] /\ (Above(r, t) <=> Above(sv, t))
  /\ Above(sv, s) => Above(r, s)
LEMMA SparesAll ==
  ASSUME NEW sv \in Servers, NEW r, NEW q, NEW s \in Overlays, Spares(sv, r, s), Spares(r, q, s)
  PROVE  Spares(sv, q, s)
<1>1. sv.news.level \in Int /\ r.news.level \in Int /\ q.news.level \in Int
  BY DEF Spares, Servers, NewsRecords
<1> QED BY <1>1 DEF Spares

LEMMA ServerParts ==
  ASSUME NEW sv \in Servers
  PROVE  /\ sv.win \in [Overlays -> WindowRecords] /\ sv.stack \in Stacks
         /\ sv.parent \in ParentRecords /\ sv.wm \in [Overlays -> RequestRecords]
         /\ sv.news \in NewsRecords /\ sv.news.level \in 0..3
BY DEF Servers, NewsRecords

LEMMA ThenIs ==
  ASSUME NEW m \in NewsRecords, NEW n \in NewsRecords
  PROVE  /\ Then(m, n) \in NewsRecords
         /\ Then(m, n).level >= m.level /\ Then(m, n).level >= n.level
         /\ Then(m, n).level \in {m.level, n.level}
         /\ Then(m, n).parent = IF n.parent = "same" THEN m.parent ELSE n.parent
BY DEF Then, Higher, NewsRecords

LEMMA TellingIs ==
  ASSUME NEW sv \in Servers, NEW level \in 0..3
  PROVE  /\ Telling(sv, level) \in Servers
         /\ Telling(sv, level).win = sv.win /\ Telling(sv, level).stack = sv.stack
         /\ Telling(sv, level).parent = sv.parent /\ Telling(sv, level).wm = sv.wm
         /\ Telling(sv, level).news.parent = sv.news.parent
         /\ Telling(sv, level).news.level >= level
         /\ Telling(sv, level).news.level >= sv.news.level
<1>1. PICK n : n = Then(sv.news, [level |-> level, parent |-> "same"])
  OBVIOUS
<1>2. [level |-> level, parent |-> "same"] \in NewsRecords
  BY DEF NewsRecords
<1>3. n \in NewsRecords /\ n.level >= level /\ n.level >= sv.news.level /\ n.parent = sv.news.parent
  BY <1>1, <1>2, ThenIs, ServerParts
<1>4. Telling(sv, level) = [sv EXCEPT !.news = n]
  BY <1>1 DEF Telling
<1> QED BY <1>3, <1>4 DEF Servers

LEMMA UnmapIs ==
  ASSUME NEW sv \in Servers, NEW s \in Overlays
  PROVE  /\ Spares(sv, Unmap(sv, s), s)
         /\ Unmap(sv, s).stack = sv.stack
         /\ ~Unmap(sv, s).win[s].mapped
         /\ Unmap(sv, s).win[s].override = sv.win[s].override
         /\ Unmap(sv, s).win[s].managed = sv.win[s].managed
         /\ Unmap(sv, s).win[s].geom = sv.win[s].geom
         /\ Unmap(sv, s).wm[s].map = sv.wm[s].map
         /\ Unmap(sv, s).wm[s].place = sv.wm[s].place
         /\ sv.win[s].mapped => Unmap(sv, s).news.level >= Reconcile
<1>1. CASE ~sv.win[s].mapped
  <2>1. Unmap(sv, s) = sv
    BY <1>1 DEF Unmap
  <2>2. sv.news.level >= sv.news.level
    BY ServerParts
  <2> QED BY <1>1, <2>1, <2>2 DEF Spares
<1>2. CASE sv.win[s].mapped
  <2>1. PICK m : m = [sv EXCEPT !.win[s].mapped = FALSE,
                                !.wm[s].unmapped = @ \/ sv.win[s].managed]
    OBVIOUS
  <2>2. /\ sv.win[s] \in WindowRecords /\ sv.wm[s] \in RequestRecords
        /\ (sv.wm[s].unmapped \/ sv.win[s].managed) \in BOOLEAN
    BY ServerParts DEF WindowRecords, RequestRecords
  <2>3. /\ m.win = [sv.win EXCEPT ![s] = [@ EXCEPT !.mapped = FALSE]]
        /\ m.wm = [sv.wm EXCEPT ![s] = [@ EXCEPT !.unmapped = sv.wm[s].unmapped \/ sv.win[s].managed]]
        /\ m.stack = sv.stack /\ m.parent = sv.parent /\ m.news = sv.news
        /\ m \in Servers
    <3>1. /\ m.win = [sv.win EXCEPT ![s] = [@ EXCEPT !.mapped = FALSE]]
          /\ m.wm = [sv.wm EXCEPT ![s] = [@ EXCEPT !.unmapped = sv.wm[s].unmapped \/ sv.win[s].managed]]
          /\ m.stack = sv.stack /\ m.parent = sv.parent /\ m.news = sv.news
      <4>1. m.win = [sv.win EXCEPT ![s] = [@ EXCEPT !.mapped = FALSE]]
        BY <2>1 DEF Servers
      <4>2. m.wm = [sv.wm EXCEPT ![s] = [@ EXCEPT !.unmapped = sv.wm[s].unmapped \/ sv.win[s].managed]]
        BY <2>1 DEF Servers
      <4>3. m.stack = sv.stack /\ m.parent = sv.parent /\ m.news = sv.news
        BY <2>1 DEF Servers
      <4> QED BY <4>1, <4>2, <4>3
    <3>2. m.win \in [Overlays -> WindowRecords] /\ m.wm \in [Overlays -> RequestRecords]
      <4>1. m.win \in [Overlays -> WindowRecords]
        <5>1. PICK w : w = [sv.win[s] EXCEPT !.mapped = FALSE]
          OBVIOUS
        <5>2. w \in WindowRecords
          BY <5>1, <2>2 DEF WindowRecords
        <5>3. m.win = [sv.win EXCEPT ![s] = w]
          BY <3>1, <5>1
        <5> QED BY <5>2, <5>3, ServerParts
      <4>2. PICK b \in BOOLEAN : b = (sv.wm[s].unmapped \/ sv.win[s].managed)
        BY <2>2
      <4>3. m.wm = [sv.wm EXCEPT ![s] = [@ EXCEPT !.unmapped = b]]
        BY <3>1, <4>2
      <4>4. m.wm \in [Overlays -> RequestRecords]
        BY <4>3, <2>2, ServerParts DEF RequestRecords
      <4> QED BY <4>1, <4>4
    <3>3. m = [win |-> m.win, stack |-> m.stack, parent |-> m.parent, wm |-> m.wm, news |-> m.news]
      BY <2>1 DEF Servers
    <3> QED BY <3>1, <3>2, <3>3, ServerParts DEF Servers
  <2>4. PICK r : r = Telling(m, Reconcile)
    OBVIOUS
  <2>5. /\ r \in Servers /\ r.win = m.win /\ r.stack = m.stack /\ r.parent = m.parent
        /\ r.wm = m.wm /\ r.news.parent = m.news.parent
        /\ r.news.level >= Reconcile /\ r.news.level >= m.news.level
    BY <2>3, <2>4, TellingIs DEF Reconcile
  <2>6. Unmap(sv, s) = r
    BY <1>2, <2>1, <2>4 DEF Unmap
  <2>7. \A t \in Overlays : t # s => m.win[t] = sv.win[t] /\ m.wm[t] = sv.wm[t]
    BY <2>3, ServerParts
  <2>8. /\ ~m.win[s].mapped /\ m.win[s].override = sv.win[s].override
        /\ m.win[s].managed = sv.win[s].managed /\ m.win[s].geom = sv.win[s].geom
        /\ m.win[s].made = sv.win[s].made
        /\ m.wm[s].map = sv.wm[s].map /\ m.wm[s].place = sv.wm[s].place
    BY <2>2, <2>3, ServerParts DEF WindowRecords, RequestRecords
  <2>9. Spares(sv, r, s)
    BY <2>3, <2>5, <2>7, <2>8 DEF Spares, Above
  <2> QED BY <2>3, <2>5, <2>6, <2>8, <2>9
<1> QED BY <1>1, <1>2

LEMMA OverrideIs ==
  ASSUME NEW sv \in Servers, NEW s \in Overlays, NEW v \in BOOLEAN
  PROVE  /\ Spares(sv, SetOverrideRedirect(sv, s, v), s)
         /\ ~SetOverrideRedirect(sv, s, v).win[s].mapped
         /\ SetOverrideRedirect(sv, s, v).win[s].override = v
<1>1. PICK u : u = Unmap(sv, s)
  OBVIOUS
<1>2. Spares(sv, u, s) /\ u.stack = sv.stack /\ ~u.win[s].mapped
  BY <1>1, UnmapIs
<1>3. u \in Servers
  BY <1>2 DEF Spares
<1>4. PICK r : r = [u EXCEPT !.win[s].override = v]
  OBVIOUS
<1>5. SetOverrideRedirect(sv, s, v) = r
  BY <1>1, <1>4 DEF SetOverrideRedirect
<1>6. /\ r.win = [u.win EXCEPT ![s] = [@ EXCEPT !.override = v]]
      /\ r.wm = u.wm /\ r.stack = u.stack /\ r.parent = u.parent /\ r.news = u.news
      /\ r = [win |-> r.win, stack |-> r.stack, parent |-> r.parent, wm |-> r.wm, news |-> r.news]
  BY <1>3, <1>4 DEF Servers
<1>7. u.win[s] \in WindowRecords /\ u.win \in [Overlays -> WindowRecords]
  BY <1>3, ServerParts
<1>8. r \in Servers
  <2>1. r.win \in [Overlays -> WindowRecords]
    BY <1>6, <1>7 DEF WindowRecords
  <2> QED BY <2>1, <1>3, <1>6, ServerParts DEF Servers
<1>9. /\ r.win[s].override = v /\ r.win[s].mapped = u.win[s].mapped /\ r.win[s].made = u.win[s].made
      /\ \A t \in Overlays : t # s => r.win[t] = u.win[t]
  BY <1>6, <1>7 DEF WindowRecords
<1>10. Spares(sv, r, s)
  BY <1>2, <1>6, <1>8, <1>9 DEF Spares, Above
<1> QED BY <1>2, <1>5, <1>9, <1>10

LEMMA MapIs ==
  ASSUME NEW sv \in Servers, NEW s \in Overlays
  PROVE  /\ Spares(sv, Map(sv, s), s)
         /\ Map(sv, s).win[s].override = sv.win[s].override
         /\ Map(sv, s).win[s].managed = sv.win[s].managed
         /\ Map(sv, s).win[s].geom = sv.win[s].geom
         /\ Map(sv, s).wm[s].unmapped = sv.wm[s].unmapped
         /\ Map(sv, s).wm[s].place = sv.wm[s].place
         /\ Map(sv, s).win[s].mapped \/ (Map(sv, s).wm[s].map /\ ~sv.win[s].override)
         /\ ~sv.win[s].override => Map(sv, s).win[s].mapped = sv.win[s].mapped
<1>0. /\ sv.win[s] \in WindowRecords /\ sv.win \in [Overlays -> WindowRecords]
      /\ sv.wm[s] \in RequestRecords /\ sv.wm \in [Overlays -> RequestRecords]
      /\ sv.news.level >= sv.news.level
  BY ServerParts
<1>1. CASE sv.win[s].mapped
  <2>1. Map(sv, s) = sv
    BY <1>1 DEF Map
  <2>2. Spares(sv, sv, s)
    BY <1>0 DEF Spares
  <2>3. PICK r : r = Map(sv, s)
    OBVIOUS
  <2>4. r = sv
    BY <2>1, <2>3
  <2> QED BY <1>1, <2>2, <2>3, <2>4
<1>2. CASE ~sv.win[s].mapped /\ sv.win[s].override
  <2>1. PICK r : r = [sv EXCEPT !.win[s].mapped = TRUE]
    OBVIOUS
  <2>2. Map(sv, s) = r
    BY <1>2, <2>1 DEF Map
  <2>3. /\ r.win = [sv.win EXCEPT ![s] = [@ EXCEPT !.mapped = TRUE]]
        /\ r.wm = sv.wm /\ r.stack = sv.stack /\ r.parent = sv.parent /\ r.news = sv.news
        /\ r = [win |-> r.win, stack |-> r.stack, parent |-> r.parent, wm |-> r.wm, news |-> r.news]
    BY <2>1 DEF Servers
  <2>4. /\ r.win[s].mapped = TRUE /\ r.win[s].override = sv.win[s].override
        /\ r.win[s].managed = sv.win[s].managed /\ r.win[s].geom = sv.win[s].geom
        /\ r.win[s].made = sv.win[s].made /\ r.win \in [Overlays -> WindowRecords]
        /\ \A t \in Overlays : t # s => r.win[t] = sv.win[t]
    <3>1. PICK w : w = [sv.win[s] EXCEPT !.mapped = TRUE]
      OBVIOUS
    <3>2. /\ w \in WindowRecords /\ w.mapped = TRUE /\ w.override = sv.win[s].override
          /\ w.managed = sv.win[s].managed /\ w.geom = sv.win[s].geom /\ w.made = sv.win[s].made
      BY <3>1, <1>0 DEF WindowRecords
    <3>3. r.win = [sv.win EXCEPT ![s] = w]
      BY <3>1, <2>3
    <3>4. r.win[s] = w
      BY <3>3, <1>0
    <3> QED BY <3>2, <3>3, <3>4, <1>0
  <2>5. r \in Servers
    BY <2>3, <2>4, ServerParts DEF Servers
  <2>6. Spares(sv, r, s)
    BY <1>0, <2>3, <2>4, <2>5 DEF Spares, Above
  <2> QED BY <1>2, <2>2, <2>3, <2>4, <2>6
<1>3. CASE ~sv.win[s].mapped /\ ~sv.win[s].override
  <2>1. PICK r : r = [sv EXCEPT !.wm[s].map = TRUE]
    OBVIOUS
  <2>2. Map(sv, s) = r
    BY <1>3, <2>1 DEF Map
  <2>3. /\ r.wm = [sv.wm EXCEPT ![s] = [@ EXCEPT !.map = TRUE]]
        /\ r.win = sv.win /\ r.stack = sv.stack /\ r.parent = sv.parent /\ r.news = sv.news
        /\ r = [win |-> r.win, stack |-> r.stack, parent |-> r.parent, wm |-> r.wm, news |-> r.news]
    BY <2>1 DEF Servers
  <2>4. /\ r.wm[s].map = TRUE /\ r.wm[s].unmapped = sv.wm[s].unmapped
        /\ r.wm[s].place = sv.wm[s].place /\ r.wm \in [Overlays -> RequestRecords]
        /\ \A t \in Overlays : t # s => r.wm[t] = sv.wm[t]
    BY <2>3, <1>0 DEF RequestRecords
  <2>5. r \in Servers
    BY <2>3, <2>4, ServerParts DEF Servers
  <2>6. Spares(sv, r, s)
    BY <1>0, <2>3, <2>4, <2>5 DEF Spares, Above
  <2> QED BY <1>3, <2>2, <2>3, <2>4, <2>6
<1> QED BY <1>1, <1>2, <1>3

LEMMA OnTopIs ==
  ASSUME NEW sv \in Servers, NEW s \in Overlays
  PROVE  /\ OnTop(sv, s) \in Stacks /\ <<s, "parent">> \in OnTop(sv, s)
         /\ \A t \in Overlays : t # s => (<<t, "parent">> \in OnTop(sv, s) <=> Above(sv, t))
<1>1. "parent" \notin Overlays /\ s # "parent"
  BY X11Assumption
<1>2. Windows(sv) \subseteq Overlays \cup {"parent"} /\ "parent" \in Windows(sv)
  BY DEF Windows
<1>3. sv.stack \in Stacks
  BY ServerParts
<1>4. PICK low : low = {p \in sv.stack : p[1] # s /\ p[2] # s}
  OBVIOUS
<1>5. PICK top : top = {<<s, w>> : w \in Windows(sv) \ {s}}
  OBVIOUS
<1>6. OnTop(sv, s) = low \cup top
  BY <1>4, <1>5 DEF OnTop
<1>7. low \in Stacks /\ top \in Stacks
  BY <1>2, <1>3, <1>4, <1>5 DEF Stacks
<1>8. <<s, "parent">> \in top
  BY <1>1, <1>2, <1>5
<1>9. ASSUME NEW t \in Overlays, t # s PROVE <<t, "parent">> \in low \cup top <=> Above(sv, t)
  <2>1. <<t, "parent">> \notin top
    BY <1>5, <1>9
  <2>2. <<t, "parent">>[1] = t /\ <<t, "parent">>[2] = "parent"
    OBVIOUS
  <2>3. <<t, "parent">> \in low <=> <<t, "parent">> \in sv.stack
    BY <1>1, <1>4, <1>9, <2>2
  <2> QED BY <2>1, <2>3 DEF Above
<1> QED BY <1>6, <1>7, <1>8, <1>9 DEF Stacks

LEMMA StackedIs ==
  ASSUME NEW sv \in Servers, NEW stack \in Stacks
  PROVE  /\ Stacked(sv, stack) \in Servers /\ Stacked(sv, stack).stack = stack
         /\ Stacked(sv, stack).win = sv.win /\ Stacked(sv, stack).wm = sv.wm
         /\ Stacked(sv, stack).parent = sv.parent
         /\ Stacked(sv, stack).news.parent = sv.news.parent
         /\ Stacked(sv, stack).news.level >= sv.news.level
<1>1. PICK r : r = Stacked(sv, stack)
  OBVIOUS
<1>2. CASE stack = sv.stack
  <2>1. r = sv
    BY <1>1, <1>2 DEF Stacked
  <2> QED BY <1>1, <1>2, <2>1, ServerParts
<1>3. CASE stack # sv.stack
  <2>1. PICK m : m = [sv EXCEPT !.stack = stack]
    OBVIOUS
  <2>2. /\ m.stack = stack /\ m.win = sv.win /\ m.wm = sv.wm /\ m.parent = sv.parent
        /\ m.news = sv.news /\ m \in Servers
    BY <2>1 DEF Servers
  <2>3. r = Telling(m, Reconcile)
    BY <1>1, <1>3, <2>1 DEF Stacked
  <2> QED BY <1>1, <2>2, <2>3, TellingIs DEF Reconcile
<1> QED BY <1>2, <1>3

LEMMA RaiseIs ==
  ASSUME NEW sv \in Servers, NEW s \in Overlays
  PROVE  /\ Spares(sv, Raise(sv, s), s)
         /\ Raise(sv, s).win = sv.win /\ Raise(sv, s).wm = sv.wm
         /\ sv.win[s].override => Above(Raise(sv, s), s)
<1>1. PICK r : r = Raise(sv, s)
  OBVIOUS
<1>2. CASE ~sv.win[s].override
  <2>1. r = sv
    BY <1>1, <1>2 DEF Raise
  <2>2. Spares(sv, sv, s)
    BY ServerParts DEF Spares
  <2> QED BY <1>1, <1>2, <2>1, <2>2
<1>3. CASE sv.win[s].override
  <2>1. PICK top : top = OnTop(sv, s)
    OBVIOUS
  <2>2. /\ top \in Stacks /\ <<s, "parent">> \in top
        /\ \A t \in Overlays : t # s => (<<t, "parent">> \in top <=> Above(sv, t))
    BY <2>1, OnTopIs
  <2>3. r = Stacked(sv, top)
    BY <1>1, <1>3, <2>1 DEF Raise
  <2>4. /\ r \in Servers /\ r.stack = top /\ r.win = sv.win /\ r.wm = sv.wm
        /\ r.parent = sv.parent /\ r.news.parent = sv.news.parent
        /\ r.news.level >= sv.news.level
    BY <2>2, <2>3, StackedIs
  <2>5. Above(r, s) /\ \A t \in Overlays : t # s => (Above(r, t) <=> Above(sv, t))
    BY <2>2, <2>4 DEF Above
  <2>6. Spares(sv, r, s)
    BY <2>4, <2>5 DEF Spares
  <2> QED BY <1>1, <2>4, <2>5, <2>6
<1> QED BY <1>2, <1>3, ServerParts DEF WindowRecords

LEMMA PlaceIs ==
  ASSUME NEW sv \in Servers, NEW s \in Overlays, NEW g \in Geoms
  PROVE  /\ Spares(sv, PlaceAndSize(sv, s, g), s)
         /\ PlaceAndSize(sv, s, g).stack = sv.stack
         /\ PlaceAndSize(sv, s, g).win[s].mapped = sv.win[s].mapped
         /\ PlaceAndSize(sv, s, g).win[s].override = sv.win[s].override
         /\ PlaceAndSize(sv, s, g).win[s].managed = sv.win[s].managed
         /\ PlaceAndSize(sv, s, g).wm[s].unmapped = sv.wm[s].unmapped
         /\ PlaceAndSize(sv, s, g).wm[s].map = sv.wm[s].map
         /\ \/ PlaceAndSize(sv, s, g).win[s].geom = g
            \/ PlaceAndSize(sv, s, g).wm[s].place = g /\ ~sv.win[s].override
<1>0. /\ sv.win[s] \in WindowRecords /\ sv.win \in [Overlays -> WindowRecords]
      /\ sv.wm[s] \in RequestRecords /\ sv.wm \in [Overlays -> RequestRecords]
      /\ sv.news.level >= sv.news.level
  BY ServerParts
<1>a. PICK r : r = PlaceAndSize(sv, s, g)
  OBVIOUS
<1>1. CASE ~sv.win[s].override
  <2>1. r = [sv EXCEPT !.wm[s].place = g]
    BY <1>a, <1>1 DEF PlaceAndSize
  <2>3. /\ r.wm = [sv.wm EXCEPT ![s] = [@ EXCEPT !.place = g]]
        /\ r.win = sv.win /\ r.stack = sv.stack /\ r.parent = sv.parent /\ r.news = sv.news
        /\ r = [win |-> r.win, stack |-> r.stack, parent |-> r.parent, wm |-> r.wm, news |-> r.news]
    BY <2>1 DEF Servers
  <2>4. /\ r.wm[s].place = g /\ r.wm[s].unmapped = sv.wm[s].unmapped
        /\ r.wm[s].map = sv.wm[s].map /\ r.wm \in [Overlays -> RequestRecords]
        /\ \A t \in Overlays : t # s => r.wm[t] = sv.wm[t]
    BY <2>3, <1>0 DEF RequestRecords
  <2>5. r \in Servers
    BY <2>3, <2>4, ServerParts DEF Servers
  <2>6. Spares(sv, r, s)
    BY <1>0, <2>3, <2>4, <2>5 DEF Spares, Above
  <2> QED BY <1>a, <1>1, <2>3, <2>4, <2>6
<1>2. CASE sv.win[s].override /\ sv.win[s].geom = g
  <2>1. r = sv
    BY <1>a, <1>2 DEF PlaceAndSize
  <2>2. Spares(sv, sv, s)
    BY <1>0 DEF Spares
  <2> QED BY <1>a, <1>2, <2>1, <2>2
<1>3. CASE sv.win[s].override /\ sv.win[s].geom # g
  <2>1. PICK m : m = [sv EXCEPT !.win[s].geom = g]
    OBVIOUS
  <2>2. r = Telling(m, Reconcile)
    BY <1>a, <1>3, <2>1 DEF PlaceAndSize
  <2>3. /\ m.win = [sv.win EXCEPT ![s] = [@ EXCEPT !.geom = g]]
        /\ m.wm = sv.wm /\ m.stack = sv.stack /\ m.parent = sv.parent /\ m.news = sv.news
        /\ m = [win |-> m.win, stack |-> m.stack, parent |-> m.parent, wm |-> m.wm, news |-> m.news]
    BY <2>1 DEF Servers
  <2>4. /\ m.win[s].mapped = sv.win[s].mapped /\ m.win[s].override = sv.win[s].override
        /\ m.win[s].managed = sv.win[s].managed /\ m.win[s].geom = g
        /\ m.win[s].made = sv.win[s].made /\ m.win \in [Overlays -> WindowRecords]
        /\ \A t \in Overlays : t # s => m.win[t] = sv.win[t]
    BY <2>3, <1>0 DEF WindowRecords
  <2>5. m \in Servers
    BY <2>3, <2>4, ServerParts DEF Servers
  <2>6. /\ r \in Servers /\ r.win = m.win /\ r.stack = m.stack /\ r.parent = m.parent
        /\ r.wm = m.wm /\ r.news.parent = m.news.parent /\ r.news.level >= m.news.level
    BY <2>2, <2>5, TellingIs DEF Reconcile
  <2>7. Spares(sv, r, s)
    BY <2>3, <2>4, <2>6 DEF Spares, Above
  <2> QED BY <1>a, <2>3, <2>4, <2>6, <2>7
<1> QED BY <1>0, <1>1, <1>2, <1>3 DEF WindowRecords

(* A step of the state machine: what it does to the window, given what the *)
(* thread takes it to be.                                                  *)
LEMMA StepIs ==
  ASSUME NEW sv \in Servers, NEW s \in Overlays, ShownAbove(sv, s),
         xo_work.geom \in Geoms, xo_work.fullscreen \in BOOLEAN, xo_fsm[s].unmanaged \in BOOLEAN,
         sv.win[s].override = xo_fsm[s].unmanaged
  PROVE  /\ Spares(sv, StepOverlay(sv, s), s)
         /\ ShownAbove(StepOverlay(sv, s), s)
         /\ StepOverlay(sv, s).win[s].override = xo_work.fullscreen
         /\ Wanted(s) /\ (StillMapped(s) => sv.win[s].mapped /\ xo_seen.geom = sv.win[s].geom) =>
              /\ \/ StepOverlay(sv, s).win[s].mapped
                 \/ StepOverlay(sv, s).wm[s].map /\ ~xo_work.fullscreen
              /\ \/ StepOverlay(sv, s).win[s].geom = xo_work.geom
                 \/ StepOverlay(sv, s).wm[s].place = xo_work.geom /\ ~xo_work.fullscreen
         /\ Wanted(s) /\ xo_work.fullscreen /\ (StillMapped(s) => Above(sv, s)) =>
              Above(StepOverlay(sv, s), s)
<1>1. PICK flipped : flipped = IF Flips(s) THEN SetOverrideRedirect(sv, s, xo_work.fullscreen) ELSE sv
  OBVIOUS
<1>2. /\ Spares(sv, flipped, s) /\ ShownAbove(flipped, s)
      /\ flipped.win[s].override = xo_work.fullscreen
      /\ ~Flips(s) => flipped = sv
  <2>1. CASE Flips(s)
    <3>1. flipped = SetOverrideRedirect(sv, s, xo_work.fullscreen)
      BY <1>1, <2>1
    <3> QED BY <2>1, <3>1, OverrideIs DEF ShownAbove
  <2>2. CASE ~Flips(s)
    <3>1. flipped = sv
      BY <1>1, <2>2
    <3>2. Spares(sv, sv, s)
      BY ServerParts DEF Spares
    <3> QED BY <2>2, <3>1, <3>2 DEF Flips
  <2> QED BY <2>1, <2>2
<1>3. flipped \in Servers
  BY <1>2 DEF Spares
<1>4. PICK wed : wed = Map(flipped, s)
  OBVIOUS
<1>5. /\ Spares(flipped, wed, s) /\ ShownAbove(wed, s) /\ wed.win[s].override = xo_work.fullscreen
      /\ wed.win[s].mapped \/ (wed.wm[s].map /\ ~xo_work.fullscreen)
  <2>1. /\ Spares(flipped, wed, s) /\ wed.win[s].override = flipped.win[s].override
        /\ wed.win[s].managed = flipped.win[s].managed
        /\ wed.wm[s].unmapped = flipped.wm[s].unmapped
        /\ wed.win[s].mapped \/ (wed.wm[s].map /\ ~flipped.win[s].override)
        /\ ~flipped.win[s].override => wed.win[s].mapped = flipped.win[s].mapped
    BY <1>3, <1>4, MapIs
  <2>2. Above(flipped, s) => Above(wed, s)
    BY <2>1 DEF Spares
  <2>3. ShownAbove(wed, s)
    BY <1>2, <2>1, <2>2 DEF ShownAbove
  <2> QED BY <1>2, <2>1, <2>3
<1>6. wed \in Servers
  BY <1>5 DEF Spares
<1>7. PICK high : high = Raise(wed, s)
  OBVIOUS
<1>8. /\ Spares(wed, high, s) /\ ShownAbove(high, s) /\ high.win[s] = wed.win[s]
      /\ high.wm[s] = wed.wm[s] /\ (xo_work.fullscreen => Above(high, s))
  <2>1. /\ Spares(wed, high, s) /\ high.win = wed.win /\ high.wm = wed.wm
        /\ wed.win[s].override => Above(high, s)
    BY <1>6, <1>7, RaiseIs
  <2>2. Above(wed, s) => Above(high, s)
    BY <2>1 DEF Spares
  <2> QED BY <1>5, <2>1, <2>2 DEF ShownAbove
<1>9. PICK mapped : mapped = IF StillMapped(s) THEN flipped ELSE high
  OBVIOUS
<1>10. /\ Spares(sv, mapped, s) /\ ShownAbove(mapped, s)
       /\ mapped.win[s].override = xo_work.fullscreen
       /\ StillMapped(s) => mapped = sv
       /\ ~StillMapped(s) => /\ mapped.win[s].mapped \/ (mapped.wm[s].map /\ ~xo_work.fullscreen)
                             /\ xo_work.fullscreen => Above(mapped, s)
  <2>1. CASE StillMapped(s)
    <3>1. mapped = flipped /\ ~Flips(s)
      BY <1>9, <2>1 DEF StillMapped
    <3> QED BY <1>2, <2>1, <3>1
  <2>2. CASE ~StillMapped(s)
    <3>1. mapped = high
      BY <1>9, <2>2
    <3>2. Spares(sv, wed, s)
      BY <1>2, <1>5, SparesAll
    <3>3. Spares(sv, high, s)
      BY <3>2, <1>8, SparesAll
    <3> QED BY <1>5, <1>8, <2>2, <3>1, <3>3
  <2> QED BY <2>1, <2>2
<1>11. mapped \in Servers
  BY <1>10 DEF Spares
<1>12. PICK r : r = StepOverlay(sv, s)
  OBVIOUS
<1>13. CASE Wanted(s) /\ StillMapped(s) /\ xo_seen.geom = xo_work.geom
  <2>1. r = mapped
    BY <1>1, <1>4, <1>7, <1>9, <1>12, <1>13 DEF StepOverlay
  <2>2. r = sv
    BY <1>10, <1>13, <2>1
  <2> QED BY <1>10, <1>12, <1>13, <2>1, <2>2
<1>14. CASE Wanted(s) /\ ~(StillMapped(s) /\ xo_seen.geom = xo_work.geom)
  <2>1. r = PlaceAndSize(mapped, s, xo_work.geom)
    BY <1>1, <1>4, <1>7, <1>9, <1>12, <1>14 DEF StepOverlay
  <2>2. /\ Spares(mapped, r, s) /\ r.stack = mapped.stack
        /\ r.win[s].mapped = mapped.win[s].mapped /\ r.win[s].override = mapped.win[s].override
        /\ r.win[s].managed = mapped.win[s].managed
        /\ r.wm[s].unmapped = mapped.wm[s].unmapped /\ r.wm[s].map = mapped.wm[s].map
        /\ \/ r.win[s].geom = xo_work.geom
           \/ r.wm[s].place = xo_work.geom /\ ~mapped.win[s].override
    BY <1>11, <2>1, PlaceIs
  <2>3. Spares(sv, r, s)
    BY <1>10, <2>2, SparesAll
  <2>4. ShownAbove(r, s)
    BY <1>10, <2>2 DEF ShownAbove, Above
  <2>5. Above(mapped, s) => Above(r, s)
    BY <2>2 DEF Spares
  <2> QED BY <1>10, <1>12, <1>14, <2>2, <2>3, <2>4, <2>5
<1>15. CASE ~Wanted(s) /\ StillMapped(s)
  <2>1. r = Unmap(flipped, s)
    BY <1>1, <1>12, <1>15 DEF StepOverlay
  <2>2. Spares(flipped, r, s) /\ ~r.win[s].mapped /\ r.win[s].override = flipped.win[s].override
    BY <1>3, <2>1, UnmapIs
  <2>3. Spares(sv, r, s)
    BY <1>2, <2>2, SparesAll
  <2> QED BY <1>2, <1>12, <1>15, <2>2, <2>3 DEF ShownAbove
<1>16. CASE ~Wanted(s) /\ ~StillMapped(s)
  <2>1. r = flipped
    BY <1>1, <1>12, <1>16 DEF StepOverlay
  <2> QED BY <1>2, <1>12, <1>16, <2>1
<1> QED BY <1>13, <1>14, <1>15, <1>16

-----------------------------------------------------------------------------

LEMMA OverlayInitInv == OverlayInit => OverlayInv
<1> SUFFICES ASSUME OverlayInit PROVE OverlayInv
  OBVIOUS
<1> USE DEF OverlayInit
<1>1. ServerTyped
  <2>1. NoWindow \in WindowRecords /\ NoRequest \in RequestRecords /\ NoNews \in NewsRecords
    BY DEF NoWindow, WindowRecords, NoRequest, RequestRecords, NoNews, NewsRecords, Geoms
  <2>2. [geom |-> "window", fullscreen |-> FALSE, mapped |-> TRUE] \in ParentRecords
    BY DEF ParentRecords, Geoms
  <2>3. {} \in Stacks
    BY DEF Stacks
  <2> QED BY <2>1, <2>2, <2>3 DEF ServerTyped, Servers, Restack
<1>2. CefTyped
  <2>1. xo_surface \in [Overlays -> {"unborn", "live", "freed"}]
    OBVIOUS
  <2>2. xo_visible \in [Overlays -> BOOLEAN] /\ xo_asked \in [Overlays -> BOOLEAN]
    OBVIOUS
  <2>3. xo_ops \in 0..MaxSurfaceOps /\ xo_moves \in 0..MaxParentMoves
    BY X11Assumption
  <2> QED BY <2>1, <2>2, <2>3 DEF CefTyped
<1>3. ThreadTyped
  BY DEF ThreadTyped, NotSeen, Geoms
<1>4. QueueTyped
  BY DEF QueueTyped
<1>5. Places
  <2>1. ~xo_resync /\ xo_commands = <<>> /\ xo_batch = <<>> /\ xo_todo = <<>> /\ xo_at = "loop"
    OBVIOUS
  <2> QED BY <2>1 DEF Places
<1>6. \A s \in Overlays : ~Has(s)
  BY DEF Has, NoWindow
<1>7. Owned
  <2>1. ToSet(<<>>) = {}
    BY DEF ToSet
  <2>2. xo_order = <<>> /\ xo_todo = <<>>
    OBVIOUS
  <2> QED BY <1>6, <2>1, <2>2 DEF Owned
<1>8. Lives
  <2>1. Underway = <<>>
    <3>1. <<>> \in Seq(OverlayCommands)
      OBVIOUS
    <3>2. <<>> \o <<>> = <<>>
      BY <3>1, ConcatEmptySeq
    <3> QED BY <3>2 DEF Underway, Joined
  <2>2. \A s \in Overlays : LifeOf(s, <<>>, "unborn", FALSE)
    BY DEF LifeOf, Birth, Death
  <2> QED BY <1>6, <2>1, <2>2 DEF Lives, Has, NoWindow
<1>9. Unmade
  BY DEF Unmade, Has
<1>10. ParentKnown
  BY DEF ParentKnown, Owes, Restack
<1>11. MappedKnown
  BY DEF MappedKnown, KnowsMapped, Leveled, NoNews
<1>12. Overridden /\ ManagedAbove
  BY DEF Overridden, ManagedAbove, ShownAbove, NoWindow
<1>13. RaisedAbove /\ Settled
  BY <1>6 DEF RaisedAbove, Settled, Lively
<1>14. Fresh
  BY DEF Fresh
<1> QED BY <1>1, <1>2, <1>3, <1>4, <1>5, <1>7, <1>8, <1>9, <1>10, <1>11, <1>12, <1>13, <1>14
        DEF OverlayInv
-----------------------------------------------------------------------------
(* The CEF thread, and its commands on their way.                          *)

(* What the thread and the server are like does not depend on them.        *)
LEMMA ServerStays ==
  ASSUME OverlayInv, UNCHANGED <<xo_work, xo_order, xo_fsm, xo_todo, xo_seen,
                                 xo_pending, xo_parsed, xo_server, xo_moves>>,
         xo_at' = xo_at \/ xo_at' = "commands"
  PROVE  /\ ServerTyped' /\ Owned' /\ Unmade' /\ ParentKnown' /\ MappedKnown'
         /\ Overridden' /\ ManagedAbove' /\ Fresh' /\ (ThreadTyped)'
<1>1. ServerTyped'
  BY DEF OverlayInv, ServerTyped
<1>2. Owned'
  BY DEF OverlayInv, Owned, Has
<1>3. Unmade'
  BY DEF OverlayInv, Unmade, Has
<1>4. ParentKnown' /\ MappedKnown'
  BY DEF OverlayInv, ParentKnown, MappedKnown, Owes
<1>5. Overridden' /\ ManagedAbove'
  BY DEF OverlayInv, Overridden, ManagedAbove
<1>6. Fresh'
  BY DEF OverlayInv, Fresh, Owes
<1>7. ThreadTyped'
  BY DEF OverlayInv, ThreadTyped
<1> QED BY <1>1, <1>2, <1>3, <1>4, <1>5, <1>6, <1>7

LEMMA HandStep ==
  ASSUME OverlayInv, xo_hand = <<>>, NEW c \in OverlayCommands, xo_hand' = <<c>>,
         CefKeeps, CefTyped',
         \A s \in Overlays :
           \/ xo_surface'[s] = xo_surface[s] /\ ~(c.op \in {"create", "destroy"} /\ c.id = s)
           \/ xo_surface[s] = "unborn" /\ xo_surface'[s] = "live" /\ c.op = "create" /\ c.id = s
           \/ xo_surface[s] = "live" /\ xo_surface'[s] = "freed" /\ c.op = "destroy" /\ c.id = s
  PROVE  OverlayInv'
<1>1. /\ ServerTyped' /\ Owned' /\ Unmade' /\ ParentKnown' /\ MappedKnown'
      /\ Overridden' /\ ManagedAbove' /\ Fresh' /\ ThreadTyped'
  BY ServerStays DEF CefKeeps, xothread
<1>2. UNCHANGED <<xo_commands, xo_batch, xo_resync, xo_at, xo_todo, xo_server>>
  BY DEF CefKeeps, xothread, xoqueue
<1>3. QueueTyped'
  BY <1>2 DEF OverlayInv, QueueTyped
<1>4. Places'
  BY <1>2 DEF OverlayInv, Places
<1>5. Requested'
  BY DEF Requested
<1>6. RaisedAbove' /\ Settled'
  BY <1>5 DEF RaisedAbove, Settled
<1>7. Lives'
  <2>1. PICK q : q = Underway
    OBVIOUS
  <2>2. PICK b : b = xo_batch \o xo_commands
    OBVIOUS
  <2>3. b \in Seq(OverlayCommands)
    BY <2>2, ConcatProperties DEF OverlayInv, QueueTyped
  <2>4. q = b \o <<>>
    BY <2>1, <2>2 DEF Underway, Joined
  <2>5. q \in Seq(OverlayCommands)
    BY <2>3, <2>4, ConcatEmptySeq
  <2>6. Underway' = Append(q, c)
    BY <1>2, <2>2, <2>3, <2>4, Extended DEF Underway, Joined
  <2>7. ASSUME NEW s \in Overlays PROVE LifeOf(s, Append(q, c), xo_surface'[s], Has(s))
    <3>1. LifeOf(s, q, xo_surface[s], Has(s))
      BY <2>1 DEF OverlayInv, Lives
    <3>2. Has(s) \in BOOLEAN
      BY ServerParts DEF OverlayInv, ServerTyped, Has, WindowRecords
    <3>3. CASE xo_surface'[s] = xo_surface[s] /\ ~(c.op \in {"create", "destroy"} /\ c.id = s)
      BY <2>5, <3>1, <3>3, QueueOther
    <3>4. CASE xo_surface[s] = "unborn" /\ xo_surface'[s] = "live" /\ c.op = "create" /\ c.id = s
      BY <2>5, <3>1, <3>2, <3>4, QueueBirth
    <3>5. CASE xo_surface[s] = "live" /\ xo_surface'[s] = "freed" /\ c.op = "destroy" /\ c.id = s
      BY <2>5, <3>1, <3>2, <3>5, QueueDeath
    <3> QED BY <3>3, <3>4, <3>5
  <2>8. \A s \in Overlays : Has(s)' = Has(s)
    BY <1>2 DEF Has
  <2> QED BY <2>6, <2>7, <2>8 DEF Lives
<1> QED BY <1>1, <1>3, <1>4, <1>6, <1>7 DEF OverlayInv

LEMMA AllocFreeStep ==
  ASSUME OverlayInv, NEW s \in Overlays, AllocOverlay(s) \/ FreeOverlay(s)
  PROVE  OverlayInv'
<1>1. CASE AllocOverlay(s)
  <2>1. PICK c : c = [op |-> "create", id |-> s]
    OBVIOUS
  <2>2. c \in OverlayCommands /\ c.op = "create" /\ c.id = s
    BY <2>1 DEF OverlayCommands
  <2>3. CefTyped'
    BY <1>1, X11Assumption DEF OverlayInv, CefTyped, AllocOverlay, CefActs, CefKeeps, xoqueue
  <2>4. /\ xo_hand = <<>> /\ xo_hand' = <<c>> /\ CefKeeps
        /\ xo_surface[s] = "unborn" /\ xo_surface' = [xo_surface EXCEPT ![s] = "live"]
    BY <1>1, <2>1 DEF AllocOverlay, CefActs
  <2>5. \A t \in Overlays : xo_surface'[t] = IF t = s THEN "live" ELSE xo_surface[t]
    BY <2>4 DEF OverlayInv, CefTyped
  <2> QED BY <2>2, <2>3, <2>4, <2>5, HandStep
<1>2. CASE FreeOverlay(s)
  <2>1. PICK c : c = [op |-> "destroy", id |-> s]
    OBVIOUS
  <2>2. c \in OverlayCommands /\ c.op = "destroy" /\ c.id = s
    BY <2>1 DEF OverlayCommands
  <2>3. CefTyped'
    BY <1>2, X11Assumption DEF OverlayInv, CefTyped, FreeOverlay, CefActs, CefKeeps, xoqueue
  <2>4. /\ xo_hand = <<>> /\ xo_hand' = <<c>> /\ CefKeeps
        /\ xo_surface[s] = "live" /\ xo_surface' = [xo_surface EXCEPT ![s] = "freed"]
    BY <1>2, <2>1 DEF FreeOverlay, CefActs
  <2>5. \A t \in Overlays : xo_surface'[t] = IF t = s THEN "freed" ELSE xo_surface[t]
    BY <2>4 DEF OverlayInv, CefTyped
  <2> QED BY <2>2, <2>3, <2>4, <2>5, HandStep
<1> QED BY <1>1, <1>2

LEMMA VisibleStep ==
  ASSUME OverlayInv, NEW s \in Overlays, NEW v \in BOOLEAN, SetOverlayVisible(s, v)
  PROVE  OverlayInv'
<1>1. CefTyped'
  BY X11Assumption DEF OverlayInv, CefTyped, SetOverlayVisible, CefActs, CefKeeps, xoqueue
<1>2. CASE xo_visible[s] # v
  <2>1. PICK c : c = [op |-> "visible", id |-> s, visible |-> v]
    OBVIOUS
  <2>2. c \in OverlayCommands /\ c.op = "visible"
    BY <2>1 DEF OverlayCommands
  <2>3. xo_hand = <<>> /\ xo_hand' = <<c>> /\ CefKeeps /\ xo_surface' = xo_surface
    BY <1>2, <2>1 DEF SetOverlayVisible, CefActs
  <2> QED BY <1>1, <2>2, <2>3, HandStep
<1>3. CASE xo_visible[s] = v
  <2>1. /\ xo_hand = <<>> /\ xo_hand' = <<>> /\ CefKeeps /\ xo_surface' = xo_surface
        /\ xo_visible' = xo_visible
    BY <1>3 DEF SetOverlayVisible, CefActs, OverlayInv, CefTyped
  <2>2. UNCHANGED <<xo_hand, xo_commands, xo_batch, xo_resync, xo_at, xo_todo, xo_server,
                    xo_work, xo_fsm, xo_pending, xo_parsed, xo_visible, xo_surface>>
    BY <2>1 DEF CefKeeps, xothread, xoqueue
  <2>3. /\ ServerTyped' /\ Owned' /\ Unmade' /\ ParentKnown' /\ MappedKnown'
        /\ Overridden' /\ ManagedAbove' /\ Fresh' /\ ThreadTyped'
    BY <2>1, ServerStays DEF CefKeeps, xothread
  <2>4. QueueTyped' /\ Places'
    BY <2>2 DEF OverlayInv, QueueTyped, Places
  <2>5. Lives'
    BY <2>2 DEF OverlayInv, Lives, Underway, Joined, Has
  <2>6. RaisedAbove'
    BY <2>2 DEF OverlayInv, RaisedAbove, Lively, Has, Wanted, Owes, Requested, Left
  <2>7. Settled'
    BY <2>2 DEF OverlayInv, Settled, Lively, Has, Wanted, Owes, Requested, Left, InPlace
  <2> QED BY <1>1, <2>3, <2>4, <2>5, <2>6, <2>7 DEF OverlayInv
<1> QED BY <1>2, <1>3

LEMMA OrderStep ==
  ASSUME OverlayInv, OrderOverlays
  PROVE  OverlayInv'
<1>1. PICK ids \in SetToSeqs({s \in Overlays : xo_surface[s] = "live"}) :
        ids # <<>> /\ xo_hand' = <<[op |-> "order", ids |-> ids]>>
  BY DEF OrderOverlays
<1>2. ids \in Seq(Overlays)
  <2>1. PICK L : L = {s \in Overlays : xo_surface[s] = "live"}
    OBVIOUS
  <2>2. L \in SUBSET Overlays
    BY <2>1
  <2>3. IsFiniteSet(L)
    BY <2>2, X11Assumption, FS_Subset
  <2>4. Cardinality(L) \in Nat
    BY <2>3, FS_CardinalityType
  <2>5. ids \in [1..Cardinality(L) -> L]
    BY <1>1, <2>1 DEF SetToSeqs
  <2> QED BY <2>2, <2>4, <2>5
<1>3. PICK c : c = [op |-> "order", ids |-> ids]
  OBVIOUS
<1>4. c \in OverlayCommands /\ c.op = "order"
  BY <1>2, <1>3 DEF OverlayCommands
<1>5. CefTyped'
  BY X11Assumption DEF OverlayInv, CefTyped, OrderOverlays, CefActs, CefKeeps, xoqueue
<1>6. xo_hand = <<>> /\ xo_hand' = <<c>> /\ CefKeeps /\ xo_surface' = xo_surface
  BY <1>1, <1>3 DEF OrderOverlays, CefActs
<1> QED BY <1>4, <1>5, <1>6, HandStep

LEMMA QueueStep ==
  ASSUME OverlayInv, EnqueueCommand \/ OnResync
  PROVE  OverlayInv'
<1>1. /\ UNCHANGED <<xo_surface, xo_visible, xo_asked, xo_ops, xo_work, xo_order, xo_fsm,
                     xo_todo, xo_seen, xo_pending, xo_parsed, xo_server, xo_moves>>
      /\ xo_at' = xo_at \/ xo_at' = "commands"
  BY DEF EnqueueCommand, OnResync, xothread, xocef
<1>2. /\ ServerTyped' /\ Owned' /\ Unmade' /\ ParentKnown' /\ MappedKnown'
      /\ Overridden' /\ ManagedAbove' /\ Fresh' /\ ThreadTyped'
  BY <1>1, ServerStays
<1>3. CefTyped'
  BY <1>1 DEF OverlayInv, CefTyped, EnqueueCommand, OnResync
<1>4. CASE EnqueueCommand
  <2>1. /\ xo_hand # <<>> /\ xo_hand' = <<>> /\ xo_commands' = xo_commands \o xo_hand
        /\ xo_resync' = TRUE /\ UNCHANGED <<xo_at, xo_batch, xo_todo>>
    BY <1>4 DEF EnqueueCommand, xothread
  <2>2. /\ xo_commands \in Seq(OverlayCommands) /\ xo_hand \in Seq(OverlayCommands)
        /\ xo_batch \in Seq(OverlayCommands)
    BY DEF OverlayInv, QueueTyped
  <2>3. xo_commands' \in Seq(OverlayCommands) /\ xo_commands' # <<>>
    <3>1. xo_commands' \in Seq(OverlayCommands)
      BY <2>1, <2>2, ConcatProperties
    <3>2. xo_commands \o xo_hand = <<>> => xo_hand = <<>>
      BY <2>2, ConcatSimplifications, Zenon
    <3> QED BY <2>1, <3>1, <3>2
  <2>4. QueueTyped' /\ Places'
    BY <2>1, <2>2, <2>3 DEF OverlayInv, QueueTyped, Places
  <2>5. Underway' = Underway
    BY <2>1, <2>2, Regrouped DEF Underway, Joined
  <2>6. Lives'
    BY <1>1, <2>5 DEF OverlayInv, Lives, Has
  <2>7. Requested'
    BY <2>3 DEF Requested
  <2>8. RaisedAbove' /\ Settled'
    BY <2>7 DEF RaisedAbove, Settled
  <2> QED BY <1>2, <1>3, <2>4, <2>6, <2>8 DEF OverlayInv
<1>5. CASE OnResync
  <2>1. /\ xo_at = "loop" /\ xo_resync /\ xo_resync' = FALSE /\ xo_commands' = <<>>
        /\ xo_batch' = xo_commands /\ xo_at' = "commands" /\ UNCHANGED <<xo_hand, xo_todo>>
    BY <1>5 DEF OnResync, xocef
  <2>2. /\ xo_commands \in Seq(OverlayCommands) /\ xo_hand \in Seq(OverlayCommands)
        /\ xo_batch = <<>> /\ xo_commands # <<>> /\ xo_todo = <<>>
    BY <2>1 DEF OverlayInv, QueueTyped, Places
  <2>3. QueueTyped' /\ Places'
    BY <2>1, <2>2 DEF OverlayInv, QueueTyped, Places
  <2>4. Underway' = Underway
    BY <2>1, <2>2, Regrouped DEF Underway, Joined
  <2>5. Lives'
    BY <1>1, <2>4 DEF OverlayInv, Lives, Has
  <2>6. Requested'
    BY <2>1, <2>2 DEF Requested
  <2>7. RaisedAbove' /\ Settled'
    BY <2>6 DEF RaisedAbove, Settled
  <2> QED BY <1>2, <1>3, <2>3, <2>5, <2>7 DEF OverlayInv
<1> QED BY <1>4, <1>5

-----------------------------------------------------------------------------

LEMMA LevelsAre ==
  ASSUME NEW n \in NewsRecords
  PROVE  n.level \in 0..3 /\ n.parent \in {"same", "mapped", "unmapped"}
BY DEF NewsRecords

LEMMA RoundTripKnows ==
  ASSUME NEW p \in NewsRecords, NEW n \in NewsRecords, NEW b, NEW m, KnowsMapped(p, n, b, m)
  PROVE  KnowsMapped(Then(p, n), NoNews, b, m)
<1>1. PICK t : t = Then(p, n)
  OBVIOUS
<1>2. /\ t \in NewsRecords /\ t.level >= p.level /\ t.level >= n.level
      /\ t.parent = IF n.parent = "same" THEN p.parent ELSE n.parent
  BY <1>1, ThenIs
<1>3. /\ t.level \in 0..3 /\ p.level \in 0..3 /\ n.level \in 0..3
      /\ NoNews.parent = "same" /\ NoNews.level = 0
  BY <1>2, LevelsAre DEF NoNews
<1>4. KnowsMapped(t, NoNews, b, m)
  BY <1>2, <1>3 DEF KnowsMapped, Leveled, Refocus, Reconcile
<1> QED BY <1>1, <1>4

LEMMA TellKnows ==
  ASSUME NEW p \in NewsRecords, NEW n \in NewsRecords, NEW b, NEW m, KnowsMapped(p, n, b, m),
         NEW t \in NewsRecords, t.parent = n.parent, t.level >= n.level
  PROVE  KnowsMapped(p, t, b, m)
<1>1. t.level \in 0..3 /\ n.level \in 0..3
  BY LevelsAre
<1> QED BY <1>1 DEF KnowsMapped, Leveled, Refocus, Reconcile

(* A round trip on a server that was changed. *)
LEMMA RoundTripIs ==
  ASSUME NEW sv \in Servers, xo_parsed \in NewsRecords, RoundTrip(sv)
  PROVE  /\ xo_server' \in Servers /\ xo_parsed' \in NewsRecords
         /\ xo_server'.win = sv.win /\ xo_server'.stack = sv.stack /\ xo_server'.wm = sv.wm
         /\ xo_server'.parent = sv.parent /\ xo_server'.news = NoNews
         /\ xo_parsed' = Then(xo_parsed, sv.news)
         /\ xo_parsed'.level >= xo_parsed.level /\ xo_parsed'.level >= sv.news.level
         /\ xo_parsed'.level \in {xo_parsed.level, sv.news.level}
<1>1. xo_server' = [sv EXCEPT !.news = NoNews] /\ xo_parsed' = Then(xo_parsed, sv.news)
  BY DEF RoundTrip
<1>2. NoNews \in NewsRecords
  BY DEF NoNews, NewsRecords
<1>3. /\ xo_server'.win = sv.win /\ xo_server'.stack = sv.stack /\ xo_server'.wm = sv.wm
      /\ xo_server'.parent = sv.parent /\ xo_server'.news = NoNews
  BY <1>1 DEF Servers
<1>4. xo_server' \in Servers
  BY <1>1, <1>2 DEF Servers
<1>5. sv.news \in NewsRecords
  BY ServerParts
<1> QED BY <1>1, <1>3, <1>4, <1>5, ThenIs

(* What handling a command makes of what the invariant says of the thread  *)
(* and the server.                                                         *)
MadeBy(c, s) == IF c.op = "create" /\ c.id = s THEN TRUE
                ELSE IF c.op = "destroy" /\ c.id = s THEN FALSE ELSE Has(s)
Handled(c) ==
  /\ xo_server' \in Servers /\ xo_parsed' \in NewsRecords /\ xo_order' \in Seq(Overlays)
  /\ xo_fsm' \in [Overlays -> [mapped : BOOLEAN, unmanaged : BOOLEAN]]
  /\ xo_visible' \in [Overlays -> BOOLEAN]
  /\ \A s \in Overlays : Has(s)' <=> MadeBy(c, s)
  /\ \A s \in Overlays : Has(s)' <=> s \in ToSet(xo_order')
  /\ Unmade' /\ Overridden' /\ ManagedAbove' /\ MappedKnown'
  /\ xo_server'.parent = xo_server.parent
  /\ xo_parsed.level >= Restack \/ xo_server.news.level >= Restack =>
       xo_parsed'.level >= Restack \/ xo_server'.news.level >= Restack

LEMMA CreateIs ==
  ASSUME OverlayInv, NEW c \in OverlayCommands, c.op = "create", HandleCreate(c.id), xo_work' = xo_work
  PROVE  Handled(c)
<1>0. PICK s \in Overlays : s = c.id
  BY DEF OverlayCommands
<1>1. PICK new : new = [NoWindow EXCEPT !.made = TRUE, !.override = xo_work.fullscreen,
                                        !.geom = xo_work.geom]
  OBVIOUS
<1>2. xo_work.fullscreen \in BOOLEAN /\ xo_work.geom \in Geoms
  BY DEF OverlayInv, ThreadTyped
<1>3. /\ new = [made |-> TRUE, mapped |-> FALSE, override |-> xo_work.fullscreen,
                managed |-> FALSE, geom |-> xo_work.geom]
      /\ new \in WindowRecords
  BY <1>1, <1>2 DEF NoWindow, WindowRecords
<1>4. PICK top : top = OnTop(xo_server, s)
  OBVIOUS
<1>5. xo_server \in Servers /\ xo_parsed \in NewsRecords
  BY DEF OverlayInv, ServerTyped
<1>6. /\ top \in Stacks /\ <<s, "parent">> \in top
      /\ \A t \in Overlays : t # s => (<<t, "parent">> \in top <=> Above(xo_server, t))
  BY <1>4, <1>5, OnTopIs
<1>7. PICK m : m = [xo_server EXCEPT !.win[s] = new, !.stack = top]
  OBVIOUS
<1>8. /\ m.win = [xo_server.win EXCEPT ![s] = new] /\ m.stack = top /\ m.wm = xo_server.wm
      /\ m.parent = xo_server.parent /\ m.news = xo_server.news
      /\ m = [win |-> m.win, stack |-> m.stack, parent |-> m.parent, wm |-> m.wm, news |-> m.news]
  BY <1>5, <1>7 DEF Servers
<1>9. m \in Servers
  <2>1. m.win \in [Overlays -> WindowRecords]
    BY <1>3, <1>5, <1>8, ServerParts
  <2> QED BY <2>1, <1>5, <1>6, <1>8, ServerParts DEF Servers
<1>10. RoundTrip(m) /\ xo_visible' = xo_visible /\ xo_order' = Append(xo_order, s)
       /\ xo_fsm' = [xo_fsm EXCEPT ![s] = [mapped |-> FALSE, unmanaged |-> xo_work.fullscreen]]
  BY <1>0, <1>1, <1>4, <1>7 DEF HandleCreate
<1>11. /\ xo_server' \in Servers /\ xo_parsed' \in NewsRecords
       /\ xo_server'.win = m.win /\ xo_server'.stack = m.stack /\ xo_server'.wm = m.wm
       /\ xo_server'.parent = m.parent /\ xo_server'.news = NoNews
       /\ xo_parsed' = Then(xo_parsed, m.news)
       /\ xo_parsed'.level >= xo_parsed.level /\ xo_parsed'.level >= m.news.level
  BY <1>5, <1>9, <1>10, RoundTripIs
<1>12. /\ xo_server'.win[s] = new
       /\ \A t \in Overlays : t # s => xo_server'.win[t] = xo_server.win[t]
       /\ xo_server'.wm = xo_server.wm
  BY <1>5, <1>8, <1>11, ServerParts
<1>13. /\ xo_fsm' \in [Overlays -> [mapped : BOOLEAN, unmanaged : BOOLEAN]]
       /\ xo_fsm'[s] = [mapped |-> FALSE, unmanaged |-> xo_work.fullscreen]
       /\ \A t \in Overlays : t # s => xo_fsm'[t] = xo_fsm[t]
  BY <1>2, <1>10 DEF OverlayInv, ThreadTyped
<1>14. \A t \in Overlays : Has(t)' <=> t = s \/ Has(t)
  BY <1>3, <1>12 DEF Has
<1>15. xo_order' \in Seq(Overlays) /\ ToSet(xo_order') = ToSet(xo_order) \cup {s}
  <2>1. PICK o : o = xo_order /\ o \in Seq(Overlays)
    BY DEF OverlayInv, ThreadTyped
  <2>2. Append(o, s) \in Seq(Overlays) /\ ToSet(Append(o, s)) = ToSet(o) \cup {s}
    BY <2>1, AppendedSet
  <2> QED BY <2>1, <2>2, <1>10
<1>16. \A t \in Overlays : Has(t)' <=> t \in ToSet(xo_order')
  BY <1>14, <1>15 DEF OverlayInv, Owned
<1>17. \A t \in Overlays : Has(t)' <=> MadeBy(c, t)
  BY <1>0, <1>14 DEF MadeBy
<1>18. Unmade'
  BY <1>12, <1>13, <1>14 DEF OverlayInv, Unmade
<1>19. Overridden'
  BY <1>3, <1>12, <1>13 DEF OverlayInv, Overridden
<1>20. ManagedAbove'
  <2> SUFFICES ASSUME NEW t \in Overlays PROVE ShownAbove(xo_server', t)
    BY DEF ManagedAbove
  <2>1. CASE t = s
    BY <2>1, <1>3, <1>12 DEF ShownAbove
  <2>2. CASE t # s
    <3>1. Above(xo_server', t) <=> Above(xo_server, t)
      BY <2>2, <1>6, <1>8, <1>11 DEF Above
    <3> QED BY <3>1, <2>2, <1>12 DEF OverlayInv, ManagedAbove, ShownAbove
  <2> QED BY <2>1, <2>2
<1>21. MappedKnown'
  <2>1. KnowsMapped(xo_parsed, m.news, xo_work.mapped, xo_server.parent.mapped)
    BY <1>8 DEF OverlayInv, MappedKnown
  <2>2. m.news \in NewsRecords
    BY <1>9, ServerParts
  <2>3. KnowsMapped(Then(xo_parsed, m.news), NoNews, xo_work.mapped, xo_server.parent.mapped)
    BY <2>1, <2>2, <1>5, RoundTripKnows
  <2> QED BY <2>3, <1>8, <1>11 DEF MappedKnown
<1>22. xo_parsed.level >= Restack \/ xo_server.news.level >= Restack => xo_parsed'.level >= Restack
  BY <1>5, <1>8, <1>11, LevelsAre, ServerParts DEF Restack
<1>23. xo_visible' \in [Overlays -> BOOLEAN]
  BY <1>10 DEF OverlayInv, CefTyped
<1> QED BY <1>8, <1>11, <1>13, <1>15, <1>16, <1>17, <1>18, <1>19, <1>20, <1>21, <1>22, <1>23 DEF Handled

LEMMA DestroyIs ==
  ASSUME OverlayInv, NEW c \in OverlayCommands, c.op = "destroy", HandleDestroy(c.id), xo_work' = xo_work
  PROVE  Handled(c)
<1>0. PICK s \in Overlays : s = c.id
  BY DEF OverlayCommands
<1>1. PICK u : u = Unmap(xo_server, s)
  OBVIOUS
<1>2. xo_server \in Servers /\ xo_parsed \in NewsRecords
  BY DEF OverlayInv, ServerTyped
<1>3. Spares(xo_server, u, s) /\ u.stack = xo_server.stack
  BY <1>1, <1>2, UnmapIs
<1>4. u \in Servers
  BY <1>3 DEF Spares
<1>5. PICK low : low = {p \in u.stack : p[1] # s /\ p[2] # s}
  OBVIOUS
<1>6. /\ xo_server' = [u EXCEPT !.win[s] = NoWindow, !.wm[s] = NoRequest, !.stack = low]
      /\ xo_order' = Only(xo_order, Overlays \ {s})
      /\ xo_fsm' = [xo_fsm EXCEPT ![s] = [mapped |-> FALSE, unmanaged |-> FALSE]]
      /\ xo_visible' = xo_visible /\ xo_parsed' = xo_parsed
  BY <1>0, <1>1, <1>5 DEF HandleDestroy
<1>7. /\ xo_server'.win = [u.win EXCEPT ![s] = NoWindow] /\ xo_server'.stack = low
      /\ xo_server'.wm = [u.wm EXCEPT ![s] = NoRequest]
      /\ xo_server'.parent = u.parent /\ xo_server'.news = u.news
      /\ xo_server' = [win |-> xo_server'.win, stack |-> xo_server'.stack,
                       parent |-> xo_server'.parent, wm |-> xo_server'.wm, news |-> xo_server'.news]
  BY <1>4, <1>6 DEF Servers
<1>8. xo_server' \in Servers
  <2>1. NoWindow \in WindowRecords /\ NoRequest \in RequestRecords
    BY DEF NoWindow, WindowRecords, NoRequest, RequestRecords, Geoms
  <2>2. low \in Stacks
    BY <1>4, <1>5, ServerParts DEF Stacks
  <2>3. /\ xo_server'.win \in [Overlays -> WindowRecords]
        /\ xo_server'.wm \in [Overlays -> RequestRecords]
    BY <2>1, <1>4, <1>7, ServerParts
  <2> QED BY <2>2, <2>3, <1>4, <1>7, ServerParts DEF Servers
<1>9. /\ xo_server'.win[s] = NoWindow /\ xo_server'.wm[s] = NoRequest
      /\ \A t \in Overlays : t # s =>
           xo_server'.win[t] = xo_server.win[t] /\ xo_server'.wm[t] = xo_server.wm[t]
  <2>1. u.win \in [Overlays -> WindowRecords] /\ u.wm \in [Overlays -> RequestRecords]
    BY <1>4, ServerParts
  <2> QED BY <2>1, <1>3, <1>7 DEF Spares
<1>10. \A t \in Overlays : t # s => (Above(xo_server', t) <=> Above(xo_server, t))
  <2> SUFFICES ASSUME NEW t \in Overlays, t # s
               PROVE  <<t, "parent">> \in low <=> <<t, "parent">> \in xo_server.stack
    BY <1>7 DEF Above
  <2>1. <<t, "parent">>[1] = t /\ <<t, "parent">>[2] = "parent" /\ s # "parent"
    BY X11Assumption
  <2> QED BY <2>1, <1>3, <1>5
<1>11. /\ xo_fsm' \in [Overlays -> [mapped : BOOLEAN, unmanaged : BOOLEAN]]
       /\ xo_fsm'[s] = [mapped |-> FALSE, unmanaged |-> FALSE]
       /\ \A t \in Overlays : t # s => xo_fsm'[t] = xo_fsm[t]
  BY <1>6 DEF OverlayInv, ThreadTyped
<1>12. \A t \in Overlays : Has(t)' <=> t # s /\ Has(t)
  BY <1>9 DEF Has, NoWindow
<1>13. xo_order' \in Seq(Overlays) /\ ToSet(xo_order') = ToSet(xo_order) \cap (Overlays \ {s})
  <2>1. PICK o : o = xo_order /\ o \in Seq(Overlays)
    BY DEF OverlayInv, ThreadTyped
  <2>2. /\ Only(o, Overlays \ {s}) \in Seq(Overlays)
        /\ ToSet(Only(o, Overlays \ {s})) = ToSet(o) \cap (Overlays \ {s})
    BY <2>1, OnlyWanted
  <2> QED BY <2>1, <2>2, <1>6
<1>14. \A t \in Overlays : Has(t)' <=> t \in ToSet(xo_order')
  BY <1>12, <1>13 DEF OverlayInv, Owned
<1>15. \A t \in Overlays : Has(t)' <=> MadeBy(c, t)
  BY <1>0, <1>12 DEF MadeBy
<1>16. Unmade'
  BY <1>9, <1>11, <1>12 DEF OverlayInv, Unmade
<1>17. Overridden'
  <2> SUFFICES ASSUME NEW t \in Overlays
               PROVE  xo_server'.win[t].override = xo_fsm'[t].unmanaged
    BY DEF Overridden
  <2>1. CASE t = s
    BY <2>1, <1>9, <1>11 DEF NoWindow
  <2>2. CASE t # s
    BY <2>2, <1>9, <1>11 DEF OverlayInv, Overridden
  <2> QED BY <2>1, <2>2
<1>18. ManagedAbove'
  <2> SUFFICES ASSUME NEW t \in Overlays PROVE ShownAbove(xo_server', t)
    BY DEF ManagedAbove
  <2>1. CASE t = s
    BY <2>1, <1>9 DEF ShownAbove, NoWindow
  <2>2. CASE t # s
    BY <2>2, <1>9, <1>10 DEF OverlayInv, ManagedAbove, ShownAbove
  <2> QED BY <2>1, <2>2
<1>19. /\ xo_server'.news.parent = xo_server.news.parent
       /\ xo_server'.news.level >= xo_server.news.level
       /\ xo_server'.parent = xo_server.parent
  BY <1>3, <1>7 DEF Spares
<1>20. /\ xo_server'.news \in NewsRecords /\ xo_server.news \in NewsRecords
       /\ xo_server'.news.level \in 0..3 /\ xo_server.news.level \in 0..3
  BY <1>2, <1>8, ServerParts
<1>21. MappedKnown'
  <2>1. KnowsMapped(xo_parsed, xo_server.news, xo_work.mapped, xo_server.parent.mapped)
    BY DEF OverlayInv, MappedKnown
  <2>2. KnowsMapped(xo_parsed, xo_server'.news, xo_work.mapped, xo_server.parent.mapped)
    BY <2>1, <1>2, <1>19, <1>20, TellKnows
  <2> QED BY <2>2, <1>6, <1>19 DEF MappedKnown
<1>22. xo_server.news.level >= Restack => xo_server'.news.level >= Restack
  BY <1>19, <1>20 DEF Restack
<1>23. xo_visible' \in [Overlays -> BOOLEAN] /\ xo_parsed' \in NewsRecords
  BY <1>2, <1>6 DEF OverlayInv, CefTyped
<1> QED BY <1>6, <1>8, <1>11, <1>13, <1>14, <1>15, <1>16, <1>17, <1>18, <1>19, <1>21, <1>22, <1>23
        DEF Handled

LEMMA VisibleIs ==
  ASSUME OverlayInv, NEW c \in OverlayCommands, c.op = "visible",
         HandleVisible(c.id, c.visible), xo_work' = xo_work
  PROVE  Handled(c)
<1>1. PICK s \in Overlays : s = c.id
  BY DEF OverlayCommands
<1>2. PICK v \in BOOLEAN : v = c.visible
  BY DEF OverlayCommands
<1>3. xo_visible' \in [Overlays -> BOOLEAN]
  BY <1>1, <1>2 DEF HandleVisible, OverlayInv, CefTyped
<1>4. UNCHANGED <<xo_order, xo_fsm, xo_server, xo_parsed>>
  BY DEF HandleVisible
<1>5. /\ xo_server' \in Servers /\ xo_parsed' \in NewsRecords /\ xo_order' \in Seq(Overlays)
      /\ xo_fsm' \in [Overlays -> [mapped : BOOLEAN, unmanaged : BOOLEAN]]
  BY <1>4 DEF OverlayInv, ServerTyped, ThreadTyped
<1>6. \A t \in Overlays : (Has(t)' <=> Has(t)) /\ (Has(t)' <=> t \in ToSet(xo_order'))
  BY <1>4 DEF OverlayInv, Owned, Has
<1>7. \A t \in Overlays : Has(t)' <=> MadeBy(c, t)
  BY <1>6 DEF MadeBy
<1>8. Unmade' /\ Overridden' /\ ManagedAbove' /\ MappedKnown'
  BY <1>4 DEF OverlayInv, Unmade, Overridden, ManagedAbove, MappedKnown, Has
<1> QED BY <1>3, <1>4, <1>5, <1>6, <1>7, <1>8 DEF Handled

LEMMA SetOrderIs ==
  ASSUME OverlayInv, NEW c \in OverlayCommands, c.op = "order", HandleSetOrder(c.ids), xo_work' = xo_work
  PROVE  Handled(c)
<1>1. PICK ids \in Seq(Overlays) : ids = c.ids
  BY DEF OverlayCommands
<1>2. PICK old \in Seq(Overlays) : old = xo_order
  BY DEF OverlayInv, ThreadTyped
<1>3. PICK order : order = MergedOrder(ids, old)
  OBVIOUS
<1>4. order \in Seq(Overlays) /\ ToSet(order) = ToSet(old)
  <2>1. PICK first : first = Only(ids, ToSet(old))
    OBVIOUS
  <2>2. first \in Seq(Overlays) /\ ToSet(first) = ToSet(ids) \cap ToSet(old)
    BY <2>1, OnlyWanted
  <2>3. PICK others : others = Only(old, Overlays \ ToSet(first))
    OBVIOUS
  <2>4. others \in Seq(Overlays) /\ ToSet(others) = ToSet(old) \cap (Overlays \ ToSet(first))
    BY <2>3, OnlyWanted
  <2>5. order = first \o others
    BY <1>3, <2>1, <2>3 DEF MergedOrder
  <2>6. order \in Seq(Overlays) /\ ToSet(order) = ToSet(first) \cup ToSet(others)
    BY <2>2, <2>4, <2>5, JoinedSet
  <2>7. ToSet(old) \subseteq Overlays
    BY DEF ToSet
  <2> QED BY <2>2, <2>4, <2>6, <2>7
<1>5. PICK stack : stack = RestackAbove(order)
  OBVIOUS
<1>6. stack \in Stacks /\ \A t \in ToSet(old) : <<t, "parent">> \in stack
  <2>1. \A k \in DOMAIN order : order[k] \in Overlays
    BY <1>4
  <2>2. {<<order[k], "parent">> : k \in DOMAIN order} \in Stacks
    BY <2>1 DEF Stacks
  <2>3. {<<order[q[1]], order[q[2]]>> :
            q \in {p \in (DOMAIN order) \X (DOMAIN order) : p[1] > p[2]}} \in Stacks
    BY <2>1 DEF Stacks
  <2>4. \A t \in ToSet(order) : <<t, "parent">> \in {<<order[k], "parent">> : k \in DOMAIN order}
    BY DEF ToSet
  <2> QED BY <1>4, <1>5, <2>2, <2>3, <2>4 DEF RestackAbove, Stacks
<1>7. xo_server \in Servers /\ xo_parsed \in NewsRecords
  BY DEF OverlayInv, ServerTyped
<1>8. /\ xo_order' = order /\ xo_server' = Stacked(xo_server, stack)
      /\ UNCHANGED <<xo_visible, xo_fsm, xo_parsed>>
  BY <1>1, <1>2, <1>3, <1>5 DEF HandleSetOrder
<1>9. /\ xo_server' \in Servers /\ xo_server'.stack = stack
      /\ xo_server'.win = xo_server.win /\ xo_server'.wm = xo_server.wm
      /\ xo_server'.parent = xo_server.parent
      /\ xo_server'.news.parent = xo_server.news.parent
      /\ xo_server'.news.level >= xo_server.news.level
  BY <1>6, <1>7, <1>8, StackedIs
<1>10. /\ xo_server'.news \in NewsRecords /\ xo_server.news \in NewsRecords
       /\ xo_server'.news.level \in 0..3 /\ xo_server.news.level \in 0..3
  BY <1>7, <1>9, ServerParts
<1>11. \A t \in Overlays : (Has(t)' <=> Has(t)) /\ (Has(t)' <=> t \in ToSet(xo_order'))
  BY <1>2, <1>4, <1>8, <1>9 DEF OverlayInv, Owned, Has
<1>12. \A t \in Overlays : Has(t)' <=> MadeBy(c, t)
  BY <1>11 DEF MadeBy
<1>13. Unmade' /\ Overridden'
  BY <1>8, <1>9, <1>11 DEF OverlayInv, Unmade, Overridden
<1>14. ManagedAbove'
  <2> SUFFICES ASSUME NEW t \in Overlays PROVE ShownAbove(xo_server', t)
    BY DEF ManagedAbove
  <2>1. CASE Has(t)
    <3>1. Above(xo_server', t)
      BY <2>1, <1>2, <1>6, <1>9 DEF OverlayInv, Owned, Above
    <3> QED BY <3>1, <1>9 DEF OverlayInv, ManagedAbove, ShownAbove
  <2>2. CASE ~Has(t)
    BY <2>2, <1>9 DEF OverlayInv, Unmade, ShownAbove, NoWindow
  <2> QED BY <2>1, <2>2
<1>15. MappedKnown'
  <2>1. KnowsMapped(xo_parsed, xo_server.news, xo_work.mapped, xo_server.parent.mapped)
    BY DEF OverlayInv, MappedKnown
  <2>2. KnowsMapped(xo_parsed, xo_server'.news, xo_work.mapped, xo_server.parent.mapped)
    BY <2>1, <1>7, <1>9, <1>10, TellKnows
  <2> QED BY <2>2, <1>8, <1>9 DEF MappedKnown
<1>16. xo_server.news.level >= Restack => xo_server'.news.level >= Restack
  BY <1>9, <1>10 DEF Restack
<1>17. /\ xo_visible' \in [Overlays -> BOOLEAN] /\ xo_parsed' \in NewsRecords
       /\ xo_fsm' \in [Overlays -> [mapped : BOOLEAN, unmanaged : BOOLEAN]]
  BY <1>7, <1>8 DEF OverlayInv, CefTyped, ThreadTyped
<1> QED BY <1>4, <1>8, <1>9, <1>11, <1>12, <1>13, <1>14, <1>15, <1>16, <1>17 DEF Handled

LEMMA CommandStep ==
  ASSUME OverlayInv, HandleCommand
  PROVE  OverlayInv'
<1>1. PICK c : c = Head(xo_batch)
  OBVIOUS
<1>2. /\ xo_at = "commands" /\ xo_batch # <<>> /\ xo_batch \in Seq(OverlayCommands)
      /\ xo_batch' = Tail(xo_batch) /\ xo_todo = <<>> /\ xo_work' = xo_work
      /\ UNCHANGED <<xo_surface, xo_asked, xo_hand, xo_ops, xo_commands, xo_resync,
                     xo_todo, xo_seen, xo_moves>>
  BY DEF HandleCommand, OverlayInv, QueueTyped, Places, xoqueue
<1>3. c \in OverlayCommands
  BY <1>1, <1>2
<1>4. Handled(c)
  <2>1. \/ c.op = "create" /\ HandleCreate(c.id)
        \/ c.op = "destroy" /\ HandleDestroy(c.id)
        \/ c.op = "visible" /\ HandleVisible(c.id, c.visible)
        \/ c.op = "order" /\ HandleSetOrder(c.ids)
    BY <1>1 DEF HandleCommand
  <2> QED BY <1>2, <1>3, <2>1, CreateIs, DestroyIs, VisibleIs, SetOrderIs
<1>5. \/ xo_batch' # <<>> /\ UNCHANGED <<xo_at, xo_pending>>
      \/ xo_batch' = <<>> /\ xo_at' = "loop" /\ xo_pending' = Higher(xo_pending, Restack)
  BY <1>2 DEF HandleCommand
<1>6. /\ xo_pending \in 0..3 /\ xo_pending' \in 0..3 /\ xo_pending' >= xo_pending
      /\ xo_batch' # <<>> \/ xo_pending' >= Restack
  BY <1>5 DEF OverlayInv, ServerTyped, Higher, Restack
<1>7. ServerTyped' /\ CefTyped'
  BY <1>2, <1>4, <1>6 DEF Handled, ServerTyped, OverlayInv, CefTyped
<1>8. ThreadTyped'
  BY <1>2, <1>4, <1>5 DEF Handled, OverlayInv, ThreadTyped
<1>9. QueueTyped'
  BY <1>2 DEF OverlayInv, QueueTyped
<1>10. Places'
  BY <1>2, <1>5 DEF OverlayInv, Places
<1>11. Owned'
  <2>1. ToSet(<<>>) = {}
    BY DEF ToSet
  <2> QED BY <2>1, <1>2, <1>4 DEF Handled, Owned
<1>12. Lives'
  <2>1. PICK q : q = Underway
    OBVIOUS
  <2>2. Underway' = Tail(q) /\ Head(q) = c /\ q # <<>>
    <3>1. /\ xo_hand \in Seq(OverlayCommands) /\ xo_commands \in Seq(OverlayCommands)
          /\ xo_batch \in Seq(OverlayCommands) /\ xo_batch # <<>>
      BY <1>2 DEF OverlayInv, QueueTyped
    <3>2. /\ Joined(Tail(xo_batch), xo_commands, xo_hand) = Tail(q)
          /\ Head(q) = Head(xo_batch) /\ q # <<>>
      BY <2>1, <3>1, Shortened DEF Underway
    <3>3. Underway' = Joined(Tail(xo_batch), xo_commands, xo_hand)
      BY <1>2 DEF Underway
    <3> QED BY <1>1, <3>2, <3>3
  <2>3. q \in Seq(OverlayCommands)
    <3>1. xo_batch \o xo_commands \in Seq(OverlayCommands)
      BY <1>2, ConcatProperties DEF OverlayInv, QueueTyped
    <3> QED BY <2>1, <3>1, ConcatProperties DEF Underway, Joined, OverlayInv, QueueTyped
  <2>4. ASSUME NEW s \in Overlays PROVE LifeOf(s, Tail(q), xo_surface[s], MadeBy(c, s))
    <3>1. LifeOf(s, q, xo_surface[s], Has(s))
      BY <2>1 DEF OverlayInv, Lives
    <3>2. Has(s) \in BOOLEAN /\ xo_surface[s] \in {"unborn", "live", "freed"}
      BY ServerParts DEF OverlayInv, ServerTyped, Has, WindowRecords, CefTyped
    <3>3. CASE c.op = "create" /\ c.id = s
      BY <2>2, <2>3, <3>1, <3>2, <3>3, TailBirth DEF MadeBy
    <3>4. CASE c.op = "destroy" /\ c.id = s
      BY <2>2, <2>3, <3>1, <3>2, <3>4, TailDeath DEF MadeBy
    <3>5. CASE ~(c.op \in {"create", "destroy"} /\ c.id = s)
      <4>1. MadeBy(c, s) = Has(s)
        BY <3>5 DEF MadeBy
      <4> QED BY <2>2, <2>3, <3>1, <3>2, <3>5, <4>1, TailOther
    <3> QED BY <3>3, <3>4, <3>5
  <2>5. ASSUME NEW s \in Overlays PROVE LifeOf(s, Tail(q), xo_surface[s], Has(s)')
    <3>1. Has(s)' <=> MadeBy(c, s)
      BY <1>4 DEF Handled
    <3>2. LifeOf(s, Tail(q), xo_surface[s], MadeBy(c, s))
      BY <2>4
    <3> QED BY <3>1, <3>2 DEF LifeOf
  <2> QED BY <2>2, <2>5, <1>2 DEF Lives
<1>13. Unmade' /\ Overridden' /\ ManagedAbove' /\ MappedKnown'
  BY <1>4 DEF Handled
<1>14. ParentKnown'
  <2>1. Owes(Restack) => Owes(Restack)'
    BY <1>4, <1>6 DEF Handled, Owes, Restack
  <2> QED BY <2>1, <1>2, <1>4 DEF Handled, OverlayInv, ParentKnown
<1>15. Requested' \/ Owes(Restack)'
  BY <1>6 DEF Requested, Owes
<1>16. Owes(Restack)' => Owes(Reconcile)'
  BY <1>6, <1>7, ServerParts, LevelsAre DEF ServerTyped, Owes, Restack, Reconcile
<1>17. RaisedAbove' /\ Settled'
  BY <1>15, <1>16 DEF RaisedAbove, Settled
<1>18. Fresh'
  BY <1>2, <1>5 DEF Fresh
<1> QED BY <1>7, <1>8, <1>9, <1>10, <1>11, <1>12, <1>13, <1>14, <1>17, <1>18 DEF OverlayInv

-----------------------------------------------------------------------------

(* What the invariant says of the windows does not depend on the news.     *)
LEMMA WindowsStay ==
  ASSUME OverlayInv, xo_server'.win = xo_server.win, xo_server'.wm = xo_server.wm,
         xo_server'.stack = xo_server.stack, UNCHANGED <<xo_fsm, xo_order>>
  PROVE  /\ Unmade' /\ Overridden' /\ ManagedAbove'
         /\ \A s \in Overlays : (Has(s)' <=> Has(s)) /\ (Has(s)' <=> s \in ToSet(xo_order'))
<1>1. \A s \in Overlays : (Has(s)' <=> Has(s)) /\ (Has(s)' <=> s \in ToSet(xo_order'))
  BY DEF OverlayInv, Owned, Has
<1>2. Unmade'
  BY DEF OverlayInv, Unmade, Has
<1>3. Overridden'
  BY DEF OverlayInv, Overridden
<1>4. ManagedAbove'
  BY DEF OverlayInv, ManagedAbove, ShownAbove, Above
<1> QED BY <1>1, <1>2, <1>3, <1>4

(* Nor does what it says of the commands depend on the pass.               *)
LEMMA CommandsStay ==
  ASSUME OverlayInv,
         UNCHANGED <<xo_surface, xo_visible, xo_asked, xo_hand, xo_ops, xo_commands,
                     xo_resync, xo_batch>>,
         xo_moves' \in 0..MaxParentMoves, \A s \in Overlays : Has(s)' <=> Has(s)
  PROVE  CefTyped' /\ QueueTyped' /\ Lives' /\ (Requested' <=> Requested)
<1>1. CefTyped'
  BY DEF OverlayInv, CefTyped
<1>2. QueueTyped' /\ (Requested' <=> Requested)
  BY DEF OverlayInv, QueueTyped, Requested
<1>3. Underway' = Underway
  BY DEF Underway
<1>4. ASSUME NEW s \in Overlays PROVE LifeOf(s, Underway, xo_surface[s], Has(s)')
  <2>1. LifeOf(s, Underway, xo_surface[s], Has(s)) /\ (Has(s)' <=> Has(s))
    BY DEF OverlayInv, Lives
  <2> QED BY <2>1 DEF LifeOf
<1>5. Lives'
  BY <1>3, <1>4 DEF Lives
<1> QED BY <1>1, <1>2, <1>5

LEMMA EventsStep ==
  ASSUME OverlayInv, OnEvents
  PROVE  OverlayInv'
<1>1. xo_server \in Servers /\ xo_parsed \in NewsRecords /\ xo_pending \in 0..3
  BY DEF OverlayInv, ServerTyped
<1>2. PICK all : all = Then(xo_parsed, xo_server.news)
  OBVIOUS
<1>3. /\ all \in NewsRecords /\ all.level >= xo_parsed.level /\ all.level >= xo_server.news.level
      /\ all.level \in {xo_parsed.level, xo_server.news.level}
      /\ all.parent = IF xo_server.news.parent = "same" THEN xo_parsed.parent
                      ELSE xo_server.news.parent
  BY <1>1, <1>2, ThenIs, ServerParts
<1>4. /\ all.level \in 0..3 /\ xo_parsed.level \in 0..3 /\ xo_server.news.level \in 0..3
      /\ all.parent \in {"same", "mapped", "unmapped"}
      /\ xo_parsed.parent \in {"same", "mapped", "unmapped"}
      /\ xo_server.news.parent \in {"same", "mapped", "unmapped"}
  BY <1>1, <1>3, LevelsAre, ServerParts
<1>5. /\ xo_at = "loop" /\ xo_pending' = Higher(xo_pending, all.level)
      /\ xo_work' = IF all.parent = "same" THEN xo_work
                    ELSE [xo_work EXCEPT !.mapped = all.parent = "mapped"]
      /\ xo_parsed' = NoNews /\ xo_server' = [xo_server EXCEPT !.news = NoNews]
  BY <1>2 DEF OnEvents
<1>6. UNCHANGED <<xo_surface, xo_visible, xo_asked, xo_hand, xo_ops, xo_commands, xo_resync,
                  xo_at, xo_batch, xo_order, xo_fsm, xo_todo, xo_seen, xo_moves>>
  BY DEF OnEvents, xocef, xoqueue
<1>7. NoNews \in NewsRecords /\ NoNews.level = 0 /\ NoNews.parent = "same"
  BY DEF NoNews, NewsRecords
<1>8. /\ xo_server' \in Servers
      /\ xo_server'.win = xo_server.win /\ xo_server'.stack = xo_server.stack
      /\ xo_server'.wm = xo_server.wm /\ xo_server'.parent = xo_server.parent
      /\ xo_server'.news = NoNews
  BY <1>1, <1>5, <1>7 DEF Servers
<1>9. /\ xo_pending' \in 0..3 /\ xo_pending' >= xo_pending /\ xo_pending' >= all.level
      /\ xo_pending' \in {xo_pending, all.level}
  BY <1>1, <1>4, <1>5 DEF Higher
<1>10. (Owes(Reconcile)' <=> Owes(Reconcile)) /\ (Owes(Restack)' <=> Owes(Restack))
  <2>1. xo_parsed'.level = 0 /\ xo_server'.news.level = 0
    BY <1>5, <1>7, <1>8
  <2> QED BY <2>1, <1>1, <1>3, <1>4, <1>9 DEF Owes, Reconcile, Restack
<1>11. xo_todo = <<>> /\ xo_todo' = <<>>
  BY <1>5, <1>6 DEF OverlayInv, Places
<1>12. \A s \in Overlays : ~Left(s) /\ ~Left(s)'
  BY <1>11 DEF Left, ToSet
<1>13. /\ Unmade' /\ Overridden' /\ ManagedAbove'
       /\ \A s \in Overlays : (Has(s)' <=> Has(s)) /\ (Has(s)' <=> s \in ToSet(xo_order'))
  BY <1>6, <1>8, WindowsStay
<1>14. CefTyped' /\ QueueTyped' /\ Lives' /\ (Requested' <=> Requested)
  <2>1. xo_moves' \in 0..MaxParentMoves
    BY <1>6 DEF OverlayInv, CefTyped
  <2> QED BY <2>1, <1>6, <1>13, CommandsStay
<1>15. xo_work \in [geom : Geoms, fullscreen : BOOLEAN, mapped : BOOLEAN, reassert : BOOLEAN]
  BY DEF OverlayInv, ThreadTyped
<1>16. /\ xo_work' \in [geom : Geoms, fullscreen : BOOLEAN, mapped : BOOLEAN, reassert : BOOLEAN]
       /\ xo_work'.geom = xo_work.geom /\ xo_work'.fullscreen = xo_work.fullscreen
       /\ all.parent = "same" => xo_work' = xo_work
       /\ all.parent # "same" => (xo_work'.mapped <=> all.parent = "mapped")
  BY <1>5, <1>15
<1>17. ServerTyped' /\ ThreadTyped'
  BY <1>5, <1>6, <1>7, <1>8, <1>9, <1>16 DEF OverlayInv, ServerTyped, ThreadTyped
<1>18. Places' /\ Owned'
  <2>1. Places'
    BY <1>6 DEF OverlayInv, Places
  <2>2. ToSet(xo_todo') = {}
    BY <1>11 DEF ToSet
  <2> QED BY <2>1, <2>2, <1>13 DEF Owned
<1>19. ParentKnown'
  BY <1>8, <1>10, <1>16 DEF OverlayInv, ParentKnown
<1>20. /\ all.parent = "mapped" => Owes(Restack)
       /\ all.parent = "unmapped" => Owes(Reconcile)
  BY <1>3, <1>4 DEF OverlayInv, MappedKnown, KnowsMapped, Leveled, Owes, Refocus, Restack, Reconcile
<1>21. MappedKnown'
  <2>1. xo_server.parent.mapped \in BOOLEAN /\ xo_work.mapped \in BOOLEAN
    BY <1>1, <1>15, ServerParts DEF ParentRecords
  <2>2. KnowsMapped(xo_parsed, xo_server.news, xo_work.mapped, xo_server.parent.mapped)
    BY DEF OverlayInv, MappedKnown
  <2>3. xo_work'.mapped = xo_server.parent.mapped
    <3>1. CASE all.parent = "same"
      BY <2>2, <3>1, <1>3, <1>4, <1>16 DEF KnowsMapped
    <3>2. CASE all.parent # "same"
      <4>1. all.parent = Says(xo_server.parent.mapped)
        BY <2>2, <3>2, <1>3, <1>4 DEF KnowsMapped
      <4>2. all.parent = "mapped" <=> xo_server.parent.mapped
        BY <4>1, <2>1 DEF Says
      <4>3. xo_work'.mapped <=> xo_server.parent.mapped
        BY <4>2, <3>2, <1>16
      <4>4. xo_work'.mapped \in BOOLEAN
        BY <1>16
      <4> QED BY <4>3, <4>4, <2>1
    <3> QED BY <3>1, <3>2
  <2> QED BY <2>3, <1>5, <1>7, <1>8 DEF MappedKnown, KnowsMapped, Leveled
<1>22. RaisedAbove'
  <2> SUFFICES ASSUME NEW s \in Overlays, Lively(s)', Wanted(s)', xo_server'.win[s].override,
                      ~(Owes(Restack)' \/ Requested')
               PROVE  Above(xo_server', s)
    BY DEF RaisedAbove
  <2>1. Lively(s) /\ xo_server.win[s].override /\ ~Owes(Restack) /\ ~Requested
    BY <1>6, <1>8, <1>10, <1>13, <1>14 DEF Lively
  <2>2. Wanted(s)
    <3>1. all.parent # "mapped"
      BY <2>1, <1>20
    <3>2. xo_work'.mapped => xo_work.mapped
      BY <3>1, <1>16
    <3> QED BY <3>2, <1>6 DEF Wanted
  <2>3. Above(xo_server, s)
    BY <2>1, <2>2, <1>12 DEF OverlayInv, RaisedAbove
  <2> QED BY <2>3, <1>8 DEF Above
<1>23. Settled'
  <2> SUFFICES ASSUME NEW s \in Overlays, Lively(s)', ~Requested', ~Owes(Reconcile)'
               PROVE  /\ (xo_fsm'[s].mapped <=> Wanted(s)')
                      /\ xo_fsm'[s].unmanaged = xo_work'.fullscreen
                      /\ Wanted(s)' => InPlace(s)'
    BY DEF Settled
  <2>1. Lively(s) /\ ~Owes(Reconcile) /\ ~Requested /\ ~Left(s)
    BY <1>6, <1>10, <1>12, <1>13, <1>14 DEF Lively
  <2>2. Owes(Restack) => Owes(Reconcile)
    BY <1>1, <1>4 DEF Owes, Restack, Reconcile
  <2>3. xo_work' = xo_work
    BY <2>1, <2>2, <1>4, <1>16, <1>20
  <2>4. /\ (xo_fsm[s].mapped <=> Wanted(s)) /\ xo_fsm[s].unmanaged = xo_work.fullscreen
        /\ Wanted(s) => InPlace(s)
    BY <2>1 DEF OverlayInv, Settled
  <2>5. (Wanted(s)' <=> Wanted(s)) /\ (InPlace(s)' <=> InPlace(s))
    BY <2>3, <1>6, <1>8 DEF Wanted, InPlace
  <2> QED BY <2>3, <2>4, <2>5, <1>6
<1>24. Fresh'
  BY <1>5, <1>6 DEF Fresh
<1> QED BY <1>13, <1>14, <1>17, <1>18, <1>19, <1>21, <1>22, <1>23, <1>24 DEF OverlayInv

(* What a round trip alone leaves as it was.                               *)
LEMMA ReadStep ==
  ASSUME OverlayInv, RoundTrip(xo_server), UNCHANGED <<xocef, xoqueue, xo_batch, xo_order, xo_fsm, xo_moves>>,
         xo_work'.mapped = xo_work.mapped
  PROVE  /\ xo_server' \in Servers /\ xo_parsed' \in NewsRecords
         /\ xo_server'.win = xo_server.win /\ xo_server'.wm = xo_server.wm
         /\ xo_server'.stack = xo_server.stack /\ xo_server'.parent = xo_server.parent
         /\ CefTyped' /\ QueueTyped' /\ Lives' /\ (Requested' <=> Requested)
         /\ Unmade' /\ Overridden' /\ ManagedAbove' /\ MappedKnown'
         /\ \A s \in Overlays :
              /\ (Has(s)' <=> Has(s)) /\ (Has(s)' <=> s \in ToSet(xo_order'))
              /\ (Lively(s)' <=> Lively(s)) /\ (Wanted(s)' <=> Wanted(s))
         /\ \A n \in 1..3 :
              xo_parsed'.level >= n \/ xo_server'.news.level >= n
                <=> xo_parsed.level >= n \/ xo_server.news.level >= n
<1>1. xo_server \in Servers /\ xo_parsed \in NewsRecords
  BY DEF OverlayInv, ServerTyped
<1>2. /\ xo_server' \in Servers /\ xo_parsed' \in NewsRecords
      /\ xo_server'.win = xo_server.win /\ xo_server'.stack = xo_server.stack
      /\ xo_server'.wm = xo_server.wm /\ xo_server'.parent = xo_server.parent
      /\ xo_server'.news = NoNews
      /\ xo_parsed' = Then(xo_parsed, xo_server.news)
      /\ xo_parsed'.level >= xo_parsed.level /\ xo_parsed'.level >= xo_server.news.level
      /\ xo_parsed'.level \in {xo_parsed.level, xo_server.news.level}
  BY <1>1, RoundTripIs
<1>3. UNCHANGED <<xo_surface, xo_visible, xo_asked, xo_hand, xo_ops, xo_commands,
                  xo_resync, xo_batch, xo_order, xo_fsm, xo_moves>>
  BY DEF xocef, xoqueue
<1>4. /\ Unmade' /\ Overridden' /\ ManagedAbove'
      /\ \A s \in Overlays : (Has(s)' <=> Has(s)) /\ (Has(s)' <=> s \in ToSet(xo_order'))
  BY <1>2, <1>3, WindowsStay
<1>5. CefTyped' /\ QueueTyped' /\ Lives' /\ (Requested' <=> Requested)
  <2>1. xo_moves' \in 0..MaxParentMoves
    BY <1>3 DEF OverlayInv, CefTyped
  <2> QED BY <2>1, <1>3, <1>4, CommandsStay
<1>6. MappedKnown'
  <2>1. KnowsMapped(xo_parsed, xo_server.news, xo_work.mapped, xo_server.parent.mapped)
    BY DEF OverlayInv, MappedKnown
  <2>2. KnowsMapped(Then(xo_parsed, xo_server.news), NoNews, xo_work.mapped, xo_server.parent.mapped)
    BY <2>1, <1>1, ServerParts, RoundTripKnows
  <2> QED BY <2>2, <1>2 DEF MappedKnown
<1>7. \A s \in Overlays : (Lively(s)' <=> Lively(s)) /\ (Wanted(s)' <=> Wanted(s))
  BY <1>3, <1>4 DEF Lively, Wanted
<1>8. ASSUME NEW n \in 1..3
      PROVE  xo_parsed'.level >= n \/ xo_server'.news.level >= n
               <=> xo_parsed.level >= n \/ xo_server.news.level >= n
  <2>1. xo_server'.news.level = 0
    BY <1>2 DEF NoNews
  <2>2. xo_parsed'.level \in 0..3 /\ xo_parsed.level \in 0..3 /\ xo_server.news.level \in 0..3
    BY <1>1, <1>2, LevelsAre, ServerParts
  <2> QED BY <2>1, <2>2, <1>2
<1> QED BY <1>2, <1>4, <1>5, <1>6, <1>7, <1>8

LEMMA ReadParentStep ==
  ASSUME OverlayInv, ReadParent
  PROVE  OverlayInv'
<1>1. /\ xo_at = "loop" /\ xo_pending' = 0
      /\ xo_work' = [xo_work EXCEPT
                       !.geom = xo_server.parent.geom,
                       !.fullscreen = Full(xo_server.parent),
                       !.reassert = xo_pending >= Restack]
      /\ xo_todo' = xo_order /\ xo_at' = IF xo_order = <<>> THEN "loop" ELSE "pass"
      /\ RoundTrip(xo_server)
      /\ UNCHANGED <<xocef, xoqueue, xo_batch, xo_order, xo_fsm, xo_seen, xo_moves>>
  BY DEF ReadParent, Full
<1>2. xo_server \in Servers /\ xo_pending \in 0..3 /\ xo_server.parent \in ParentRecords
  BY ServerParts DEF OverlayInv, ServerTyped
<1>3. xo_work \in [geom : Geoms, fullscreen : BOOLEAN, mapped : BOOLEAN, reassert : BOOLEAN]
  BY DEF OverlayInv, ThreadTyped
<1>4. xo_server.parent.geom \in Geoms /\ Full(xo_server.parent) \in BOOLEAN
  BY <1>2 DEF ParentRecords, Full
<1>5. /\ xo_work' \in [geom : Geoms, fullscreen : BOOLEAN, mapped : BOOLEAN, reassert : BOOLEAN]
      /\ xo_work'.geom = xo_server.parent.geom /\ xo_work'.fullscreen = Full(xo_server.parent)
      /\ xo_work'.mapped = xo_work.mapped /\ (xo_work'.reassert <=> xo_pending >= Restack)
  <2>1. PICK r \in BOOLEAN : r <=> xo_pending >= Restack
    OBVIOUS
  <2>2. xo_work' = [xo_work EXCEPT !.geom = xo_server.parent.geom,
                                   !.fullscreen = Full(xo_server.parent),
                                   !.reassert = r]
    <3>1. (xo_pending >= Restack) = r
      BY <2>1, <1>2 DEF Restack
    <3> QED BY <3>1, <1>1
  <2>3. /\ xo_work' = [geom |-> xo_server.parent.geom, fullscreen |-> Full(xo_server.parent),
                       mapped |-> xo_work.mapped, reassert |-> r]
        /\ xo_work.mapped \in BOOLEAN
    BY <2>2, <1>3
  <2> QED BY <2>1, <2>3, <1>4
<1>6. /\ xo_server' \in Servers /\ xo_parsed' \in NewsRecords
      /\ xo_server'.win = xo_server.win /\ xo_server'.wm = xo_server.wm
      /\ xo_server'.stack = xo_server.stack /\ xo_server'.parent = xo_server.parent
      /\ CefTyped' /\ QueueTyped' /\ Lives' /\ (Requested' <=> Requested)
      /\ Unmade' /\ Overridden' /\ ManagedAbove' /\ MappedKnown'
      /\ \A s \in Overlays :
           /\ (Has(s)' <=> Has(s)) /\ (Has(s)' <=> s \in ToSet(xo_order'))
           /\ (Lively(s)' <=> Lively(s)) /\ (Wanted(s)' <=> Wanted(s))
      /\ \A n \in 1..3 :
           xo_parsed'.level >= n \/ xo_server'.news.level >= n
             <=> xo_parsed.level >= n \/ xo_server.news.level >= n
  BY <1>1, <1>5, ReadStep
<1>7. ServerTyped'
  BY <1>1, <1>6 DEF ServerTyped
<1>8. ThreadTyped'
  <2>1. xo_order' = xo_order /\ xo_fsm' = xo_fsm /\ xo_seen' = xo_seen
    BY <1>1
  <2>2. xo_at' \in {"loop", "commands", "pass", "apply"}
    BY <1>1
  <2> QED BY <2>1, <2>2, <1>1, <1>5 DEF OverlayInv, ThreadTyped
<1>9. Places'
  <2>1. xo_resync' = xo_resync /\ xo_commands' = xo_commands /\ xo_batch' = xo_batch
    BY <1>1 DEF xoqueue
  <2> QED BY <2>1, <1>1 DEF OverlayInv, Places
<1>10. \A s \in Overlays : Has(s)' <=> Left(s)'
  BY <1>1, <1>6 DEF Left
<1>11. Owned'
  <2>1. ToSet(xo_todo') \subseteq Overlays
    BY <1>8 DEF ThreadTyped, ToSet
  <2> QED BY <2>1, <1>6, <1>10 DEF Owned, Left
<1>12. ParentKnown'
  BY <1>5, <1>6 DEF ParentKnown
<1>13. RaisedAbove'
  <2> SUFFICES ASSUME NEW s \in Overlays, Lively(s)', Wanted(s)', xo_server'.win[s].override,
                      ~(Owes(Restack)' \/ Requested'), ~xo_work'.reassert
               PROVE  Above(xo_server', s)
    BY <1>10 DEF RaisedAbove, Lively
  <2>1. Lively(s) /\ Wanted(s) /\ xo_server.win[s].override /\ ~Requested
    BY <1>6
  <2>2. ~Owes(Restack)
    <3>1. ~(xo_pending >= Restack)
      BY <1>5
    <3>2. ~(xo_parsed'.level >= Restack \/ xo_server'.news.level >= Restack)
      BY DEF Owes
    <3>3. Restack \in 1..3
      BY DEF Restack
    <3> QED BY <3>1, <3>2, <3>3, <1>6 DEF Owes
  <2>3. ~Left(s)
    <3>1. xo_todo = <<>>
      BY <1>1 DEF OverlayInv, Places
    <3> QED BY <3>1 DEF Left, ToSet
  <2>4. Above(xo_server, s)
    BY <2>1, <2>2, <2>3 DEF OverlayInv, RaisedAbove
  <2> QED BY <2>4, <1>6 DEF Above
<1>14. Settled'
  BY <1>10 DEF Settled, Lively
<1>15. Fresh'
  BY <1>1 DEF Fresh
<1> QED BY <1>6, <1>7, <1>8, <1>9, <1>11, <1>12, <1>13, <1>14, <1>15 DEF OverlayInv

LEMMA ObserveStep ==
  ASSUME OverlayInv, Observe
  PROVE  OverlayInv'
<1>1. PICK s : s = Head(xo_todo)
  OBVIOUS
<1>2. /\ xo_at = "pass" /\ xo_at' = "apply"
      /\ xo_seen' = [geom |-> xo_server.win[s].geom, mapped |-> xo_server.win[s].mapped]
      /\ RoundTrip(xo_server)
      /\ UNCHANGED <<xocef, xoqueue, xo_pending, xo_batch, xo_work, xo_order, xo_fsm, xo_todo,
                     xo_moves>>
  BY <1>1 DEF Observe
<1>3. xo_todo # <<>> /\ s \in Overlays
  <2>1. xo_todo # <<>> /\ xo_todo \in Seq(Overlays)
    BY <1>2 DEF OverlayInv, Places, ThreadTyped
  <2> QED BY <2>1, <1>1, HeadAndTail
<1>4. xo_server \in Servers /\ xo_server.win[s] \in WindowRecords /\ xo_pending \in 0..3
  BY <1>3, ServerParts DEF OverlayInv, ServerTyped
<1>6. /\ xo_server' \in Servers /\ xo_parsed' \in NewsRecords
      /\ xo_server'.win = xo_server.win /\ xo_server'.wm = xo_server.wm
      /\ xo_server'.stack = xo_server.stack /\ xo_server'.parent = xo_server.parent
      /\ CefTyped' /\ QueueTyped' /\ Lives' /\ (Requested' <=> Requested)
      /\ Unmade' /\ Overridden' /\ ManagedAbove' /\ MappedKnown'
      /\ \A t \in Overlays :
           /\ (Has(t)' <=> Has(t)) /\ (Has(t)' <=> t \in ToSet(xo_order'))
           /\ (Lively(t)' <=> Lively(t)) /\ (Wanted(t)' <=> Wanted(t))
      /\ \A n \in 1..3 :
           xo_parsed'.level >= n \/ xo_server'.news.level >= n
             <=> xo_parsed.level >= n \/ xo_server.news.level >= n
  BY <1>2, ReadStep
<1>7. ServerTyped'
  BY <1>2, <1>4, <1>6 DEF ServerTyped
<1>8. ThreadTyped'
  <2>1. xo_seen' \in [geom : Geoms \cup {NoGeom}, mapped : BOOLEAN]
    BY <1>2, <1>4 DEF WindowRecords
  <2>2. UNCHANGED <<xo_work, xo_order, xo_fsm, xo_todo>> /\ xo_at' = "apply"
    BY <1>2
  <2> QED BY <2>1, <2>2 DEF OverlayInv, ThreadTyped
<1>9. Places'
  <2>1. UNCHANGED <<xo_resync, xo_commands, xo_batch, xo_todo>> /\ xo_at = "pass" /\ xo_at' = "apply"
    BY <1>2 DEF xoqueue
  <2> QED BY <2>1 DEF OverlayInv, Places
<1>10. Owned'
  <2>1. xo_todo' = xo_todo /\ ToSet(xo_todo) \subseteq Overlays
    BY <1>2 DEF OverlayInv, ThreadTyped, ToSet
  <2> QED BY <2>1, <1>6 DEF OverlayInv, Owned
<1>11. (Owes(Reconcile)' <=> Owes(Reconcile)) /\ (Owes(Restack)' <=> Owes(Restack))
  <2>1. Reconcile \in 1..3 /\ Restack \in 1..3
    BY DEF Reconcile, Restack
  <2> QED BY <2>1, <1>2, <1>6 DEF Owes
<1>12. ParentKnown'
  BY <1>2, <1>6, <1>11 DEF OverlayInv, ParentKnown
<1>13. RaisedAbove'
  BY <1>2, <1>6, <1>11 DEF OverlayInv, RaisedAbove, Left, Above
<1>14. Settled'
  BY <1>2, <1>6, <1>11 DEF OverlayInv, Settled, Left, InPlace
<1>15. Fresh'
  BY <1>1, <1>2, <1>6 DEF Fresh
<1> QED BY <1>6, <1>7, <1>8, <1>9, <1>10, <1>12, <1>13, <1>14, <1>15 DEF OverlayInv

-----------------------------------------------------------------------------

(* What the step of an overlay makes of its window.                        *)
LEMMA AppliedIs ==
  ASSUME OverlayInv, ApplyOverlay, NEW s \in Overlays, s = Head(xo_todo), xo_surface[s] = "live"
  PROVE  /\ Spares(xo_server, xo_server', s) /\ ShownAbove(xo_server', s)
         /\ xo_server'.win[s].override = xo_work.fullscreen
         /\ Wanted(s) /\ ~Owes(Reconcile) =>
              /\ xo_server'.win[s].mapped \/ (xo_server'.wm[s].map /\ ~xo_work.fullscreen)
              /\ \/ xo_server'.win[s].geom = xo_work.geom
                 \/ xo_server'.wm[s].place = xo_work.geom /\ ~xo_work.fullscreen
         /\ Wanted(s) /\ xo_work.fullscreen /\ (xo_work.reassert \/ (StillMapped(s) => Above(xo_server, s)))
              => Above(xo_server', s)
<1>1. PICK sv : sv = StepOverlay(xo_server, s)
  OBVIOUS
<1>2. xo_at = "apply" /\ xo_server' = IF Reasserts(s) THEN Raise(sv, s) ELSE sv
  BY <1>1 DEF ApplyOverlay
<1>3. /\ xo_server \in Servers /\ ShownAbove(xo_server, s)
      /\ xo_work.geom \in Geoms /\ xo_work.fullscreen \in BOOLEAN /\ xo_work.reassert \in BOOLEAN
      /\ xo_fsm[s].unmanaged \in BOOLEAN
      /\ xo_server.win[s].override = xo_fsm[s].unmanaged
  BY DEF OverlayInv, ServerTyped, ThreadTyped, ManagedAbove, Overridden
<1>4. /\ Spares(xo_server, sv, s) /\ ShownAbove(sv, s)
      /\ sv.win[s].override = xo_work.fullscreen
  BY <1>1, <1>3, StepIs
<1>5. Wanted(s) /\ (StillMapped(s) => xo_server.win[s].mapped /\ xo_seen.geom = xo_server.win[s].geom) =>
        /\ sv.win[s].mapped \/ (sv.wm[s].map /\ ~xo_work.fullscreen)
        /\ \/ sv.win[s].geom = xo_work.geom
           \/ sv.wm[s].place = xo_work.geom /\ ~xo_work.fullscreen
  BY <1>1, <1>3, StepIs
<1>6. Wanted(s) /\ xo_work.fullscreen /\ (StillMapped(s) => Above(xo_server, s)) => Above(sv, s)
  BY <1>1, <1>3, StepIs
<1>7. ~Owes(Reconcile) /\ StillMapped(s) =>
        xo_server.win[s].mapped /\ xo_seen.geom = xo_server.win[s].geom
  BY <1>2 DEF OverlayInv, Fresh, StillMapped
<1>8. sv \in Servers
  BY <1>4 DEF Spares
<1>9. /\ xo_server'.win = sv.win /\ xo_server'.wm = sv.wm
      /\ Spares(xo_server, xo_server', s)
      /\ Above(sv, s) => Above(xo_server', s)
      /\ Reasserts(s) => Above(xo_server', s)
  <2>1. CASE Reasserts(s)
    <3>1. xo_server' = Raise(sv, s) /\ sv.win[s].override
      BY <2>1, <1>2, <1>4 DEF Reasserts
    <3>2. /\ Spares(sv, xo_server', s) /\ xo_server'.win = sv.win /\ xo_server'.wm = sv.wm
          /\ Above(xo_server', s)
      BY <3>1, <1>8, RaiseIs
    <3> QED BY <3>2, <1>3, <1>4, SparesAll
  <2>2. CASE ~Reasserts(s)
    <3>1. xo_server' = sv
      BY <2>2, <1>2
    <3> QED BY <3>1, <2>2, <1>4
  <2> QED BY <2>1, <2>2
<1>10. ShownAbove(xo_server', s)
  BY <1>4, <1>9 DEF ShownAbove
<1>11. Wanted(s) /\ xo_work.fullscreen /\ xo_work.reassert => Reasserts(s)
  BY DEF Reasserts
<1> QED BY <1>4, <1>5, <1>6, <1>7, <1>9, <1>10, <1>11

LEMMA ApplyStep ==
  ASSUME OverlayInv, ApplyOverlay
  PROVE  OverlayInv'
<1>1. PICK s : s = Head(xo_todo)
  OBVIOUS
<1>2. /\ xo_at = "apply" /\ xo_todo' = Tail(xo_todo) /\ xo_seen' = NotSeen
      /\ xo_at' = IF xo_todo' = <<>> THEN "loop" ELSE "pass"
      /\ UNCHANGED <<xocef, xoqueue, xo_pending, xo_batch, xo_work, xo_order, xo_parsed, xo_moves>>
  BY DEF ApplyOverlay
<1>3. UNCHANGED <<xo_surface, xo_visible, xo_asked, xo_hand, xo_ops, xo_commands, xo_resync>>
  BY <1>2 DEF xocef, xoqueue
<1>4. xo_todo # <<>> /\ xo_todo \in Seq(Overlays) /\ xo_batch = <<>>
  BY <1>2 DEF OverlayInv, Places, ThreadTyped
<1>5. s \in Overlays /\ xo_todo' \in Seq(Overlays) /\ ToSet(xo_todo) = {s} \cup ToSet(xo_todo')
  BY <1>1, <1>2, <1>4, HeadAndTail
<1>6. Has(s)
  BY <1>5 DEF OverlayInv, Owned
<1>7. /\ xo_server \in Servers /\ xo_parsed \in NewsRecords /\ xo_pending \in 0..3
      /\ xo_fsm \in [Overlays -> [mapped : BOOLEAN, unmanaged : BOOLEAN]]
      /\ xo_work.fullscreen \in BOOLEAN /\ xo_visible \in [Overlays -> BOOLEAN]
      /\ xo_work.mapped \in BOOLEAN
  BY DEF OverlayInv, ServerTyped, ThreadTyped, CefTyped
<1>8. /\ Spares(xo_server, xo_server', s) /\ ShownAbove(xo_server', s)
      /\ xo_server'.win[s].override = xo_fsm'[s].unmanaged
  <2>1. CASE xo_surface[s] = "live"
    <3>1. /\ Spares(xo_server, xo_server', s) /\ ShownAbove(xo_server', s)
          /\ xo_server'.win[s].override = xo_work.fullscreen
      BY <2>1, <1>1, <1>5, AppliedIs
    <3>2. xo_fsm' = [xo_fsm EXCEPT ![s] = [mapped |-> Wanted(s), unmanaged |-> xo_work.fullscreen]]
      BY <2>1, <1>1 DEF ApplyOverlay
    <3>3. xo_fsm'[s].unmanaged = xo_work.fullscreen
      BY <3>2, <1>5, <1>7
    <3> QED BY <3>1, <3>3
  <2>2. CASE xo_surface[s] # "live"
    <3>1. xo_fsm' = xo_fsm /\ xo_server' = xo_server
      BY <2>2, <1>1 DEF ApplyOverlay
    <3>2. Spares(xo_server, xo_server, s)
      BY <1>7, ServerParts DEF Spares
    <3>3. ShownAbove(xo_server, s) /\ xo_server.win[s].override = xo_fsm[s].unmanaged
      BY <1>5 DEF OverlayInv, ManagedAbove, Overridden
    <3> QED BY <3>1, <3>2, <3>3
  <2> QED BY <2>1, <2>2
<1>9. /\ xo_fsm' \in [Overlays -> [mapped : BOOLEAN, unmanaged : BOOLEAN]]
      /\ \A t \in Overlays : t # s => xo_fsm'[t] = xo_fsm[t]
  <2>1. CASE xo_surface[s] = "live"
    <3>1. xo_fsm' = [xo_fsm EXCEPT ![s] = [mapped |-> Wanted(s), unmanaged |-> xo_work.fullscreen]]
      BY <2>1, <1>1 DEF ApplyOverlay
    <3>2. Wanted(s) \in BOOLEAN
      BY DEF Wanted
    <3> QED BY <3>1, <3>2, <1>7
  <2>2. CASE xo_surface[s] # "live"
    <3>1. xo_fsm' = xo_fsm
      BY <2>2, <1>1 DEF ApplyOverlay
    <3> QED BY <3>1, <1>7
  <2> QED BY <2>1, <2>2
<1>10. /\ xo_server' \in Servers /\ xo_server'.parent = xo_server.parent
       /\ xo_server'.news.parent = xo_server.news.parent
       /\ xo_server'.news.level >= xo_server.news.level
       /\ \A t \in Overlays : Has(t)' <=> Has(t)
       /\ \A t \in Overlays : t # s =>
            /\ xo_server'.win[t] = xo_server.win[t] /\ xo_server'.wm[t] = xo_server.wm[t]
            /\ (Above(xo_server', t) <=> Above(xo_server, t))
  BY <1>8 DEF Spares, Has
<1>11. /\ xo_server'.news \in NewsRecords /\ xo_server.news \in NewsRecords
       /\ xo_server'.news.level \in 0..3 /\ xo_server.news.level \in 0..3
  BY <1>7, <1>10, ServerParts
<1>12. (Owes(Reconcile) => Owes(Reconcile)') /\ (Owes(Restack) => Owes(Restack)')
  BY <1>2, <1>10, <1>11 DEF Owes, Reconcile, Restack
<1>13. CefTyped' /\ QueueTyped' /\ Lives' /\ (Requested' <=> Requested)
  <2>1. xo_moves' \in 0..MaxParentMoves
    BY <1>2 DEF OverlayInv, CefTyped
  <2> QED BY <2>1, <1>2, <1>3, <1>10, CommandsStay
<1>14. ServerTyped'
  BY <1>2, <1>7, <1>10 DEF ServerTyped
<1>15. ThreadTyped'
  <2>1. xo_seen' \in [geom : Geoms \cup {NoGeom}, mapped : BOOLEAN]
    BY <1>2 DEF NotSeen
  <2>2. xo_at' \in {"loop", "commands", "pass", "apply"}
    BY <1>2
  <2> QED BY <2>1, <2>2, <1>2, <1>5, <1>9 DEF OverlayInv, ThreadTyped
<1>16. Places'
  BY <1>2, <1>3, <1>4 DEF OverlayInv, Places
<1>17. Owned'
  <2>1. ToSet(xo_todo') \subseteq Overlays
    BY <1>5 DEF ToSet
  <2>2. \A t \in Overlays : Has(t)' <=> t \in ToSet(xo_order')
    BY <1>2, <1>10 DEF OverlayInv, Owned
  <2>3. \A t \in ToSet(xo_todo') : Has(t)'
    BY <2>1, <1>5, <1>10 DEF OverlayInv, Owned
  <2> QED BY <2>2, <2>3 DEF Owned
<1>18. Unmade'
  <2> SUFFICES ASSUME NEW t \in Overlays, ~Has(t)'
               PROVE  /\ xo_server'.win[t] = NoWindow /\ xo_server'.wm[t] = NoRequest
                      /\ ~xo_fsm'[t].mapped
    BY DEF Unmade
  <2>1. ~Has(t) /\ t # s
    BY <1>6, <1>10
  <2>2. xo_server.win[t] = NoWindow /\ xo_server.wm[t] = NoRequest /\ ~xo_fsm[t].mapped
    BY <2>1 DEF OverlayInv, Unmade
  <2> QED BY <2>1, <2>2, <1>9, <1>10
<1>19. Overridden'
  <2> SUFFICES ASSUME NEW t \in Overlays
               PROVE  xo_server'.win[t].override = xo_fsm'[t].unmanaged
    BY DEF Overridden
  <2>1. CASE t = s
    BY <2>1, <1>8
  <2>2. CASE t # s
    <3>1. xo_server.win[t].override = xo_fsm[t].unmanaged
      BY DEF OverlayInv, Overridden
    <3> QED BY <3>1, <2>2, <1>9, <1>10
  <2> QED BY <2>1, <2>2
<1>20. ManagedAbove'
  <2> SUFFICES ASSUME NEW t \in Overlays PROVE ShownAbove(xo_server', t)
    BY DEF ManagedAbove
  <2>1. CASE t = s
    BY <2>1, <1>8
  <2>2. CASE t # s
    <3>1. ShownAbove(xo_server, t)
      BY DEF OverlayInv, ManagedAbove
    <3> QED BY <3>1, <2>2, <1>10 DEF ShownAbove
  <2> QED BY <2>1, <2>2
<1>21. ParentKnown'
  BY <1>2, <1>10, <1>12 DEF OverlayInv, ParentKnown
<1>22. MappedKnown'
  <2>1. KnowsMapped(xo_parsed, xo_server.news, xo_work.mapped, xo_server.parent.mapped)
    BY DEF OverlayInv, MappedKnown
  <2>2. KnowsMapped(xo_parsed, xo_server'.news, xo_work.mapped, xo_server.parent.mapped)
    BY <2>1, <1>7, <1>10, <1>11, TellKnows
  <2> QED BY <2>2, <1>2, <1>10 DEF MappedKnown
<1>23. \A t \in Overlays :
         /\ Lively(t)' <=> Lively(t)
         /\ Wanted(t)' <=> Wanted(t)
         /\ t # s => (Left(t)' <=> Left(t))
  BY <1>2, <1>3, <1>5, <1>10 DEF Lively, Wanted, Left
<1>24. RaisedAbove'
  <2> SUFFICES ASSUME NEW t \in Overlays, Lively(t)', Wanted(t)', xo_server'.win[t].override,
                      ~(Owes(Restack)' \/ Requested'), ~(Left(t)' /\ xo_work'.reassert)
               PROVE  Above(xo_server', t)
    BY DEF RaisedAbove
  <2>1. Lively(t) /\ Wanted(t) /\ ~Owes(Restack) /\ ~Requested /\ xo_work' = xo_work
    BY <1>2, <1>12, <1>13, <1>23
  <2>2. CASE t = s
    <3>1. xo_surface[s] = "live"
      BY <2>1, <2>2 DEF Lively
    <3>2. /\ xo_server'.win[s].override = xo_work.fullscreen
          /\ Wanted(s) /\ xo_work.fullscreen
               /\ (xo_work.reassert \/ (StillMapped(s) => Above(xo_server, s)))
               => Above(xo_server', s)
      BY <3>1, <1>1, <1>5, AppliedIs
    <3>3. Wanted(s) /\ xo_work.fullscreen
      BY <2>1, <2>2, <3>2
    <3>4. ASSUME ~xo_work.reassert, StillMapped(s) PROVE Above(xo_server, s)
      <4>1. xo_fsm[s].unmanaged = xo_work.fullscreen
        BY <3>4 DEF StillMapped, Flips
      <4>2. xo_server.win[s].override
        BY <4>1, <3>3, <1>5 DEF OverlayInv, Overridden
      <4> QED BY <4>2, <3>4, <2>1, <2>2 DEF OverlayInv, RaisedAbove
    <3> QED BY <2>2, <3>2, <3>3, <3>4
  <2>3. CASE t # s
    <3>1. ~(Left(t) /\ xo_work.reassert) /\ xo_server.win[t].override
      BY <2>1, <2>3, <1>10, <1>23
    <3>2. Above(xo_server, t)
      BY <2>1, <3>1 DEF OverlayInv, RaisedAbove
    <3> QED BY <3>2, <2>3, <1>10
  <2> QED BY <2>2, <2>3
<1>25. Settled'
  <2> SUFFICES ASSUME NEW t \in Overlays, Lively(t)', ~Requested', ~Owes(Reconcile)', ~Left(t)'
               PROVE  /\ (xo_fsm'[t].mapped <=> Wanted(t)')
                      /\ xo_fsm'[t].unmanaged = xo_work'.fullscreen
                      /\ Wanted(t)' => InPlace(t)'
    BY DEF Settled
  <2>1. Lively(t) /\ ~Owes(Reconcile) /\ ~Requested /\ xo_work' = xo_work /\ (Wanted(t)' <=> Wanted(t))
    BY <1>2, <1>12, <1>13, <1>23
  <2>2. CASE t = s
    <3>1. xo_surface[s] = "live"
      BY <2>1, <2>2 DEF Lively
    <3>2. /\ xo_server'.win[s].override = xo_work.fullscreen
          /\ Wanted(s) =>
               /\ xo_server'.win[s].mapped \/ (xo_server'.wm[s].map /\ ~xo_work.fullscreen)
               /\ \/ xo_server'.win[s].geom = xo_work.geom
                  \/ xo_server'.wm[s].place = xo_work.geom /\ ~xo_work.fullscreen
      BY <3>1, <2>1, <1>1, <1>5, AppliedIs
    <3>3. xo_fsm' = [xo_fsm EXCEPT ![s] = [mapped |-> Wanted(s), unmanaged |-> xo_work.fullscreen]]
      BY <3>1, <1>1 DEF ApplyOverlay
    <3>4. (xo_fsm'[s].mapped <=> Wanted(s)) /\ xo_fsm'[s].unmanaged = xo_work.fullscreen
      BY <3>3, <1>5, <1>7
    <3>5. Wanted(s) => InPlace(s)'
      BY <3>2, <2>1 DEF InPlace
    <3> QED BY <2>1, <2>2, <3>4, <3>5
  <2>3. CASE t # s
    <3>1. ~Left(t)
      BY <2>3, <1>23
    <3>2. /\ (xo_fsm[t].mapped <=> Wanted(t)) /\ xo_fsm[t].unmanaged = xo_work.fullscreen
          /\ Wanted(t) => InPlace(t)
      BY <3>1, <2>1 DEF OverlayInv, Settled
    <3>3. xo_fsm'[t] = xo_fsm[t] /\ (InPlace(t)' <=> InPlace(t))
      BY <2>1, <2>3, <1>9, <1>10 DEF InPlace
    <3> QED BY <2>1, <3>2, <3>3
  <2> QED BY <2>2, <2>3
<1>26. Fresh'
  BY <1>2 DEF Fresh
<1> QED BY <1>13, <1>14, <1>15, <1>16, <1>17, <1>18, <1>19, <1>20, <1>21, <1>22, <1>24, <1>25, <1>26
        DEF OverlayInv

-----------------------------------------------------------------------------

(* What the world outside does to the windows leaves the client as it was. *)
LEMMA OutsideStays ==
  ASSUME OverlayInv, WmKeeps, xo_moves' \in 0..MaxParentMoves, xo_server' \in Servers,
         \A t \in Overlays : xo_server'.win[t].made = xo_server.win[t].made,
         xo_server'.news.level >= xo_server.news.level
  PROVE  /\ ServerTyped' /\ CefTyped' /\ ThreadTyped' /\ QueueTyped' /\ Places' /\ Owned' /\ Lives'
         /\ UNCHANGED <<xo_at, xo_work, xo_fsm, xo_todo, xo_seen, xo_parsed>>
         /\ (Requested' <=> Requested)
         /\ \A t \in Overlays :
              /\ Has(t)' <=> Has(t)
              /\ Lively(t)' <=> Lively(t)
              /\ Wanted(t)' <=> Wanted(t)
              /\ Left(t)' <=> Left(t)
         /\ (Owes(Reconcile) => Owes(Reconcile)') /\ (Owes(Restack) => Owes(Restack)')
         /\ xo_server'.news.level \in 0..3 /\ xo_server.news.level \in 0..3
<1>1. UNCHANGED <<xo_surface, xo_visible, xo_asked, xo_hand, xo_ops, xo_commands, xo_resync,
                  xo_at, xo_batch, xo_work, xo_order, xo_fsm, xo_todo, xo_seen, xo_pending, xo_parsed>>
  BY DEF WmKeeps, xocef, xoqueue, xothread
<1>2. \A t \in Overlays : Has(t)' <=> Has(t)
  BY DEF Has
<1>3. CefTyped' /\ QueueTyped' /\ Lives' /\ (Requested' <=> Requested)
  BY <1>1, <1>2, CommandsStay
<1>4. ServerTyped' /\ ThreadTyped'
  BY <1>1 DEF OverlayInv, ServerTyped, ThreadTyped
<1>5. Places'
  BY <1>1 DEF OverlayInv, Places
<1>6. Owned'
  <2>1. ToSet(xo_todo) \subseteq Overlays
    BY DEF OverlayInv, ThreadTyped, ToSet
  <2> QED BY <2>1, <1>1, <1>2 DEF OverlayInv, Owned
<1>7. \A t \in Overlays : (Lively(t)' <=> Lively(t)) /\ (Wanted(t)' <=> Wanted(t)) /\ (Left(t)' <=> Left(t))
  BY <1>1, <1>2 DEF Lively, Wanted, Left
<1>8. xo_server'.news.level \in 0..3 /\ xo_server.news.level \in 0..3
  BY ServerParts DEF OverlayInv, ServerTyped
<1>9. (Owes(Reconcile) => Owes(Reconcile)') /\ (Owes(Restack) => Owes(Restack)')
  BY <1>1, <1>8 DEF Owes, Reconcile, Restack
<1> QED BY <1>1, <1>2, <1>3, <1>4, <1>5, <1>6, <1>7, <1>8, <1>9

(* What the window manager does to one window: it tells of a change of its *)
(* place, of its stacking or of its being mapped.                          *)
LEMMA WmStep ==
  ASSUME OverlayInv, WmKeeps, UNCHANGED xo_moves, NEW s \in Overlays, Has(s),
         Spares(xo_server, xo_server', s), ShownAbove(xo_server', s),
         xo_server'.win[s].override = xo_server.win[s].override,
         \/ xo_server'.news.level >= Reconcile
         \/ /\ xo_server.win[s].mapped => xo_server'.win[s].mapped
            /\ xo_server'.win[s].geom = xo_server.win[s].geom
            /\ InPlace(s) => InPlace(s)'
  PROVE  OverlayInv'
<1>1. /\ xo_server' \in Servers /\ xo_server'.parent = xo_server.parent
      /\ xo_server'.news.parent = xo_server.news.parent
      /\ xo_server'.news.level >= xo_server.news.level
      /\ \A t \in Overlays : xo_server'.win[t].made = xo_server.win[t].made
      /\ \A t \in Overlays : t # s =>
           /\ xo_server'.win[t] = xo_server.win[t] /\ xo_server'.wm[t] = xo_server.wm[t]
           /\ (Above(xo_server', t) <=> Above(xo_server, t))
      /\ Above(xo_server, s) => Above(xo_server', s)
  BY DEF Spares
<1>2. xo_moves' \in 0..MaxParentMoves
  BY DEF OverlayInv, CefTyped
<1>3. /\ ServerTyped' /\ CefTyped' /\ ThreadTyped' /\ QueueTyped' /\ Places' /\ Owned' /\ Lives'
      /\ UNCHANGED <<xo_at, xo_work, xo_fsm, xo_todo, xo_seen, xo_parsed>>
      /\ (Requested' <=> Requested)
      /\ \A t \in Overlays :
           /\ Has(t)' <=> Has(t)
           /\ Lively(t)' <=> Lively(t)
           /\ Wanted(t)' <=> Wanted(t)
           /\ Left(t)' <=> Left(t)
      /\ (Owes(Reconcile) => Owes(Reconcile)') /\ (Owes(Restack) => Owes(Restack)')
      /\ xo_server'.news.level \in 0..3 /\ xo_server.news.level \in 0..3
  BY <1>1, <1>2, OutsideStays
<1>4. ~Owes(Reconcile)' =>
        /\ xo_server.win[s].mapped => xo_server'.win[s].mapped
        /\ xo_server'.win[s].geom = xo_server.win[s].geom
        /\ InPlace(s) => InPlace(s)'
  BY DEF Owes
<1>5. Unmade'
  <2> SUFFICES ASSUME NEW t \in Overlays, ~Has(t)'
               PROVE  /\ xo_server'.win[t] = NoWindow /\ xo_server'.wm[t] = NoRequest
                      /\ ~xo_fsm'[t].mapped
    BY DEF Unmade
  <2>1. ~Has(t) /\ t # s
    BY <1>3
  <2>2. xo_server.win[t] = NoWindow /\ xo_server.wm[t] = NoRequest /\ ~xo_fsm[t].mapped
    BY <2>1 DEF OverlayInv, Unmade
  <2> QED BY <2>1, <2>2, <1>1, <1>3
<1>6. Overridden'
  <2> SUFFICES ASSUME NEW t \in Overlays
               PROVE  xo_server'.win[t].override = xo_fsm'[t].unmanaged
    BY DEF Overridden
  <2>1. xo_server.win[t].override = xo_fsm[t].unmanaged /\ xo_fsm' = xo_fsm
    BY <1>3 DEF OverlayInv, Overridden
  <2> QED BY <2>1, <1>1
<1>7. ManagedAbove'
  <2> SUFFICES ASSUME NEW t \in Overlays, t # s PROVE ShownAbove(xo_server', t)
    BY DEF ManagedAbove
  <2>1. ShownAbove(xo_server, t)
    BY DEF OverlayInv, ManagedAbove
  <2> QED BY <2>1, <1>1 DEF ShownAbove
<1>8. ParentKnown'
  BY <1>1, <1>3 DEF OverlayInv, ParentKnown
<1>9. MappedKnown'
  <2>1. KnowsMapped(xo_parsed, xo_server.news, xo_work.mapped, xo_server.parent.mapped)
    BY DEF OverlayInv, MappedKnown
  <2>2. /\ xo_server'.news \in NewsRecords /\ xo_server.news \in NewsRecords
        /\ xo_parsed \in NewsRecords
    BY <1>1, ServerParts DEF OverlayInv, ServerTyped
  <2>3. KnowsMapped(xo_parsed, xo_server'.news, xo_work.mapped, xo_server.parent.mapped)
    BY <2>1, <2>2, <1>1, TellKnows
  <2> QED BY <2>3, <1>1, <1>3 DEF MappedKnown
<1>10. RaisedAbove'
  <2> SUFFICES ASSUME NEW t \in Overlays, Lively(t)', Wanted(t)', xo_server'.win[t].override,
                      ~(Owes(Restack)' \/ Requested'), ~(Left(t)' /\ xo_work'.reassert)
               PROVE  Above(xo_server', t)
    BY DEF RaisedAbove
  <2>1. /\ Lively(t) /\ Wanted(t) /\ ~Owes(Restack) /\ ~Requested /\ ~(Left(t) /\ xo_work.reassert)
        /\ xo_server.win[t].override
    BY <1>1, <1>3
  <2>2. Above(xo_server, t)
    BY <2>1 DEF OverlayInv, RaisedAbove
  <2> QED BY <2>2, <1>1
<1>11. Settled'
  <2> SUFFICES ASSUME NEW t \in Overlays, Lively(t)', ~Requested', ~Owes(Reconcile)', ~Left(t)'
               PROVE  /\ (xo_fsm'[t].mapped <=> Wanted(t)')
                      /\ xo_fsm'[t].unmanaged = xo_work'.fullscreen
                      /\ Wanted(t)' => InPlace(t)'
    BY DEF Settled
  <2>1. Lively(t) /\ ~Requested /\ ~Owes(Reconcile) /\ ~Left(t)
    BY <1>3
  <2>2. /\ (xo_fsm[t].mapped <=> Wanted(t)) /\ xo_fsm[t].unmanaged = xo_work.fullscreen
        /\ Wanted(t) => InPlace(t)
    BY <2>1 DEF OverlayInv, Settled
  <2>3. InPlace(t) => InPlace(t)'
    BY <1>1, <1>3, <1>4 DEF InPlace
  <2> QED BY <2>2, <2>3, <1>3
<1>12. Fresh'
  <2> SUFFICES ASSUME xo_at' = "apply", ~Owes(Reconcile)'
               PROVE  LET win == xo_server'.win[Head(xo_todo')]
                      IN  (xo_seen'.mapped => win.mapped) /\ xo_seen'.geom = win.geom
    BY DEF Fresh
  <2>1. PICK h : h = Head(xo_todo)
    OBVIOUS
  <2>2. xo_at = "apply" /\ ~Owes(Reconcile) /\ h = Head(xo_todo')
    BY <2>1, <1>3
  <2>3. h \in Overlays
    <3>1. xo_todo \in Seq(Overlays) /\ xo_todo # <<>>
      BY <2>2 DEF OverlayInv, ThreadTyped, Places
    <3> QED BY <2>1, <3>1, HeadAndTail
  <2>4. (xo_seen.mapped => xo_server.win[h].mapped) /\ xo_seen.geom = xo_server.win[h].geom
    BY <2>1, <2>2 DEF OverlayInv, Fresh
  <2> QED BY <2>2, <2>3, <2>4, <1>1, <1>3, <1>4
<1> QED BY <1>3, <1>5, <1>6, <1>7, <1>8, <1>9, <1>10, <1>11, <1>12 DEF OverlayInv

(* What happens to the parent is told: only what a restack redoes may be   *)
(* left as it is not, and only by news that asks for one.                  *)
LEMMA ParentStep ==
  ASSUME OverlayInv, WmKeeps, xo_moves < MaxParentMoves, xo_moves' = xo_moves + 1,
         xo_server' \in Servers, xo_server'.win = xo_server.win, xo_server'.wm = xo_server.wm,
         xo_server'.news.level >= xo_server.news.level, xo_server'.news.level >= Reconcile,
         ManagedAbove', MappedKnown',
         \/ xo_server'.news.level >= Restack
         \/ /\ xo_server'.stack = xo_server.stack
            /\ xo_server'.parent.geom = xo_server.parent.geom
            /\ xo_server'.parent.fullscreen = xo_server.parent.fullscreen
  PROVE  OverlayInv'
<1>1. xo_moves' \in 0..MaxParentMoves
  BY X11Assumption DEF OverlayInv, CefTyped
<1>2. /\ ServerTyped' /\ CefTyped' /\ ThreadTyped' /\ QueueTyped' /\ Places' /\ Owned' /\ Lives'
      /\ UNCHANGED <<xo_at, xo_work, xo_fsm, xo_todo, xo_seen, xo_parsed>>
      /\ (Requested' <=> Requested)
      /\ \A t \in Overlays :
           /\ Has(t)' <=> Has(t)
           /\ Lively(t)' <=> Lively(t)
           /\ Wanted(t)' <=> Wanted(t)
           /\ Left(t)' <=> Left(t)
      /\ (Owes(Reconcile) => Owes(Reconcile)') /\ (Owes(Restack) => Owes(Restack)')
      /\ xo_server'.news.level \in 0..3 /\ xo_server.news.level \in 0..3
  BY <1>1, OutsideStays
<1>3. Owes(Reconcile)'
  BY DEF Owes
<1>4. Unmade' /\ Overridden'
  BY <1>2 DEF OverlayInv, Unmade, Overridden
<1>5. Settled' /\ Fresh'
  BY <1>3 DEF Settled, Fresh
<1>6. ParentKnown'
  <2>1. CASE xo_server'.news.level >= Restack
    BY <2>1 DEF ParentKnown, Owes
  <2>2. CASE /\ xo_server'.parent.geom = xo_server.parent.geom
             /\ xo_server'.parent.fullscreen = xo_server.parent.fullscreen
    BY <2>2, <1>2 DEF OverlayInv, ParentKnown, Full
  <2> QED BY <2>1, <2>2
<1>7. RaisedAbove'
  <2>1. CASE xo_server'.news.level >= Restack
    BY <2>1 DEF RaisedAbove, Owes
  <2>2. CASE xo_server'.stack = xo_server.stack
    <3> SUFFICES ASSUME NEW t \in Overlays, Lively(t)', Wanted(t)', xo_server'.win[t].override,
                        ~(Owes(Restack)' \/ Requested'), ~(Left(t)' /\ xo_work'.reassert)
                 PROVE  Above(xo_server', t)
      BY DEF RaisedAbove
    <3>1. /\ Lively(t) /\ Wanted(t) /\ ~Owes(Restack) /\ ~Requested
          /\ ~(Left(t) /\ xo_work.reassert) /\ xo_server.win[t].override
      BY <1>2
    <3>2. Above(xo_server, t)
      BY <3>1 DEF OverlayInv, RaisedAbove
    <3> QED BY <3>2, <2>2 DEF Above
  <2> QED BY <2>1, <2>2
<1> QED BY <1>2, <1>4, <1>5, <1>6, <1>7 DEF OverlayInv

LEMMA UnmappedStep ==
  ASSUME OverlayInv, NEW s \in Overlays, WmSeesUnmapped(s)
  PROVE  OverlayInv'
<1>1. PICK seen : seen = [xo_server EXCEPT !.wm[s].unmapped = FALSE, !.win[s].managed = FALSE]
  OBVIOUS
<1>2. /\ xo_server.wm[s].unmapped /\ xo_server' \in {seen, Unmap(seen, s)}
      /\ WmKeeps /\ UNCHANGED xo_moves
  BY <1>1 DEF WmSeesUnmapped
<1>3. /\ xo_server \in Servers /\ xo_server.win \in [Overlays -> WindowRecords]
      /\ xo_server.wm \in [Overlays -> RequestRecords]
  BY ServerParts DEF OverlayInv, ServerTyped
<1>4. PICK w : w = [xo_server.win[s] EXCEPT !.managed = FALSE]
  OBVIOUS
<1>5. PICK r : r = [xo_server.wm[s] EXCEPT !.unmapped = FALSE]
  OBVIOUS
<1>6. /\ w \in WindowRecords /\ w.made = xo_server.win[s].made
      /\ w.mapped = xo_server.win[s].mapped /\ w.override = xo_server.win[s].override
      /\ w.geom = xo_server.win[s].geom /\ r \in RequestRecords
      /\ r.map = xo_server.wm[s].map /\ r.place = xo_server.wm[s].place
  <2>1. xo_server.win[s] \in WindowRecords /\ xo_server.wm[s] \in RequestRecords
    BY <1>3
  <2> QED BY <2>1, <1>4, <1>5 DEF WindowRecords, RequestRecords
<1>7. /\ seen.win = [xo_server.win EXCEPT ![s] = w] /\ seen.wm = [xo_server.wm EXCEPT ![s] = r]
      /\ seen.stack = xo_server.stack /\ seen.parent = xo_server.parent
      /\ seen.news = xo_server.news
      /\ seen = [win |-> seen.win, stack |-> seen.stack, parent |-> seen.parent,
                 wm |-> seen.wm, news |-> seen.news]
  BY <1>1, <1>3, <1>4, <1>5 DEF Servers
<1>8. seen \in Servers
  <2>1. seen.win \in [Overlays -> WindowRecords] /\ seen.wm \in [Overlays -> RequestRecords]
    BY <1>3, <1>6, <1>7
  <2> QED BY <2>1, <1>3, <1>7, ServerParts DEF Servers
<1>9. seen.win[s] = w /\ seen.wm[s] = r
  BY <1>3, <1>7
<1>10. Spares(xo_server, seen, s)
  <2>1. \A t \in Overlays : t # s => seen.win[t] = xo_server.win[t] /\ seen.wm[t] = xo_server.wm[t]
    BY <1>3, <1>7
  <2>2. \A t \in Overlays : seen.win[t].made = xo_server.win[t].made
    BY <2>1, <1>6, <1>9
  <2>3. xo_server.news.level >= xo_server.news.level
    BY <1>3, ServerParts
  <2> QED BY <2>1, <2>2, <2>3, <1>7, <1>8 DEF Spares, Above
<1>11. Has(s)
  BY <1>2 DEF OverlayInv, Unmade, NoRequest
<1>12. ~(w.mapped /\ ~w.override)
  BY <1>2, <1>6 DEF OverlayInv, ManagedAbove, ShownAbove
<1>13. CASE xo_server' = seen
  <2>1. ShownAbove(seen, s)
    BY <1>9, <1>12 DEF ShownAbove
  <2>2. InPlace(s) => InPlace(s)'
    <3>1. xo_work' = xo_work
      BY <1>2 DEF WmKeeps, xothread
    <3> QED BY <3>1, <1>6, <1>9, <1>13 DEF InPlace
  <2> QED BY <2>1, <2>2, <1>2, <1>6, <1>9, <1>10, <1>11, <1>13, WmStep
<1>14. CASE xo_server' = Unmap(seen, s) /\ seen.win[s].mapped
  <2>1. /\ Spares(seen, xo_server', s) /\ ~xo_server'.win[s].mapped
        /\ xo_server'.win[s].override = seen.win[s].override
        /\ xo_server'.news.level >= Reconcile
    BY <1>8, <1>14, UnmapIs
  <2>2. Spares(xo_server, xo_server', s)
    BY <2>1, <1>3, <1>10, SparesAll
  <2>3. ShownAbove(xo_server', s)
    BY <2>1 DEF ShownAbove
  <2> QED BY <2>1, <2>2, <2>3, <1>2, <1>6, <1>9, <1>11, WmStep
<1>15. CASE xo_server' = Unmap(seen, s) /\ ~seen.win[s].mapped
  BY <1>13, <1>15 DEF Unmap
<1> QED BY <1>2, <1>13, <1>14, <1>15

LEMMA WmMapsStep ==
  ASSUME OverlayInv, NEW s \in Overlays, WmMaps(s)
  PROVE  OverlayInv'
<1>1. PICK asked : asked = [xo_server EXCEPT !.wm[s].map = FALSE]
  OBVIOUS
<1>2. PICK stack : stack = OnTop(asked, s)
  OBVIOUS
<1>3. /\ xo_server \in Servers /\ xo_server.win \in [Overlays -> WindowRecords]
      /\ xo_server.wm \in [Overlays -> RequestRecords]
      /\ xo_server.win[s] \in WindowRecords /\ xo_server.wm[s] \in RequestRecords
  BY ServerParts DEF OverlayInv, ServerTyped
<1>4. PICK r : r = [xo_server.wm[s] EXCEPT !.map = FALSE]
  OBVIOUS
<1>5. r \in RequestRecords /\ r.unmapped = xo_server.wm[s].unmapped /\ r.place = xo_server.wm[s].place
  BY <1>3, <1>4 DEF RequestRecords
<1>6. /\ asked.win = xo_server.win /\ asked.wm = [xo_server.wm EXCEPT ![s] = r]
      /\ asked.stack = xo_server.stack /\ asked.parent = xo_server.parent
      /\ asked.news = xo_server.news
      /\ asked = [win |-> asked.win, stack |-> asked.stack, parent |-> asked.parent,
                  wm |-> asked.wm, news |-> asked.news]
  BY <1>1, <1>3, <1>4 DEF Servers
<1>7. asked \in Servers /\ asked.wm[s] = r
  <2>1. asked.wm \in [Overlays -> RequestRecords]
    BY <1>3, <1>5, <1>6
  <2> QED BY <2>1, <1>3, <1>6, ServerParts DEF Servers
<1>8. Spares(xo_server, asked, s)
  <2>1. \A t \in Overlays : t # s => asked.wm[t] = xo_server.wm[t]
    BY <1>3, <1>6
  <2>2. xo_server.news.level >= xo_server.news.level
    BY <1>3, ServerParts
  <2> QED BY <2>1, <2>2, <1>6, <1>7 DEF Spares, Above
<1>9. /\ xo_server.wm[s].map /\ ~xo_server.wm[s].unmapped /\ WmKeeps /\ UNCHANGED xo_moves
      /\ xo_work' = xo_work
  BY DEF WmMaps, WmKeeps, xothread
<1>10. Has(s)
  BY <1>9 DEF OverlayInv, Unmade, NoRequest
<1>11. CASE xo_server.win[s].override
  <2>1. xo_server' = asked
    BY <1>1, <1>6, <1>11 DEF WmMaps
  <2>2. ShownAbove(asked, s)
    BY <1>6, <1>11 DEF ShownAbove
  <2>3. InPlace(s) => InPlace(s)'
    BY <2>1, <1>6, <1>9, <1>11 DEF InPlace
  <2> QED BY <2>1, <2>2, <2>3, <1>6, <1>8, <1>9, <1>10, WmStep
<1>12. CASE ~xo_server.win[s].override
  <2> DEFINE At(g) == [asked EXCEPT !.win[s].mapped = TRUE, !.win[s].managed = TRUE,
                                    !.win[s].geom = g, !.stack = stack]
  <2>a. PICK g \in {asked.win[s].geom, "window"} :
          xo_server' = IF At(g) = [At(g) EXCEPT !.win[s].geom = asked.win[s].geom,
                                                !.stack = asked.stack]
                       THEN At(g) ELSE Telling(At(g), Reconcile)
    <3>1. ~asked.win[s].override
      BY <1>6, <1>12
    <3> QED BY <3>1, <1>1, <1>2 DEF WmMaps
  <2> HIDE DEF At
  <2>b. PICK at : at = At(g)
    OBVIOUS
  <2>1. /\ at = [asked EXCEPT !.win[s].mapped = TRUE, !.win[s].managed = TRUE,
                              !.win[s].geom = g, !.stack = stack]
        /\ xo_server' = IF at = [at EXCEPT !.win[s].geom = asked.win[s].geom,
                                           !.stack = asked.stack]
                        THEN at ELSE Telling(at, Reconcile)
    <3>1. at = [asked EXCEPT !.win[s].mapped = TRUE, !.win[s].managed = TRUE,
                             !.win[s].geom = g, !.stack = stack]
      BY <2>b DEF At
    <3> QED BY <3>1, <2>a, <2>b
  <2>2. g \in Geoms
    BY <1>3, <1>6, <2>1 DEF WindowRecords, Geoms
  <2>3. PICK w : w = [xo_server.win[s] EXCEPT !.mapped = TRUE, !.managed = TRUE, !.geom = g]
    OBVIOUS
  <2>4. /\ w \in WindowRecords /\ w.made = xo_server.win[s].made /\ w.mapped /\ w.managed
        /\ w.override = xo_server.win[s].override /\ w.geom = g
    BY <1>3, <2>2, <2>3 DEF WindowRecords
  <2>5. /\ at.win = [xo_server.win EXCEPT ![s] = w] /\ at.stack = stack
        /\ at.wm = asked.wm /\ at.parent = asked.parent /\ at.news = asked.news
        /\ at = [win |-> at.win, stack |-> at.stack, parent |-> at.parent,
                 wm |-> at.wm, news |-> at.news]
    BY <2>1, <2>3, <1>3, <1>6, <1>7 DEF Servers
  <2>6. /\ stack \in Stacks /\ <<s, "parent">> \in stack
        /\ \A t \in Overlays : t # s => (<<t, "parent">> \in stack <=> Above(asked, t))
    BY <1>2, <1>7, OnTopIs
  <2>7. at \in Servers /\ at.win[s] = w
    <3>1. at.win \in [Overlays -> WindowRecords] /\ at.win[s] = w
      BY <1>3, <2>4, <2>5
    <3> QED BY <3>1, <1>7, <2>5, <2>6, ServerParts DEF Servers
  <2>8. Spares(asked, at, s)
    <3>1. \A t \in Overlays : t # s => at.win[t] = asked.win[t]
      BY <1>3, <1>6, <2>5
    <3>2. \A t \in Overlays : at.win[t].made = asked.win[t].made
      BY <3>1, <1>6, <2>4, <2>7
    <3>3. asked.news.level >= asked.news.level
      BY <1>7, ServerParts
    <3> QED BY <3>1, <3>2, <3>3, <2>5, <2>6, <2>7 DEF Spares, Above
  <2>9. Spares(xo_server, at, s)
    BY <1>3, <1>8, <2>8, SparesAll
  <2>10. ShownAbove(at, s)
    BY <1>5, <1>7, <1>9, <2>4, <2>5, <2>6, <2>7 DEF ShownAbove, Above
  <2>11. CASE xo_server' = at /\ at = [at EXCEPT !.win[s].geom = asked.win[s].geom,
                                                 !.stack = asked.stack]
    <3>1. w.geom = xo_server.win[s].geom
      <4>1. PICK same : same = [at EXCEPT !.win[s].geom = asked.win[s].geom, !.stack = asked.stack]
        OBVIOUS
      <4>2. same.win = [at.win EXCEPT ![s].geom = asked.win[s].geom] /\ same = at
        BY <2>7, <2>11, <4>1 DEF Servers
      <4>3. at.win \in [Overlays -> WindowRecords]
        BY <2>7, ServerParts
      <4>4. same.win[s].geom = asked.win[s].geom
        BY <4>2, <4>3 DEF WindowRecords
      <4> QED BY <4>2, <4>4, <1>6, <2>7
    <3>2. InPlace(s) => InPlace(s)'
      BY <3>1, <1>5, <1>7, <1>9, <2>4, <2>5, <2>7, <2>11 DEF InPlace
    <3> QED BY <3>1, <3>2, <1>9, <1>10, <2>4, <2>7, <2>9, <2>10, <2>11, WmStep
  <2>12. CASE xo_server' = Telling(at, Reconcile)
    <3>1. /\ xo_server' \in Servers /\ xo_server'.win = at.win /\ xo_server'.stack = at.stack
          /\ xo_server'.parent = at.parent /\ xo_server'.wm = at.wm
          /\ xo_server'.news.parent = at.news.parent
          /\ xo_server'.news.level >= Reconcile /\ xo_server'.news.level >= at.news.level
      <4>1. Reconcile \in 0..3
        BY DEF Reconcile
      <4> QED BY <4>1, <2>7, <2>12, TellingIs
    <3>2. Spares(at, xo_server', s)
      BY <3>1 DEF Spares, Above
    <3>3. Spares(xo_server, xo_server', s)
      BY <3>2, <1>3, <2>9, SparesAll
    <3>4. ShownAbove(xo_server', s)
      BY <3>1, <2>10 DEF ShownAbove, Above
    <3> QED BY <3>1, <3>3, <3>4, <1>9, <1>10, <2>4, <2>7, WmStep
  <2> QED BY <2>1, <2>11, <2>12
<1> QED BY <1>11, <1>12

LEMMA WmPlacesStep ==
  ASSUME OverlayInv, NEW s \in Overlays, WmPlaces(s)
  PROVE  OverlayInv'
<1>1. PICK g : g = xo_server.wm[s].place
  OBVIOUS
<1>2. PICK asked : asked = [xo_server EXCEPT !.wm[s].place = NoGeom, !.win[s].geom = g]
  OBVIOUS
<1>3. /\ g # NoGeom /\ ~xo_server.wm[s].unmapped /\ ~xo_server.wm[s].map
      /\ xo_server' = IF g = xo_server.win[s].geom THEN asked ELSE Telling(asked, Reconcile)
      /\ WmKeeps /\ UNCHANGED xo_moves /\ xo_work' = xo_work
  BY <1>1, <1>2 DEF WmPlaces, WmKeeps, xothread
<1>4. /\ xo_server \in Servers /\ xo_server.win \in [Overlays -> WindowRecords]
      /\ xo_server.wm \in [Overlays -> RequestRecords]
      /\ xo_server.win[s] \in WindowRecords /\ xo_server.wm[s] \in RequestRecords
  BY ServerParts DEF OverlayInv, ServerTyped
<1>5. PICK r : r = [xo_server.wm[s] EXCEPT !.place = NoGeom]
  OBVIOUS
<1>6. PICK w : w = [xo_server.win[s] EXCEPT !.geom = g]
  OBVIOUS
<1>7. /\ r \in RequestRecords /\ r.unmapped = xo_server.wm[s].unmapped /\ r.map = xo_server.wm[s].map
      /\ w \in WindowRecords /\ w.geom = g /\ w.made = xo_server.win[s].made
      /\ w.mapped = xo_server.win[s].mapped /\ w.override = xo_server.win[s].override
      /\ w.managed = xo_server.win[s].managed
  <2>1. g \in Geoms
    BY <1>1, <1>3, <1>4 DEF RequestRecords
  <2> QED BY <2>1, <1>4, <1>5, <1>6 DEF RequestRecords, WindowRecords
<1>8. /\ asked.win = [xo_server.win EXCEPT ![s] = w] /\ asked.wm = [xo_server.wm EXCEPT ![s] = r]
      /\ asked.stack = xo_server.stack /\ asked.parent = xo_server.parent
      /\ asked.news = xo_server.news
      /\ asked = [win |-> asked.win, stack |-> asked.stack, parent |-> asked.parent,
                  wm |-> asked.wm, news |-> asked.news]
  BY <1>2, <1>4, <1>5, <1>6 DEF Servers
<1>9. asked \in Servers /\ asked.win[s] = w /\ asked.wm[s] = r
  <2>1. asked.win \in [Overlays -> WindowRecords] /\ asked.wm \in [Overlays -> RequestRecords]
    BY <1>4, <1>7, <1>8
  <2> QED BY <2>1, <1>4, <1>8, ServerParts DEF Servers
<1>10. Spares(xo_server, asked, s)
  <2>1. \A t \in Overlays : t # s => asked.win[t] = xo_server.win[t] /\ asked.wm[t] = xo_server.wm[t]
    BY <1>4, <1>8
  <2>2. \A t \in Overlays : asked.win[t].made = xo_server.win[t].made
    BY <2>1, <1>7, <1>9
  <2>3. xo_server.news.level >= xo_server.news.level
    BY <1>4, ServerParts
  <2> QED BY <2>1, <2>2, <2>3, <1>8, <1>9 DEF Spares, Above
<1>11. Has(s)
  BY <1>1, <1>3 DEF OverlayInv, Unmade, NoRequest
<1>12. ShownAbove(asked, s)
  <2>1. ShownAbove(xo_server, s)
    BY DEF OverlayInv, ManagedAbove
  <2> QED BY <2>1, <1>7, <1>8, <1>9 DEF ShownAbove, Above
<1>13. CASE g = xo_server.win[s].geom
  <2>1. xo_server' = asked
    BY <1>3, <1>13
  <2>2. InPlace(s) => InPlace(s)'
    <3> SUFFICES ASSUME InPlace(s) PROVE InPlace(s)'
      OBVIOUS
    <3>1. xo_server.win[s].mapped /\ xo_server.win[s].geom = xo_work.geom
      BY <1>1, <1>3, <1>13 DEF InPlace
    <3> QED BY <3>1, <2>1, <1>3, <1>7, <1>9, <1>13 DEF InPlace
  <2> QED BY <2>1, <2>2, <1>3, <1>7, <1>9, <1>10, <1>11, <1>12, <1>13, WmStep
<1>14. CASE g # xo_server.win[s].geom
  <2>1. xo_server' = Telling(asked, Reconcile) /\ Reconcile \in 0..3
    BY <1>3, <1>14 DEF Reconcile
  <2>2. /\ xo_server' \in Servers /\ xo_server'.win = asked.win /\ xo_server'.stack = asked.stack
        /\ xo_server'.parent = asked.parent /\ xo_server'.wm = asked.wm
        /\ xo_server'.news.parent = asked.news.parent
        /\ xo_server'.news.level >= Reconcile /\ xo_server'.news.level >= asked.news.level
    BY <2>1, <1>9, TellingIs
  <2>3. Spares(asked, xo_server', s)
    BY <2>2 DEF Spares, Above
  <2>4. Spares(xo_server, xo_server', s)
    BY <2>3, <1>4, <1>10, SparesAll
  <2>5. ShownAbove(xo_server', s)
    BY <2>2, <1>12 DEF ShownAbove, Above
  <2> QED BY <2>2, <2>4, <2>5, <1>3, <1>7, <1>9, <1>11, WmStep
<1> QED BY <1>13, <1>14

LEMMA ParentBecomesStep ==
  ASSUME OverlayInv, NEW parent \in ParentRecords, ParentBecomes(parent, Restack),
         parent.mapped = xo_server.parent.mapped
  PROVE  OverlayInv'
<1>1. PICK m : m = [xo_server EXCEPT !.parent = parent]
  OBVIOUS
<1>2. /\ xo_moves < MaxParentMoves /\ xo_moves' = xo_moves + 1
      /\ xo_server' = Telling(m, Restack) /\ WmKeeps
  BY <1>1 DEF ParentBecomes
<1>3. xo_server \in Servers /\ xo_parsed \in NewsRecords
  BY DEF OverlayInv, ServerTyped
<1>4. /\ m \in Servers /\ m.win = xo_server.win /\ m.wm = xo_server.wm
      /\ m.stack = xo_server.stack /\ m.news = xo_server.news /\ m.parent = parent
  BY <1>1, <1>3 DEF Servers
<1>5. /\ xo_server' \in Servers /\ xo_server'.win = m.win /\ xo_server'.stack = m.stack
      /\ xo_server'.parent = m.parent /\ xo_server'.wm = m.wm
      /\ xo_server'.news.parent = m.news.parent
      /\ xo_server'.news.level >= Restack /\ xo_server'.news.level >= m.news.level
  <2>1. Restack \in 0..3
    BY DEF Restack
  <2> QED BY <2>1, <1>2, <1>4, TellingIs
<1>6. /\ xo_server'.news \in NewsRecords /\ xo_server.news \in NewsRecords
      /\ xo_server'.news.level \in 0..3
  BY <1>3, <1>5, ServerParts
<1>7. ManagedAbove'
  BY <1>4, <1>5 DEF OverlayInv, ManagedAbove, ShownAbove, Above
<1>8. MappedKnown'
  <2>1. KnowsMapped(xo_parsed, xo_server.news, xo_work.mapped, xo_server.parent.mapped)
    BY DEF OverlayInv, MappedKnown
  <2>2. KnowsMapped(xo_parsed, xo_server'.news, xo_work.mapped, xo_server.parent.mapped)
    BY <2>1, <1>3, <1>4, <1>5, <1>6, TellKnows
  <2>3. xo_parsed' = xo_parsed /\ xo_work' = xo_work
    BY <1>2 DEF WmKeeps, xothread
  <2> QED BY <2>2, <2>3, <1>4, <1>5 DEF MappedKnown
<1>9. xo_server'.news.level >= Reconcile
  BY <1>5, <1>6 DEF Restack, Reconcile
<1> QED BY <1>2, <1>4, <1>5, <1>7, <1>8, <1>9, ParentStep

LEMMA ParentMovesStep ==
  ASSUME OverlayInv,
         \/ \E geom \in Geoms : ParentMoves(geom)
         \/ \E b \in BOOLEAN : ParentFullscreen(b)
  PROVE  OverlayInv'
<1>1. xo_server.parent \in ParentRecords
  BY ServerParts DEF OverlayInv, ServerTyped
<1>2. ASSUME NEW geom \in Geoms, ParentMoves(geom) PROVE OverlayInv'
  <2>1. PICK parent : parent = [xo_server.parent EXCEPT !.geom = geom]
    OBVIOUS
  <2>2. parent \in ParentRecords /\ parent.mapped = xo_server.parent.mapped
    BY <1>1, <2>1 DEF ParentRecords
  <2>3. ParentBecomes(parent, Restack)
    BY <1>2, <2>1 DEF ParentMoves
  <2> QED BY <2>2, <2>3, ParentBecomesStep
<1>3. ASSUME NEW b \in BOOLEAN, ParentFullscreen(b) PROVE OverlayInv'
  <2>1. PICK parent : parent = [xo_server.parent EXCEPT !.fullscreen = b]
    OBVIOUS
  <2>2. parent \in ParentRecords /\ parent.mapped = xo_server.parent.mapped
    BY <1>1, <2>1 DEF ParentRecords
  <2>3. ParentBecomes(parent, Restack)
    BY <1>3, <2>1 DEF ParentFullscreen
  <2> QED BY <2>2, <2>3, ParentBecomesStep
<1> QED BY <1>2, <1>3

LEMMA ParentMappedStep ==
  ASSUME OverlayInv, NEW mapped \in BOOLEAN, ParentMapped(mapped)
  PROVE  OverlayInv'
<1>1. PICK told : told = IF mapped THEN [level |-> Refocus, parent |-> "mapped"]
                         ELSE [level |-> Reconcile, parent |-> "unmapped"]
  OBVIOUS
<1>2. PICK n : n = Then(xo_server.news, told)
  OBVIOUS
<1>3. /\ xo_moves < MaxParentMoves /\ xo_moves' = xo_moves + 1 /\ WmKeeps
      /\ xo_server' = [xo_server EXCEPT !.parent.mapped = mapped, !.news = n]
  BY <1>1, <1>2 DEF ParentMapped
<1>4. /\ xo_server \in Servers /\ xo_parsed \in NewsRecords
      /\ xo_server.parent \in ParentRecords /\ xo_server.news \in NewsRecords
  BY ServerParts DEF OverlayInv, ServerTyped
<1>5. /\ told \in NewsRecords /\ told.level >= Reconcile /\ told.parent = Says(mapped)
      /\ mapped => told.level = 3
  BY <1>1 DEF NewsRecords, Refocus, Reconcile, Says
<1>6. n \in NewsRecords /\ n.level >= xo_server.news.level /\ n.level >= told.level
      /\ n.parent = IF told.parent = "same" THEN xo_server.news.parent ELSE told.parent
  BY <1>2, <1>4, <1>5, ThenIs
<1>7. /\ n.level \in 0..3 /\ told.level \in 0..3 /\ n.parent = Says(mapped) /\ n.parent # "same"
      /\ n.level >= Reconcile /\ (mapped => n.level = 3)
  <2>1. n.level \in 0..3 /\ told.level \in 0..3
    BY <1>5, <1>6, LevelsAre
  <2> QED BY <2>1, <1>5, <1>6 DEF Says, Reconcile
<1>8. PICK p : p = [xo_server.parent EXCEPT !.mapped = mapped]
  OBVIOUS
<1>9. /\ p \in ParentRecords /\ p.mapped = mapped /\ p.geom = xo_server.parent.geom
      /\ p.fullscreen = xo_server.parent.fullscreen
  BY <1>4, <1>8 DEF ParentRecords
<1>10. /\ xo_server'.win = xo_server.win /\ xo_server'.wm = xo_server.wm
       /\ xo_server'.stack = xo_server.stack /\ xo_server'.parent = p /\ xo_server'.news = n
       /\ xo_server' = [win |-> xo_server'.win, stack |-> xo_server'.stack,
                        parent |-> xo_server'.parent, wm |-> xo_server'.wm,
                        news |-> xo_server'.news]
  BY <1>3, <1>4, <1>8 DEF Servers
<1>11. xo_server' \in Servers
  BY <1>4, <1>6, <1>9, <1>10, ServerParts DEF Servers
<1>12. ManagedAbove'
  BY <1>10 DEF OverlayInv, ManagedAbove, ShownAbove, Above
<1>13. MappedKnown'
  <2>1. Leveled(xo_parsed)
    BY DEF OverlayInv, MappedKnown, KnowsMapped
  <2>2. Leveled(n)
    BY <1>7 DEF Leveled, Says, Refocus
  <2>3. KnowsMapped(xo_parsed, n, xo_work.mapped, mapped)
    BY <2>1, <2>2, <1>7 DEF KnowsMapped
  <2>4. xo_parsed' = xo_parsed /\ xo_work' = xo_work
    BY <1>3 DEF WmKeeps, xothread
  <2> QED BY <2>3, <2>4, <1>9, <1>10 DEF MappedKnown
<1> QED BY <1>3, <1>6, <1>7, <1>9, <1>10, <1>11, <1>12, <1>13, ParentStep

LEMMA ParentRaisedStep ==
  ASSUME OverlayInv, ParentRaised
  PROVE  OverlayInv'
<1> DEFINE windows == Windows(xo_server)
           Tier(w) == IF w = "parent" THEN 2 ELSE IF xo_server.win[w].managed THEN 3 ELSE 1
<1>1. PICK stack :
        /\ stack = {p \in windows \X windows :
                      \/ Tier(p[1]) > Tier(p[2])
                      \/ Tier(p[1]) = Tier(p[2]) /\ p \in xo_server.stack}
        /\ xo_moves < MaxParentMoves /\ xo_moves' = xo_moves + 1 /\ WmKeeps
        /\ xo_server' = Telling([xo_server EXCEPT !.stack = stack], Restack)
  BY DEF ParentRaised
<1>2. xo_server \in Servers /\ xo_parsed \in NewsRecords
  BY DEF OverlayInv, ServerTyped
<1>3. windows \subseteq Overlays \cup {"parent"} /\ "parent" \in windows
  BY DEF Windows
<1>4. stack \in Stacks
  BY <1>1, <1>3 DEF Stacks
<1>5. PICK m : m = [xo_server EXCEPT !.stack = stack]
  OBVIOUS
<1>6. /\ m \in Servers /\ m.win = xo_server.win /\ m.wm = xo_server.wm
      /\ m.stack = stack /\ m.news = xo_server.news /\ m.parent = xo_server.parent
  BY <1>2, <1>4, <1>5 DEF Servers
<1>7. /\ xo_server' \in Servers /\ xo_server'.win = m.win /\ xo_server'.stack = m.stack
      /\ xo_server'.parent = m.parent /\ xo_server'.wm = m.wm
      /\ xo_server'.news.parent = m.news.parent
      /\ xo_server'.news.level >= Restack /\ xo_server'.news.level >= m.news.level
  <2>1. Restack \in 0..3
    BY DEF Restack
  <2> QED BY <2>1, <1>1, <1>5, <1>6, TellingIs
<1>8. /\ xo_server'.news \in NewsRecords /\ xo_server.news \in NewsRecords
      /\ xo_server'.news.level \in 0..3
  BY <1>2, <1>7, ServerParts
<1>9. ManagedAbove'
  <2> SUFFICES ASSUME NEW t \in Overlays PROVE ShownAbove(xo_server', t)
    BY DEF ManagedAbove
  <2>1. ShownAbove(xo_server, t)
    BY DEF OverlayInv, ManagedAbove
  <2>2. ASSUME xo_server.win[t].mapped, xo_server.win[t].managed PROVE <<t, "parent">> \in stack
    <3>1. Has(t)
      BY <2>2 DEF OverlayInv, Unmade, NoWindow
    <3>2. t \in windows /\ t # "parent"
      BY <3>1, X11Assumption DEF Windows, Has
    <3>3. Tier(t) = 3 /\ Tier("parent") = 2
      BY <2>2, <3>2
    <3>4. <<t, "parent">> \in windows \X windows /\ <<t, "parent">>[1] = t /\ <<t, "parent">>[2] = "parent"
      BY <1>3, <3>2
    <3> HIDE DEF windows, Tier
    <3> QED BY <1>1, <3>3, <3>4
  <2> QED BY <2>1, <2>2, <1>6, <1>7 DEF ShownAbove, Above
<1>10. MappedKnown'
  <2>1. KnowsMapped(xo_parsed, xo_server.news, xo_work.mapped, xo_server.parent.mapped)
    BY DEF OverlayInv, MappedKnown
  <2>2. KnowsMapped(xo_parsed, xo_server'.news, xo_work.mapped, xo_server.parent.mapped)
    BY <2>1, <1>2, <1>6, <1>7, <1>8, TellKnows
  <2>3. xo_parsed' = xo_parsed /\ xo_work' = xo_work
    BY <1>1 DEF WmKeeps, xothread
  <2> QED BY <2>2, <2>3, <1>6, <1>7 DEF MappedKnown
<1>11. xo_server'.news.level >= Reconcile
  BY <1>7, <1>8 DEF Restack, Reconcile
<1> QED BY <1>1, <1>6, <1>7, <1>9, <1>10, <1>11, ParentStep

LEMMA OverlayStutter ==
  ASSUME OverlayInv, UNCHANGED xovars
  PROVE  OverlayInv'
<1>1. UNCHANGED <<xo_surface, xo_visible, xo_asked, xo_hand, xo_ops, xo_commands, xo_resync,
                  xo_at, xo_batch, xo_pending, xo_work, xo_order, xo_fsm, xo_todo, xo_seen,
                  xo_parsed, xo_server, xo_moves>>
  BY DEF xovars, xocef, xoqueue, xothread
<1>2. /\ ServerTyped' /\ Owned' /\ Unmade' /\ ParentKnown' /\ MappedKnown'
      /\ Overridden' /\ ManagedAbove' /\ Fresh' /\ ThreadTyped'
  BY <1>1, ServerStays
<1>3. CefTyped' /\ QueueTyped' /\ Lives'
  <2>1. xo_moves' \in 0..MaxParentMoves /\ \A s \in Overlays : Has(s)' <=> Has(s)
    BY <1>1 DEF OverlayInv, CefTyped, Has
  <2> QED BY <2>1, <1>1, CommandsStay
<1>4. Places'
  BY <1>1 DEF OverlayInv, Places
<1>5. RaisedAbove'
  BY <1>1 DEF OverlayInv, RaisedAbove, Lively, Has, Wanted, Owes, Requested, Left, Above
<1>6. Settled'
  BY <1>1 DEF OverlayInv, Settled, Lively, Has, Wanted, Owes, Requested, Left, InPlace
<1> QED BY <1>2, <1>3, <1>4, <1>5, <1>6 DEF OverlayInv

LEMMA OverlayStep == OverlayInv /\ [OverlayNext]_xovars => OverlayInv'
<1> SUFFICES ASSUME OverlayInv, [OverlayNext]_xovars PROVE OverlayInv'
  OBVIOUS
<1>1. CASE \E s \in Overlays : AllocOverlay(s) \/ FreeOverlay(s)
  BY <1>1, AllocFreeStep
<1>2. CASE \E s \in Overlays, v \in BOOLEAN : SetOverlayVisible(s, v)
  BY <1>2, VisibleStep
<1>3. CASE OrderOverlays
  BY <1>3, OrderStep
<1>4. CASE EnqueueCommand \/ OnResync
  BY <1>4, QueueStep
<1>5. CASE HandleCommand
  BY <1>5, CommandStep
<1>6. CASE OnEvents
  BY <1>6, EventsStep
<1>7. CASE ReadParent
  BY <1>7, ReadParentStep
<1>8. CASE Observe
  BY <1>8, ObserveStep
<1>9. CASE ApplyOverlay
  BY <1>9, ApplyStep
<1>10. CASE \E s \in Overlays : WmSeesUnmapped(s) \/ WmMaps(s) \/ WmPlaces(s)
  BY <1>10, UnmappedStep, WmMapsStep, WmPlacesStep
<1>11. CASE \E geom \in Geoms : ParentMoves(geom)
  BY <1>11, ParentMovesStep
<1>12. CASE \E b \in BOOLEAN : ParentFullscreen(b) \/ ParentMapped(b)
  BY <1>12, ParentMovesStep, ParentMappedStep
<1>13. CASE ParentRaised
  BY <1>13, ParentRaisedStep
<1>14. CASE UNCHANGED xovars
  BY <1>14, OverlayStutter
<1> QED BY <1>1, <1>2, <1>3, <1>4, <1>5, <1>6, <1>7, <1>8, <1>9, <1>10, <1>11, <1>12, <1>13, <1>14
        DEF OverlayNext

(* Nothing is left to do when all is quiet.                                *)
LEMMA QuietSettles ==
  ASSUME OverlayInv, OverlaysQuiet
  PROVE  OverlaysFollowParent
<1>1. /\ xo_hand = <<>> /\ ~xo_resync /\ xo_server.news = NoNews /\ xo_parsed = NoNews
      /\ xo_at = "loop" /\ xo_pending = 0
      /\ xo_server.wm = [s \in Overlays |-> NoRequest]
  BY DEF OverlaysQuiet, HasEvents
<1>2. xo_commands = <<>> /\ xo_batch = <<>> /\ xo_todo = <<>>
  BY <1>1 DEF OverlayInv, Places
<1>3. ~Requested /\ ~Owes(Reconcile) /\ ~Owes(Restack)
  BY <1>1, <1>2 DEF Requested, Owes, NoNews, Reconcile, Restack
<1>4. xo_work.geom = xo_server.parent.geom /\ xo_work.fullscreen = Full(xo_server.parent)
  BY <1>3 DEF OverlayInv, ParentKnown
<1>5. xo_work.mapped = xo_server.parent.mapped
  BY <1>1 DEF OverlayInv, MappedKnown, KnowsMapped, NoNews
<1>6. Underway = <<>>
  <2>1. <<>> \in Seq(OverlayCommands) /\ <<>> \o <<>> = <<>>
    <3>1. <<>> \in Seq(OverlayCommands)
      OBVIOUS
    <3> QED BY <3>1, ConcatEmptySeq
  <2> QED BY <2>1, <1>1, <1>2 DEF Underway, Joined
<1>7. ASSUME NEW s \in Overlays
      PROVE  /\ xo_server.win[s].made = (xo_surface[s] = "live")
             /\ xo_server.win[s].made /\ xo_visible[s] /\ xo_server.parent.mapped =>
                  /\ xo_server.win[s].mapped /\ xo_server.win[s].geom = xo_server.parent.geom
                  /\ xo_server.win[s].override = Full(xo_server.parent)
                  /\ IsAbove(s, "parent")
             /\ xo_server.win[s].made /\ ~(xo_visible[s] /\ xo_server.parent.mapped) =>
                  ~xo_fsm[s].mapped
  <2>1. xo_surface[s] \in {"unborn", "live", "freed"} /\ xo_server.win[s].made \in BOOLEAN
    <3>1. xo_server.win[s] \in WindowRecords
      BY ServerParts DEF OverlayInv, ServerTyped
    <3> QED BY <3>1 DEF OverlayInv, CefTyped, WindowRecords
  <2>2. Has(s) <=> xo_surface[s] = "live"
    <3>1. LifeOf(s, <<>>, xo_surface[s], Has(s))
      BY <1>6 DEF OverlayInv, Lives
    <3>2. ~Birth(<<>>, s) /\ ~Death(<<>>, s)
      BY DEF Birth, Death
    <3> QED BY <2>1, <3>1, <3>2 DEF LifeOf
  <2>3. ~Left(s)
    BY <1>2 DEF Left, ToSet
  <2>4. Wanted(s) <=> xo_visible[s] /\ xo_server.parent.mapped
    BY <1>5 DEF Wanted
  <2>5. ASSUME Has(s)
        PROVE  /\ xo_fsm[s].mapped <=> Wanted(s)
               /\ xo_fsm[s].unmanaged = xo_work.fullscreen
               /\ Wanted(s) => InPlace(s)
    BY <2>2, <2>3, <2>5, <1>3 DEF OverlayInv, Settled, Lively
  <2>6. xo_server.wm[s] = NoRequest
    BY <1>1
  <2>7. ASSUME Has(s), Wanted(s)
        PROVE  /\ xo_server.win[s].mapped /\ xo_server.win[s].geom = xo_server.parent.geom
               /\ xo_server.win[s].override = Full(xo_server.parent)
               /\ IsAbove(s, "parent")
    <3>1. xo_server.win[s].mapped /\ xo_server.win[s].geom = xo_work.geom
      <4>1. xo_work.geom # NoGeom
        BY DEF OverlayInv, ThreadTyped, Geoms, NoGeom
      <4> QED BY <2>5, <2>6, <2>7, <4>1 DEF InPlace, NoRequest
    <3>2. xo_server.win[s].override = Full(xo_server.parent)
      BY <2>5, <2>7, <1>4 DEF OverlayInv, Overridden
    <3>3. Above(xo_server, s)
      <4>1. CASE xo_server.win[s].override
        BY <4>1, <2>2, <2>3, <2>7, <1>3 DEF OverlayInv, RaisedAbove, Lively
      <4>2. CASE ~xo_server.win[s].override
        BY <4>2, <3>1 DEF OverlayInv, ManagedAbove, ShownAbove
      <4> QED BY <4>1, <4>2
    <3> QED BY <3>1, <3>2, <3>3, <1>4 DEF IsAbove, Above
  <2>8. xo_server.win[s].made = (xo_surface[s] = "live")
    <3>1. xo_server.win[s].made <=> xo_surface[s] = "live"
      BY <2>2 DEF Has
    <3> QED BY <3>1, <2>1
  <2> QED BY <2>4, <2>5, <2>7, <2>8 DEF Has
<1> QED BY <1>7 DEF OverlaysFollowParent, Full

(* The variables of the backend keep their types: the thread is at one of  *)
(* its places, and of each overlay it knows what OverlayState holds.       *)
THEOREM OverlaysTyped == OverlaySpec => []OverlayTypeOK
<1>1. OverlayInv => OverlayTypeOK
  <2> SUFFICES ASSUME OverlayInv PROVE OverlayTypeOK
    OBVIOUS
  <2>1. ServerTyped /\ CefTyped /\ ThreadTyped
    BY DEF OverlayInv
  <2> QED BY <2>1 DEF ServerTyped, CefTyped, ThreadTyped, OverlayTypeOK, Refocus
<1> QED BY <1>1, OverlayInitInv, OverlayStep, PTL DEF OverlaySpec

(* Whatever the window manager does to the parent or to the overlays, in   *)
(* whatever order the CEF thread, the geometry thread and the window       *)
(* manager take their steps: once all is handled, an overlay that is to be *)
(* seen is mapped just where the parent is and above it, unmanaged exactly *)
(* in fullscreen, and a freed surface has no window.                       *)
THEOREM OverlaysFollow == OverlaySpec => []OverlaysFollowParent
<1>1. OverlayInv => OverlaysFollowParent
  BY QuietSettles DEF OverlaysFollowParent
<1> QED BY <1>1, OverlayInitInv, OverlayStep, PTL DEF OverlaySpec
=============================================================================
