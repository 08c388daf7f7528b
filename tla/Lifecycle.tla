----------------------------- MODULE Lifecycle -----------------------------
(***************************************************************************)
(* What the manager thread promises the application (the phases of         *)
(* src/src/jfn_rust/src/manager.rs): the browsers are told the posture of  *)
(* every phase that changes it, only a resume ends a suspension, and a     *)
(* requested shutdown is entered once, for good, and releases the main     *)
(* thread.                                                                 *)
(***************************************************************************)
VARIABLES
  phase,        \* Running, Hidden, Suspended, ShuttingDown
  hidden,       \* the posture the browsers were last given
  asked,        \* shutdown was requested
  released      \* the main thread may run the teardown

vars == <<phase, hidden, asked, released>>
Phases == {"Running", "Hidden", "Suspended", "ShuttingDown"}

Init == phase = "Running" /\ hidden = FALSE /\ asked = FALSE /\ released = FALSE

Become(from, to, posture) ==
  /\ phase \in from /\ phase' = to /\ hidden' = posture
  /\ UNCHANGED <<asked, released>>

Hide == Become({"Running"}, "Hidden", TRUE)
Show == Become({"Hidden"}, "Running", FALSE)
Suspend == Become({"Running", "Hidden"}, "Suspended", TRUE)
Resume == Become({"Suspended"}, "Running", FALSE)
Ask == ~asked /\ asked' = TRUE /\ UNCHANGED <<phase, hidden, released>>
ShutDown == asked /\ Become(Phases \ {"ShuttingDown"}, "ShuttingDown", hidden)
Release ==
  /\ phase = "ShuttingDown" /\ ~released
  /\ released' = TRUE /\ UNCHANGED <<phase, hidden, asked>>

Next == Hide \/ Show \/ Suspend \/ Resume \/ Ask \/ ShutDown \/ Release

Spec == Init /\ [][Next]_vars /\ WF_vars(ShutDown) /\ WF_vars(Release)
=============================================================================
