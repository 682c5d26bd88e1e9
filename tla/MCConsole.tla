----------------------------- MODULE MCConsole -----------------------------
(* The console: the terminal engine that draws what the programs write, and  *)
(* the two servers that mirror it.  kvm hands each output to both, and they  *)
(* share nothing else, so they are explored side by side, one of them at a   *)
(* time.  The terminal has two small screens, which font changes turn into   *)
(* each other, and parameters that go past their edges.                      *)
EXTENDS Console, Terminal

MCSizes == {<<1, 2>>, <<2, 1>>}
MCArgs == {-1, 0, 2}

\* Which of them takes steps.
VARIABLE side

\* While the servers do, the terminal is in one state.
InitOfOne ==
  /\ InitConsole /\ InitTerminal
  /\ side \in {"servers", "terminal"}
  /\ side = "servers" => term.row = 1

\* Bound: when a font has taken rows away, none gives them back.
FontsTried == term.shrunk => term'.row <= term.row

NextOfOne ==
  \/ side = "servers" /\ NextConsole /\ UNCHANGED <<side, term>>
  \/ side = "terminal" /\ NextTerminal /\ FontsTried /\ UNCHANGED <<side, cvars>>

sides == <<cvars, term, side>>

SpecOfOne == InitOfOne /\ [][NextOfOne]_sides
             /\ WF_sides(side = "servers" /\ SshObliged /\ UNCHANGED <<side, term>>)
             /\ WF_sides(side = "servers" /\ TickObliged /\ UNCHANGED <<side, term>>)
=============================================================================
