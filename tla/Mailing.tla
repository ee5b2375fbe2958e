------------------------------- MODULE Mailing -------------------------------
(***************************************************************************)
(* What the worker's e-mails promise, without schedules, jobs, sessions or *)
(* restarts: a letter is a kind, a member and a gameweek; it is sent only  *)
(* while it is not on record as sent, it is put on record only once it (or *)
(* a later one of the same series) was sent, and only its member takes it  *)
(* off the record again (overtake/workers/tasks.py).                       *)
(***************************************************************************)
EXTENDS Naturals

CONSTANTS Users, MaxGameweek

VARIABLES sent, known

mvars == <<sent, known>>

Letters == {"brief", "recap"} \X Users \X (1..MaxGameweek)

Init ==
  /\ sent = [l \in Letters |-> 0]
  /\ known = [l \in Letters |-> FALSE]

Send(l) ==
  /\ ~known[l]
  /\ sent' = [sent EXCEPT ![l] = @ + 1]
  /\ UNCHANGED known

(* A recap on record stands for those of earlier gameweeks too.             *)
Record(kind, u, g) ==
  /\ sent[kind, u, g] > 0
  /\ known' = [l \in Letters |->
       known[l] \/ l = <<kind, u, g>> \/ (kind = "recap" /\ l[1] = kind /\ l[2] = u /\ l[3] < g)]
  /\ UNCHANGED sent

(* A brief that is rewritten and a league that is tracked anew have none.    *)
Rewrite(u, g) ==
  /\ known' = [known EXCEPT ![<<"brief", u, g>>] = FALSE]
  /\ UNCHANGED sent

TrackAgain(u) ==
  /\ known' = [l \in Letters |-> known[l] /\ ~(l[1] = "recap" /\ l[2] = u)]
  /\ UNCHANGED sent

Next ==
  \/ \E l \in Letters : Send(l) \/ Record(l[1], l[2], l[3])
  \/ \E u \in Users : TrackAgain(u) \/ \E g \in 1..MaxGameweek : Rewrite(u, g)

Spec == Init /\ [][Next]_mvars
=============================================================================
