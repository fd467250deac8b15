----------------------------- MODULE FixedWindow ------------------------------
(***************************************************************************)
(* What the rate limiter promises, without Redis and its commands:         *)
(*   - a passage of a client is counted and decided in one step: a window  *)
(*     admits the first Max of them and refuses every other one;           *)
(*   - what was decided is what the client is told, if it is told anything:*)
(*     only where Redis fails, or the process dies, is a decision dropped; *)
(*   - a window ends for a client as a whole, and what was decided in it   *)
(*     burdens no later one.                                               *)
(***************************************************************************)
EXTENDS Naturals

CONSTANTS
  Requests, Ips,
  Ip,       \* [Requests -> Ips]
  Max,      \* passages a window admits
  Fails     \* BOOLEAN: may Redis fail?

VARIABLES
  used,     \* [Ips -> passages counted in the open window], Max + 1 for any more
  verdict,  \* [Requests -> what was decided and is not told yet]: "none", "admit",
            \* "refuse", or "late" for a decision of a window that is over
  passed    \* [Ips -> passages the open window has let through]

windowVars == <<used, verdict, passed>>

Init ==
  /\ used = [i \in Ips |-> 0]
  /\ verdict = [r \in Requests |-> "none"]
  /\ passed = [i \in Ips |-> 0]

Count(r) ==
  /\ verdict[r] = "none"
  /\ verdict' = [verdict EXCEPT ![r] = IF used[Ip[r]] < Max THEN "admit" ELSE "refuse"]
  /\ used' = [used EXCEPT ![Ip[r]] = IF used[Ip[r]] > Max THEN @ ELSE @ + 1]
  /\ UNCHANGED passed

Tell(r) == verdict' = [verdict EXCEPT ![r] = "none"] /\ UNCHANGED used

LetThrough(r) ==
  /\ verdict[r] = "admit"
  /\ Tell(r)
  /\ passed' = [passed EXCEPT ![Ip[r]] = @ + 1]

\* 429; or an answer that no longer counts.
TurnAway(r) == verdict[r] \in {"refuse", "late"} /\ Tell(r) /\ UNCHANGED passed

\* Redis fails a passage that was counted.
Drop(r) == Fails /\ verdict[r] # "none" /\ Tell(r) /\ UNCHANGED passed

Die == verdict' = [r \in Requests |-> "none"] /\ UNCHANGED <<used, passed>>

WindowsEnd(ended) ==
  /\ used' = [i \in Ips |-> IF i \in ended THEN 0 ELSE used[i]]
  /\ passed' = [i \in Ips |-> IF i \in ended THEN 0 ELSE passed[i]]
  /\ verdict' = [r \in Requests |->
       IF Ip[r] \in ended /\ verdict[r] # "none" THEN "late" ELSE verdict[r]]

Next ==
  \/ \E r \in Requests : Count(r) \/ LetThrough(r) \/ TurnAway(r) \/ Drop(r)
  \/ Die
  \/ \E ended \in SUBSET Ips : WindowsEnd(ended)

Spec == Init /\ [][Next]_windowVars

================================================================================
