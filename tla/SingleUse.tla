-------------------------------- MODULE SingleUse --------------------------------
(***************************************************************************)
(* What an adapter promises of one thing that can be had once (adapter.ts: *)
(* ArtifactStore.consume, ReplayGuard.claim, RealmStore.create): of the    *)
(* calls that ask for it at most one is told TRUE, until it is given up.   *)
(*                                                                         *)
(* A call takes time.  It may win a thing that was to be had at some       *)
(* moment of the call, if nobody has it when it wins; it may lose only if  *)
(* at some moment of the call there was nothing to be had.                 *)
(***************************************************************************)
CONSTANT Calls

VARIABLES
  reusable, \* whether a lapse makes the thing free again
  life,     \* "absent", "free", "taken", or "expiring": just expired, by a clock read later
  answer,   \* [Calls -> "none", "open", "won", "lost" or "threw"]
  met       \* [Calls -> the lives a call has met since it began]

\* Time is what the open calls see of the thing.
Meet(c, l) == IF answer'[c] = "open" THEN (IF answer[c] = "open" THEN met[c] ELSE {}) \cup {life, l} ELSE {}
Answered(l) == met' = [c \in Calls |-> Meet(c, l)]

Begin(c) ==
  /\ answer[c] = "none" /\ answer' = [answer EXCEPT ![c] = "open"]
  /\ life' = life /\ Answered(life)

Win(c) ==
  /\ answer[c] = "open" /\ life # "taken" /\ met[c] \cap {"free", "expiring"} # {}
  /\ answer' = [answer EXCEPT ![c] = "won"]
  /\ life' = "taken" /\ Answered("taken")

Lose(c) ==
  /\ answer[c] = "open" /\ met[c] # {"free"}
  /\ answer' = [answer EXCEPT ![c] = "lost"]
  /\ life' = life /\ Answered(life)

\* A failure tells the caller nothing.
Fail(c) ==
  /\ answer[c] = "open" /\ answer' = [answer EXCEPT ![c] = "threw"]
  /\ life' = life /\ Answered(life)

\* It is put there, destroyed or expires; what was taken is not simply free again.
Change == \E l \in {"absent", "free", "expiring", "taken"} :
  /\ life # l /\ life' = l
  /\ life = "taken" => l = "absent" \/ reusable
  /\ l = "taken" => life = "absent"
  /\ answer' = answer /\ Answered(l)

Init ==
  /\ reusable \in BOOLEAN /\ life \in {"absent", "free"}
  /\ answer = [c \in Calls |-> "none"] /\ met = [c \in Calls |-> {}]

Next ==
  /\ reusable' = reusable
  /\ Change \/ \E c \in Calls : Begin(c) \/ Win(c) \/ Lose(c) \/ Fail(c)

Spec == Init /\ [][Next]_<<reusable, life, answer, met>>
================================================================================
