-------------------------------- MODULE Adapters --------------------------------
(***************************************************************************)
(* The four adapters under the same calls: what a caller may rely on       *)
(* whichever the host chose, and what it may not.                          *)
(***************************************************************************)
EXTENDS AdapterCalls

CONSTANT Slow  \* whether a consume's insert may run after the expiry its read was before

VARIABLES
  met,    \* the history SingleUse keeps of the open calls
  alone   \* the calls with which no other has overlapped

all == <<vars, met, alone>>

Kv == INSTANCE KvAdapter
Drizzle == INSTANCE DrizzleAdapter
Kysely == INSTANCE KyselyAdapter
Typeorm == INSTANCE TypeormAdapter

Step ==
  \/ backend = "kv" /\ Kv!Next
  \/ backend = "drizzle" /\ Drizzle!Next
  \/ backend = "kysely" /\ Kysely!Next
  \/ backend = "typeorm" /\ Typeorm!Next

InFlight(c) == call[c].pc \notin {"idle", "done", "threw", "dead"}

-----------------------------------------------------------------------------
(* The thing the calls contend for, as SingleUse sees it. *)

Once == scenario \in {"artifact", "claim", "realm"}

KvLife ==
  IF scenario = "artifact"
  THEN IF Kv!Held(<<"consumed">>) THEN "taken"
       ELSE IF Kv!Held(<<"artifact">>) /\ Kv!Artifact.expires > now THEN "free" ELSE "absent"
  ELSE IF Kv!Held(<<scenario>>) THEN "taken" ELSE "free"

SqlLife ==
  LET row == store[<<scenario>>] IN
  IF scenario = "artifact"
  THEN IF row # None /\ row.consumed THEN "taken"
       ELSE IF Drizzle!Live(row, now) THEN "free"
       ELSE IF Drizzle!Live(row, now - 1) THEN "expiring" ELSE "absent"
  ELSE IF row = None \/ (scenario = "claim" /\ ~Drizzle!Live(row, now)) THEN "free" ELSE "taken"

Life == IF ~Once THEN "absent" ELSE IF backend = "kv" THEN KvLife ELSE SqlLife

Outcome(c) ==
  IF ~Once \/ call[c].op \notin {"consume", "claim", "create"} THEN "none"
  ELSE IF call[c].pc = "done" THEN (IF call[c].answer THEN "won" ELSE "lost")
  ELSE IF call[c].pc \in {"threw", "dead"} THEN "threw" ELSE "open"

Contract == INSTANCE SingleUse WITH
  life <- Life, answer <- [c \in Calls |-> Outcome(c)],
  reusable <- scenario \in {"claim", "realm"}

-----------------------------------------------------------------------------
\* A statement runs within a tick of the clock reading it carries.  Only artifacts
\* and claims expire here.
Tick ==
  /\ now < MaxTime /\ scenario \in {"artifact", "claim"} /\ now' = now + 1
  /\ backend # "kv" => \A c \in Calls : InFlight(c) => call[c].at = now
  /\ Slow \/ \A c \in Calls : In(c, "consume", "insert") => call[c].seen.expires > now'
  /\ UNCHANGED <<store, call>>

\* The scenario's one row, if it begins with one, and what else a key-value store has of it.
Stored0 ==
  LET row == IF scenario = "artifact" THEN (IF backend = "kv" THEN [expires |-> Expiry]
                                            ELSE [expires |-> Expiry, consumed |-> FALSE])
             ELSE IF scenario = "session" THEN (IF backend = "kv" THEN {} ELSE [clients |-> {}])
             ELSE IF scenario = "client" THEN [by |-> None] ELSE [username |-> Name]
      key == IF scenario = "credential" THEN <<"credential", Somebody>> ELSE <<scenario>>
      expires == IF scenario = "artifact" THEN Kv!TtlFrom(Expiry, 0) ELSE Kv!Forever
      Entry(value) == IF backend = "kv" THEN [value |-> value, expires |-> expires] ELSE value
  IN [k \in Keys |->
       IF k = key /\ scenario \in {"artifact", "session", "client", "credential"} THEN Entry(row)
       ELSE IF k = <<"index">> /\ scenario = "artifact" /\ backend = "kv" THEN Entry(None)
       ELSE IF k = <<"username", Name>> /\ scenario = "credential" /\ backend = "kv" THEN Entry(Somebody)
       ELSE None]

Init ==
  /\ scenario \in Scenarios /\ backend \in Backends
  /\ store = Stored0 /\ now = 0
  /\ call = [c \in Calls |-> Idle]
  /\ met = [c \in Calls |-> {}] /\ alone = {}

Next ==
  /\ UNCHANGED <<scenario, backend>>
  /\ \/ now' = now /\ (Step \/ \E c \in Calls : Begin(c) \/ Crash(c))
     \/ Tick
  /\ met' = [c \in Calls |->
       IF Outcome(c)' = "open" THEN (IF Outcome(c) = "open" THEN met[c] ELSE {}) \cup {Life, Life'} ELSE {}]
  /\ alone' = LET begun == {c \in Calls : call[c].pc = "idle" /\ call'[c].pc # "idle"}
                  inFlight == {c \in Calls : InFlight(c)}
              IN IF begun = {} THEN alone
                 ELSE (alone \ inFlight) \cup (IF inFlight = {} THEN begun ELSE {})

Spec == Init /\ [][Next]_all

-----------------------------------------------------------------------------
(* Properties. *)

TypeOK ==
  /\ DOMAIN store = Keys
  /\ \A c \in Calls : In(c, "consent", "upsert") => call[c].seen \in Keys
  /\ \A c \in Calls : call[c].answer \in {None, TRUE, FALSE} /\ met[c] \subseteq {"absent", "free", "expiring", "taken"}
  /\ \A k \in Keys : k[1] \in {"consumed", "index", "username", "added"} /\ backend # "kv" => store[k] = None

\* Whichever the adapter, what can be had once goes to one caller, and a caller is
\* refused only when there was nothing to be had (adapter.ts:59-64, 97-100, 115-116).
OneWins == Contract!Spec

Listed ==
  IF backend = "kv"
  THEN IF Kv!Held(<<"session">>) THEN store[<<"session">>].value \cup {c \in Calls : Kv!Held(<<"added", c>>)}
       ELSE None
  ELSE IF store[<<"session">>] = None THEN None ELSE store[<<"session">>].clients
Crossed(op) == {s \in Calls \ alone : call[s].op = op}
WrittenOver(c) ==
  /\ Crossed("save") # {}
  /\ backend = "kv" => Crossed("end") # {} \/ call[c].op = "save"
\* A client whose addition was answered is on the session's list, and an ended session
\* does not return, whatever the additions and the end that crossed; and the retries
\* suffice for as many writers as there are.  Writing the whole row (adapter.ts:74,
\* device.ts:195) over a crossing call breaks the first two: on tables any call; over a
\* key-value store, where an added client has a key of its own (kv.ts:171-184), the end,
\* and for a client that is only on the row, another whole row.
ClientsAreListed ==
  scenario = "session" => \A c \in Calls :
    /\ call[c].op \in {"addClient", "save"} /\ call[c].pc = "done" /\ Listed # None => c \in Listed \/ WrittenOver(c)
    /\ In(c, "end", "done") => Listed = None \/ WrittenOver(c)
    /\ ~In(c, "addClient", "threw")

\* A revocation with which no other call overlapped leaves nothing of its grant,
\* unless, over a key-value store, an earlier one crossed a write: the scan may then
\* have dropped the index entry of an artifact written after it was destroyed (kv.ts:121-126).
GrantGoes ==
  \A r \in Calls : In(r, "revoke", "done") /\ r \in alone =>
    \/ Life # "free"
    \/ backend = "kv" /\ Crossed("revoke") # {} /\ Crossed("save") # {}

Ends == {"destroy", "end", "unlink", "withdraw"}
Makes == {"create", "link", "consent"}
\* What was destroyed with no call crossing stays away for as long as nobody makes it
\* again: a row written back by an update is one that update found (adapter.ts:43-47).
DestroyedStays ==
  (\E e \in alone : call[e].op \in Ends /\ call[e].pc = "done") /\ (\A m \in Calls : call[m].op \notin Makes)
  => \A k \in Keys : k[1] \in {"artifact", "session", "client", "identity", "grant"} =>
       IF backend = "kv" THEN ~Kv!Held(k) ELSE store[k] = None

\* Together: what ends, ends.
RevokeReaches == GrantGoes /\ DestroyedStays

\* Of two sign-ups for one name, or one account, one is told it was made, unless a
\* credential was destroyed; and a refused one takes no name with it (kv.ts:249-254).
CreatedOnce ==
  scenario = "credential" => \A c, d \in Calls :
    /\ c # d /\ In(c, "create", "done") /\ In(d, "create", "done") /\ call[c].answer /\ call[d].answer
    /\ call[c].username = call[d].username \/ call[c].account = call[d].account
    => \E e \in Calls : call[e].op = "destroy"

\* A name finds the account that has it, but for the moments, and the crashes, of a
\* call that changes two keys one after the other, and for a destruction that
\* crossed another call: it may leave a name behind (kv.ts:249-269).
NamesResolve ==
  scenario = "credential" /\ backend = "kv" => \A u \in Usernames :
    LET name == <<"username", u>> key == <<"credential", store[name].value>> IN
    Kv!Held(name) /\ Kv!Held(key) /\ (\A c \in Calls : ~InFlight(c) /\ call[c].pc # "dead")
      /\ (\A c \in Calls \ alone : call[c].op # "destroy")
    => store[key].value.username = u

\* Two first consents of one account to one client do not become two grants where
\* the pair is unique; over a key-value store they do.
OneConsent ==
  scenario = "grant" /\ backend # "kv" => Cardinality(Drizzle!Stored("grant")) <= 1

\* Together: what a unique index promises of names, accounts and consents, and what of it the
\* claimed keys of a key-value store keep.
OneOfAName == CreatedOnce /\ NamesResolve /\ OneConsent
================================================================================
