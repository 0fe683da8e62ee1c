------------------------------ MODULE AdapterCalls ------------------------------
(***************************************************************************)
(* What the storage adapters have in common: the calls made of them and    *)
(* the store they make their steps on.                                     *)
(*                                                                         *)
(* A call is a process.  A statement (SQL) or a command (key-value) is one *)
(* step, and between two of them, or between a statement's Date.now() and  *)
(* its execution, other calls take theirs.  The clock ticks in half        *)
(* seconds, for the key-value store's times to live are whole ones.        *)
(***************************************************************************)
EXTENDS Naturals, FiniteSets

CONSTANTS
  Calls,
  Accounts, Usernames,
  Expiry,     \* when the artifact expires
  Ttl,        \* what a claim asks for: at least a second (adapter.ts:99)
  Attempts,   \* the bound of addClient's retries
  MaxTime,    \* the clock stops here
  Scenarios,  \* the tables the calls are about, one at a time
  Backends,   \* kv, drizzle, kysely, typeorm
  None

ASSUME AdapterAssumption ==
  /\ {Expiry, Ttl, Attempts} \subseteq Nat \ {0} /\ Ttl >= 2 /\ MaxTime \in Nat
  /\ Backends \subseteq {"kv", "drizzle", "kysely", "typeorm"}

\* No number, operation, row or entry is None.
ASSUME NoneAssumption ==
  None \notin Nat \cup {"consume", "claim", "create"} \cup [by : Calls] \cup [expires : Nat]
             \cup [expires : Nat, consumed : BOOLEAN] \cup [value : {None} \cup Calls \cup [expires : Nat], expires : Nat]

\* The tables are those there are; there is an account, with a name, to begin with; and no other
\* operation, and nothing else that is stored, is None.
ASSUME TableAssumption ==
  /\ Scenarios \subseteq {"artifact", "session", "claim", "credential", "realm", "client", "identity", "grant"}
  /\ Accounts # {} /\ Usernames # {}
  /\ None \notin {"save", "destroy", "revoke", "prune", "addClient", "end", "link", "unlink", "consent", "withdraw"}
  /\ None \notin [clients : SUBSET Calls] \cup [username : Usernames]
                \cup [value : SUBSET Calls, expires : Nat] \cup [value : Accounts, expires : Nat]
                \cup [value : [username : Usernames], expires : Nat]

VARIABLES
  scenario, backend,
  store,   \* [Keys -> the row or the entry at a key, or None]
  now,
  call     \* [Calls -> the state of a call]

vars == <<scenario, backend, store, now, call>>

Keys == {<<k>> : k \in {"artifact", "consumed", "index", "session", "claim", "realm", "client",
                          "identity"}}
          \cup {<<"added", c>> : c \in Calls} \cup {<<"grant", c>> : c \in Calls}
          \cup {<<"credential", a>> : a \in Accounts} \cup {<<"username", u>> : u \in Usernames}

\* What callers do: an artifact is consumed, written back as it was read,
\* destroyed, revoked with its grant and swept; a session gains clients, one by
\* one or with the whole row (device.ts:195), and ends; a credential or a client
\* is created, written back and destroyed; and so on.  The key-value store drops
\* what has expired by itself: it has no prune.
Operations == [artifact |-> {"consume", "save", "destroy", "revoke", "prune"},
               session |-> {"addClient", "save", "end"},
               claim |-> {"claim"},
               credential |-> {"create", "save", "destroy"},
               realm |-> {"create", "destroy"},
               client |-> {"create", "save", "destroy"},
               identity |-> {"link", "unlink"},
               grant |-> {"consent", "withdraw"}]

Idle == [pc |-> "idle", op |-> None, at |-> 0, seen |-> None, account |-> None, username |-> None,
         tries |-> 0, answer |-> None]

In(c, op, pc) == call[c].op = op /\ call[c].pc = pc
Put(key, row) == store' = [store EXCEPT ![key] = row]
Delete(key) == Put(key, None)
Keep == store' = store

\* The call goes on to another statement, whose clock reading is taken now.
To(c, pc, seen) == call' = [call EXCEPT ![c].pc = pc, ![c].seen = seen, ![c].at = now]
End(c, pc, value) ==
  call' = [call EXCEPT ![c].pc = pc, ![c].answer = value, ![c].seen = None, ![c].at = 0, ![c].tries = 0]
Answer(c, value) == End(c, "done", value)
Throw(c) == End(c, "threw", None)

\* There is one account, with a name, to begin with.
Somebody == CHOOSE a \in Accounts : TRUE
Name == CHOOSE u \in Usernames : TRUE

Begin(c) == \E op \in Operations[scenario], a \in Accounts, u \in Usernames :
  /\ call[c].pc = "idle"
  /\ op = "prune" => backend # "kv"
  /\ scenario # "credential" => a = Somebody
  /\ scenario # "credential" \/ op # "create" => u = Name
  /\ call' = [call EXCEPT ![c].pc = "sent", ![c].op = op, ![c].at = now, ![c].account = a, ![c].username = u]
  /\ Keep

\* An update needs the row and a creation needs it absent, or the caller throws
\* (clients/management.ts:41, 50); a link is made where there is none (broker/link.ts:27).
Looked(c, row) ==
  /\ call[c].pc = "sent" /\ call[c].op \in {"create", "save", "link"} /\ Keep
  /\ IF (row # None) = (call[c].op = "save") THEN To(c, "upsert", IF row = None THEN [by |-> c] ELSE row)
     ELSE IF call[c].op = "link" THEN Answer(c, None) ELSE Throw(c)

\* The process dies between two of a call's steps.
Crash(c) ==
  /\ call[c].pc \notin {"idle", "done", "threw", "dead"}
  /\ End(c, "dead", None)
  /\ Keep
================================================================================
