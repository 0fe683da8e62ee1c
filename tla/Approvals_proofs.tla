---------------------------- MODULE Approvals_proofs ----------------------------
(* Theorems about Approvals, for every value of its constants. *)
EXTENDS Approvals, TLAPS

-----------------------------------------------------------------------------
(* The inductive invariant. *)

Record == [count : Nat, expires : Nat]
PollState ==
  [pc : PollPc, request : Requests \cup {None}, seen : Artifact \cup {None},
   at : 0..MaxTime, list : SUBSET Clients]
AnswerState ==
  [pc : AnswerPc, request : Requests \cup {None}, seen : Artifact \cup {None},
   session : Sessions \cup {None}, list : SUBSET Clients, grant : GrantIds \cup {None},
   record : Record \cup {None}]

\* An approval names its consent and its session.
Whole(artifact) ==
  artifact.status = "approved" => artifact.grant \in GrantIds /\ artifact.session \in Sessions

\* Where a poll has been told to redeem, and where it has.
Redeeming == {"consume", "insert", "destroy", "grant", "session", "addClient", "issued"}
Redeemed == {"destroy", "grant", "session", "addClient", "issued"}

\* What the state x of a poll, and of an answer, holds at each of its places.
Knows(x) ==
  /\ x.pc # "idle" => x.request \in Requests
  /\ x.pc \in Redeeming \cup {"touch"} => x.seen \in Artifact /\ Whole(x.seen)
  /\ x.pc \in Redeeming => x.seen.status = "approved"
Holds(x) ==
  /\ x.pc \in {"deny", "check", "session", "join", "consent", "grant", "approve"} =>
       x.request \in Requests /\ x.seen \in Artifact /\ x.seen.status = "pending" /\ x.session \in Sessions
  /\ x.pc \in {"grant", "approve"} => x.grant \in GrantIds

Types ==
  /\ backend \in Backends /\ scene \in Scenes
  /\ failures \in Record \cup {None} /\ missed \in Nat /\ crowded \in BOOLEAN
  /\ store \in [Requests -> Artifact \cup {None}]
  /\ \A q \in Requests : store[q] # None => Whole(store[q])
  /\ started \subseteq Requests /\ consumed \subseteq Requests
  /\ grants \subseteq [id : GrantIds, client : Clients] /\ revoked \subseteq GrantIds
  /\ sessions \subseteq Sessions /\ ended \subseteq Sessions
  /\ recorded \in [Sessions -> SUBSET Clients] /\ keys \in [Sessions -> SUBSET Clients]
  /\ added \in [Sessions -> SUBSET Clients]
  /\ now \in 0..MaxTime
  /\ poll \in [Polls -> PollState] /\ \A p \in Polls : Knows(poll[p])
  /\ answer \in [Answers -> AnswerState] /\ \A a \in Answers : Holds(answer[a])

\* An approval, stored or as a poll has read it, is one that an answer gave to that request.
Given(q, artifact) ==
  \E a \in Answers : /\ answer[a].pc = "approved" /\ answer[a].request = q
                     /\ answer[a].grant = artifact.grant /\ answer[a].session = artifact.session
Answered ==
  /\ \A q \in Requests : store[q] # None /\ store[q].status = "approved" => Given(q, store[q])
  /\ \A p \in Polls : poll[p].pc \in Redeeming \cup {"touch"} /\ poll[p].seen.status = "approved" =>
       Given(poll[p].request, poll[p].seen)

\* An answer that is about to approve, or has, names a consent that is stored or was revoked.
Known == revoked \cup {g.id : g \in grants}
Consented == \A a \in Answers : answer[a].pc \in {"approve", "approved"} => answer[a].grant \in Known

\* On a kv store what has been redeemed stays marked, and one poll has redeemed it.
Marked ==
  backend = "kv" =>
    /\ \A p \in Polls : poll[p].pc \in Redeemed => poll[p].request \in consumed
    /\ \A p, r \in Polls :
         poll[p].pc \in Redeemed /\ poll[r].pc \in Redeemed /\ poll[p].request = poll[r].request => p = r

\* On a kv store the clients that were added have keys of their own.
Keyed == backend = "kv" => \A s \in Sessions \ ended : added[s] \subseteq keys[s]

\* As long as no two codes were looked up at once, the record counts the wrong codes, and
\* the one lookup under way has read it as it is.
Counts ==
  ~crowded =>
    /\ failures # None => failures.count = missed
    /\ missed <= MaxFailures
    /\ \A a, b \in Answers : Looking(a) /\ Looking(b) => a = b
    /\ \A a \in Answers : Looking(a) /\ answer[a].record # None =>
         answer[a].record = failures /\ missed < MaxFailures

IInv == Types /\ Answered /\ Consented /\ Marked /\ Keyed /\ Counts

-----------------------------------------------------------------------------
(* Types. *)

\* Replacing the state of one poll, or of one answer, by a well-typed one.
LEMMA PollUpdate ==
  ASSUME Types, NEW p \in Polls, NEW new \in PollState, Knows(new), poll' = [poll EXCEPT ![p] = new]
  PROVE  poll' \in [Polls -> PollState] /\ \A r \in Polls : Knows(poll'[r])
<1>1. poll \in [Polls -> PollState] /\ \A r \in Polls : Knows(poll[r])
  BY DEF Types
<1>. QED BY <1>1, Zenon

LEMMA AnswerUpdate ==
  ASSUME Types, NEW a \in Answers, NEW new \in AnswerState, Holds(new),
         answer' = [answer EXCEPT ![a] = new]
  PROVE  answer' \in [Answers -> AnswerState] /\ \A b \in Answers : Holds(answer'[b])
<1>1. answer \in [Answers -> AnswerState] /\ \A b \in Answers : Holds(answer[b])
  BY DEF Types
<1>. QED BY <1>1, Zenon

LEMMA Typed ==
  ASSUME Types
  PROVE  /\ \A p \in Polls : poll[p] \in PollState /\ Knows(poll[p])
         /\ \A a \in Answers : answer[a] \in AnswerState /\ Holds(answer[a])
BY DEF Types

\* Going on to a place that asks for nothing new.
LEMMA PollGoes ==
  ASSUME Types, NEW p \in Polls, NEW pc \in PollPc, PollAt(p, pc), poll[p].pc # "idle",
         pc # "touch", pc \in Redeeming => poll[p].pc \in Redeeming
  PROVE  poll' \in [Polls -> PollState] /\ \A r \in Polls : Knows(poll'[r])
<1> DEFINE new == [poll[p] EXCEPT !.pc = pc]
<1>1. poll[p] \in PollState /\ Knows(poll[p])
  BY Typed
<1>2. new \in PollState /\ Knows(new)
  BY <1>1 DEF PollState, Knows
<1>3. poll' = [poll EXCEPT ![p] = new]
  BY DEF PollAt, Types
<1> HIDE DEF new
<1>. QED BY <1>2, <1>3, PollUpdate

LEMMA AnswerGoes ==
  ASSUME Types, NEW a \in Answers, NEW pc \in AnswerPc, AnswerAt(a, pc),
         pc \in {"deny", "check", "session", "join", "consent", "grant", "approve"} =>
           answer[a].pc \in {"deny", "check", "session", "join", "consent", "grant", "approve"},
         pc \in {"grant", "approve"} => answer[a].pc \in {"grant", "approve"}
  PROVE  answer' \in [Answers -> AnswerState] /\ \A b \in Answers : Holds(answer'[b])
<1> DEFINE new == [answer[a] EXCEPT !.pc = pc]
<1>1. answer[a] \in AnswerState /\ Holds(answer[a])
  BY Typed
<1>2. new \in AnswerState /\ Holds(new)
  BY <1>1 DEF AnswerState, Holds
<1>3. answer' = [answer EXCEPT ![a] = new]
  BY DEF AnswerAt, Types
<1> HIDE DEF new
<1>. QED BY <1>2, <1>3, AnswerUpdate

\* Writing a request's record.
LEMMA UpsertTypes ==
  ASSUME Types, NEW q \in Requests, NEW artifact \in Artifact, Whole(artifact), Upsert(q, artifact)
  PROVE  /\ store' \in [Requests -> Artifact \cup {None}]
         /\ \A r \in Requests : store'[r] # None => Whole(store'[r])
         /\ store'[q] = artifact /\ \A r \in Requests \ {q} : store'[r] = store[r]
<1>1. store \in [Requests -> Artifact \cup {None}] /\ \A r \in Requests : store[r] # None => Whole(store[r])
  BY DEF Types
<1>2. store' = [store EXCEPT ![q] = artifact]
  BY DEF Upsert
<1>. QED BY <1>1, <1>2, Zenon

\* Adding a client to a session.
LEMMA AddTypes ==
  ASSUME Types, NEW s \in Sessions, NEW c \in Clients, AddTo(s, c)
  PROVE  /\ recorded' \in [Sessions -> SUBSET Clients] /\ keys' \in [Sessions -> SUBSET Clients]
         /\ added' \in [Sessions -> SUBSET Clients]
         /\ UNCHANGED <<backend, scene, sessions, ended, failures, missed, crowded>>
<1>1. recorded \in [Sessions -> SUBSET Clients] /\ keys \in [Sessions -> SUBSET Clients]
      /\ added \in [Sessions -> SUBSET Clients]
  BY DEF Types
<1>2. CASE UNCHANGED people
  BY <1>1, <1>2 DEF people, world, guesses
<1>3. CASE /\ recorded' = [recorded EXCEPT ![s] = IF backend = "sql" THEN @ \cup {c} ELSE @]
           /\ keys' = [keys EXCEPT ![s] = IF backend = "kv" THEN @ \cup {c} ELSE @]
           /\ added' = [added EXCEPT ![s] = @ \cup {c}]
           /\ UNCHANGED <<world, sessions, ended, guesses>>
  <2>1. added' \in [Sessions -> SUBSET Clients]
    BY <1>1, <1>3
  <2>2. recorded' \in [Sessions -> SUBSET Clients]
    BY <1>1, <1>3
  <2>3. keys' \in [Sessions -> SUBSET Clients]
    BY <1>1, <1>3
  <2>. QED BY <1>3, <2>1, <2>2, <2>3 DEF world, guesses
<1>. QED BY <1>2, <1>3 DEF AddTo

LEMMA TypesInit == Init => Types
<1> SUFFICES ASSUME Init PROVE Types
  OBVIOUS
<1>1. poll \in [Polls -> PollState] /\ \A p \in Polls : Knows(poll[p])
  BY ApprovalsAssumption DEF Init, PollState, PollPc, Knows, Redeeming
<1>2. answer \in [Answers -> AnswerState] /\ \A a \in Answers : Holds(answer[a])
  BY DEF Init, AnswerState, AnswerPc, Holds
<1>3. store \in [Requests -> Artifact \cup {None}] /\ \A q \in Requests : store[q] = None
  BY DEF Init
<1>4. now \in 0..MaxTime
  BY ApprovalsAssumption DEF Init
<1>. QED BY <1>1, <1>2, <1>3, <1>4 DEF Init, Types

LEMMA TypesPoll ==
  ASSUME Types, NEW p \in Polls, PollStep(p) PROVE Types'
<1>0. poll[p] \in PollState /\ Knows(poll[p])
  BY Typed
<1> USE DEF people, world, guesses
<1>1. ASSUME NEW q \in Requests, FindRequest(p, q) PROVE Types'
  <2> DEFINE new == [poll[p] EXCEPT !.request = q, !.seen = store[q], !.at = now,
                       !.pc = IF Live(q) /\ q \notin consumed THEN "touch" ELSE "refused"]
  <2>1. store[q] \in Artifact \cup {None} /\ (store[q] # None => Whole(store[q]) /\ store[q] \in Artifact)
        /\ now \in 0..MaxTime
    BY DEF Types
  <2>2. new \in PollState /\ Knows(new)
    BY <1>0, <2>1 DEF PollState, PollPc, Knows, Redeeming, Live
  <2>3. poll' = [poll EXCEPT ![p] = new]
    BY <1>1 DEF FindRequest, Types
  <2> HIDE DEF new
  <2>4. poll' \in [Polls -> PollState] /\ \A r \in Polls : Knows(poll'[r])
    BY <2>2, <2>3, PollUpdate
  <2>. QED BY <1>1, <2>4 DEF FindRequest, Types
<1>2. CASE Touch(p)
  <2>1. poll[p].pc = "touch" /\ poll[p].request \in Requests /\ poll[p].seen \in Artifact /\ Whole(poll[p].seen)
        /\ poll[p].at \in Nat
    BY <1>0, <1>2, ApprovalsAssumption DEF Touch, Knows, PollState
  <2>2. Touched(p) \in Artifact /\ Whole(Touched(p))
    <3>1. \A i \in Nat : LET new == [poll[p].seen EXCEPT !.polled = poll[p].at, !.interval = i] IN
                         new \in Artifact /\ Whole(new)
      BY <2>1 DEF Artifact, Whole
    <3>2. (IF Slow(p) THEN poll[p].seen.interval + DefaultInterval ELSE poll[p].seen.interval) \in Nat
      BY <2>1, ApprovalsAssumption DEF Artifact
    <3>3. Touched(p) = [poll[p].seen EXCEPT !.polled = poll[p].at, !.interval =
                         IF Slow(p) THEN poll[p].seen.interval + DefaultInterval ELSE poll[p].seen.interval]
      BY <2>1 DEF Touched, Artifact
    <3> HIDE DEF Slow
    <3>. QED BY <3>1, <3>2, <3>3
  <2>3. /\ store' \in [Requests -> Artifact \cup {None}]
        /\ \A r \in Requests : store'[r] # None => Whole(store'[r])
    BY <1>2, <2>1, <2>2, UpsertTypes DEF Touch
  <2> DEFINE new == [poll[p] EXCEPT !.pc = Verdict(p)]
  <2>4. new \in PollState /\ Knows(new)
    BY <1>0, <2>1 DEF PollState, PollPc, Knows, Redeeming, Verdict, Artifact
  <2>5. poll' = [poll EXCEPT ![p] = new]
    BY <1>2 DEF Touch, PollAt, Types
  <2> HIDE DEF new
  <2>6. poll' \in [Polls -> PollState] /\ \A r \in Polls : Knows(poll'[r])
    BY <2>4, <2>5, PollUpdate
  <2>. QED BY <1>2, <2>3, <2>6 DEF Touch, Types
<1>3. CASE ConsumeRow(p) \/ ConsumeRead(p) \/ ConsumeInsert(p)
  <2>1. poll[p].pc \in {"consume", "insert"} /\ poll[p].request \in Requests
    BY <1>0, <1>3 DEF ConsumeRow, ConsumeRead, ConsumeInsert, Knows
  <2>2. \E pc \in {"destroy", "insert", "refused"} : PollAt(p, pc)
    BY <1>3 DEF ConsumeRow, ConsumeRead, ConsumeInsert
  <2>3. poll' \in [Polls -> PollState] /\ \A r \in Polls : Knows(poll'[r])
    BY <2>1, <2>2, PollGoes DEF Redeeming, PollPc
  <2>. QED BY <1>3, <2>1, <2>3 DEF ConsumeRow, ConsumeRead, ConsumeInsert, Types
<1>4. CASE DestroyRequest(p)
  <2>1. poll' \in [Polls -> PollState] /\ \A r \in Polls : Knows(poll'[r])
    BY <1>4, PollGoes DEF DestroyRequest, Redeeming, PollPc
  <2>2. /\ store' = [store EXCEPT ![poll[p].request] = None] /\ consumed' \subseteq consumed
    BY <1>4 DEF DestroyRequest, Destroy
  <2>3. /\ store' \in [Requests -> Artifact \cup {None}]
        /\ \A r \in Requests : store'[r] # None => Whole(store'[r])
    BY <2>2 DEF Types
  <2>. QED BY <1>4, <2>1, <2>2, <2>3 DEF DestroyRequest, Types
<1>5. CASE LoadGrant(p) \/ FailPoll(p) \/ (LoadSession(p) /\ PollAt(p, "refused"))
  <2>1. \E pc \in {"session", "refused", "failed"} : PollAt(p, pc) /\ (pc = "session" => poll[p].pc = "grant")
    BY <1>5 DEF LoadGrant, FailPoll
  <2>2. poll[p].pc # "idle"
    BY <1>5 DEF LoadGrant, FailPoll, LoadSession
  <2>3. poll' \in [Polls -> PollState] /\ \A r \in Polls : Knows(poll'[r])
    BY <2>1, <2>2, PollGoes DEF Redeeming, PollPc
  <2>. QED BY <1>5, <2>3 DEF LoadGrant, FailPoll, LoadSession, Types
<1>6. CASE LoadSession(p) /\ poll' = [poll EXCEPT ![p].pc = "addClient", ![p].list = List(poll[p].seen.session)]
           /\ poll[p].seen.session \in sessions
  <2> DEFINE new == [poll[p] EXCEPT !.pc = "addClient", !.list = List(poll[p].seen.session)]
  <2>1. poll[p].pc = "session" /\ List(poll[p].seen.session) \in SUBSET Clients
    BY <1>6 DEF LoadSession, List, Types
  <2>2. new \in PollState /\ Knows(new)
    BY <1>0, <2>1 DEF PollState, PollPc, Knows, Redeeming
  <2>3. poll' = [poll EXCEPT ![p] = new]
    BY <1>6 DEF Types
  <2> HIDE DEF new
  <2>4. poll' \in [Polls -> PollState] /\ \A r \in Polls : Knows(poll'[r])
    BY <2>2, <2>3, PollUpdate
  <2>. QED BY <1>6, <2>4 DEF LoadSession, Types
<1>7. CASE AddClient(p)
  <2>1. poll[p].pc = "addClient" /\ poll[p].request \in Requests /\ poll[p].seen.session \in Sessions
    BY <1>0, <1>7 DEF AddClient, Knows, Redeeming, Whole
  <2>2. ClientOf[poll[p].request] \in Clients
    BY <2>1, ApprovalsAssumption
  <2>3. poll' \in [Polls -> PollState] /\ \A r \in Polls : Knows(poll'[r])
    BY <1>7, <2>1, PollGoes DEF AddClient, Redeeming, PollPc
  <2>4. CASE UNCHANGED people
    BY <1>7, <2>3, <2>4 DEF AddClient, Types
  <2>5. CASE AddTo(poll[p].seen.session, ClientOf[poll[p].request])
    <3>1. /\ recorded' \in [Sessions -> SUBSET Clients] /\ keys' \in [Sessions -> SUBSET Clients]
          /\ added' \in [Sessions -> SUBSET Clients]
          /\ UNCHANGED <<backend, scene, sessions, ended, failures, missed, crowded>>
      BY <2>1, <2>2, <2>5, AddTypes
    <3>. QED BY <1>7, <2>3, <3>1 DEF AddClient, Types
  <2>. QED BY <1>7, <2>4, <2>5 DEF AddClient
<1>8. LoadSession(p) => \/ PollAt(p, "refused")
                        \/ /\ poll' = [poll EXCEPT ![p].pc = "addClient", ![p].list = List(poll[p].seen.session)]
                           /\ poll[p].seen.session \in sessions
  BY DEF LoadSession
<1>. QED BY <1>1, <1>2, <1>3, <1>4, <1>5, <1>6, <1>7, <1>8 DEF PollStep

LEMMA TypesAnswer ==
  ASSUME Types, NEW a \in Answers, AnswerStep(a) PROVE Types'
<1>0. answer[a] \in AnswerState /\ Holds(answer[a])
  BY Typed
<1> USE DEF people, world, guesses
<1>1. ASSUME NEW q \in Requests \cup {None}, TypeCode(a, q) PROVE Types'
  <2> DEFINE pc == IF Allowed THEN "lookup" ELSE "refused"
             record == IF Counted(failures) = 0 THEN None ELSE failures
             new == [answer[a] EXCEPT !.pc = pc, !.request = q, !.record = record]
  <2>1. record \in Record \cup {None} /\ pc \in {"lookup", "refused"}
    BY DEF Types
  <2>2. answer' = [answer EXCEPT ![a] = new]
    BY <1>1 DEF TypeCode, Types
  <2> HIDE DEF pc, record
  <2>3. new \in AnswerState /\ Holds(new)
    <3>1. new \in AnswerState
      BY <1>0, <1>1, <2>1 DEF AnswerState, AnswerPc
    <3>2. new.pc = pc
      BY <1>0 DEF AnswerState
    <3>. QED BY <2>1, <3>1, <3>2 DEF Holds
  <2> HIDE DEF new
  <2>4. answer' \in [Answers -> AnswerState] /\ \A b \in Answers : Holds(answer'[b])
    BY <2>2, <2>3, AnswerUpdate
  <2>5. crowded' \in BOOLEAN
    BY <1>1 DEF TypeCode
  <2>. QED BY <1>1, <2>4, <2>5 DEF TypeCode, Types
<1>2. ASSUME NEW q, NEW s \in Sessions \cup {None}, NEW pc \in {"deny", "check", "signin"},
             pc # "signin" => s \in Sessions,
             \/ answer' = [answer EXCEPT ![a].pc = "miss"]
             \/ answer' = [answer EXCEPT ![a].pc = "refused"]
             \/ /\ q \in Requests /\ store[q] # None /\ store[q].status = "pending"
                /\ \/ answer[a].request = q
                      /\ answer' = [answer EXCEPT ![a] = [@ EXCEPT !.pc = pc, !.seen = store[q], !.session = s]]
                   \/ answer' = [answer EXCEPT ![a] =
                        [@ EXCEPT !.pc = pc, !.request = q, !.seen = store[q], !.session = s]]
      PROVE  answer' \in [Answers -> AnswerState] /\ \A b \in Answers : Holds(answer'[b])
  <2>1. CASE \E at \in {"miss", "refused"} : AnswerAt(a, at)
    BY <2>1, AnswerGoes DEF AnswerPc
  <2>2. CASE q \in Requests /\ store[q] # None /\ store[q].status = "pending"
    <3>1. store[q] \in Artifact
      BY <2>2 DEF Types
    <3>2. ASSUME answer[a].request = q,
                 answer' = [answer EXCEPT ![a] = [@ EXCEPT !.pc = pc, !.seen = store[q], !.session = s]]
          PROVE  answer' \in [Answers -> AnswerState] /\ \A b \in Answers : Holds(answer'[b])
      <4> DEFINE new == [answer[a] EXCEPT !.pc = pc, !.seen = store[q], !.session = s]
      <4>1. new \in AnswerState /\ Holds(new)
        BY <1>0, <1>2, <2>2, <3>1, <3>2 DEF AnswerState, AnswerPc, Holds
      <4>2. answer' = [answer EXCEPT ![a] = new]
        BY <3>2
      <4> HIDE DEF new
      <4>. QED BY <4>1, <4>2, AnswerUpdate
    <3>3. ASSUME answer' = [answer EXCEPT ![a] =
                   [@ EXCEPT !.pc = pc, !.request = q, !.seen = store[q], !.session = s]]
          PROVE  answer' \in [Answers -> AnswerState] /\ \A b \in Answers : Holds(answer'[b])
      <4> DEFINE new == [answer[a] EXCEPT !.pc = pc, !.request = q, !.seen = store[q], !.session = s]
      <4>1. new \in AnswerState /\ Holds(new)
        BY <1>0, <1>2, <2>2, <3>1 DEF AnswerState, AnswerPc, Holds
      <4>2. answer' = [answer EXCEPT ![a] = new]
        BY <3>3
      <4> HIDE DEF new
      <4>. QED BY <4>1, <4>2, AnswerUpdate
    <3>. QED BY <1>2, <2>1, <3>2, <3>3 DEF AnswerAt
  <2>. QED BY <1>2, <2>1, <2>2 DEF AnswerAt
<1>3. ASSUME NEW s \in Sessions \cup {None}, NEW pc \in {"deny", "check", "signin"},
             pc # "signin" => s \in Sessions, Lookup(a, pc, s) PROVE Types'
  <2>1. answer[a].request \in Requests \cup {None}
    BY <1>0 DEF AnswerState
  <2>2. answer' \in [Answers -> AnswerState] /\ \A b \in Answers : Holds(answer'[b])
    <3> DEFINE q == answer[a].request
    <3>1. \/ answer' = [answer EXCEPT ![a].pc = "miss"]
          \/ answer' = [answer EXCEPT ![a].pc = "refused"]
          \/ /\ q \in Requests /\ store[q] # None /\ store[q].status = "pending"
             /\ answer' = [answer EXCEPT ![a] = [@ EXCEPT !.pc = pc, !.seen = store[q], !.session = s]]
      <4>1. CASE ~(q # None /\ Findable(q))
        BY <1>3, <4>1 DEF Lookup
      <4>2. CASE q # None /\ Findable(q)
        <5>1. store[q] \in Artifact /\ store[q] # None /\ q \in Requests
          BY <2>1, <4>2 DEF Findable, Live, Types
        <5>2. store[q].status \in {"pending", "approved", "denied"}
          BY <5>1 DEF Artifact
        <5>. QED BY <1>3, <4>2, <5>1, <5>2 DEF Lookup
      <4>. QED BY <4>1, <4>2
    <3>. QED BY <1>2, <1>3, <3>1
  <2>. QED BY <1>3, <2>2 DEF Lookup, Types
<1>4. ASSUME NEW s \in Sessions, NEW pc \in {"deny", "check"}, NEW q \in Requests, Resolve(a, q, pc, s)
      PROVE  Types'
  <2>1. \/ answer' = [answer EXCEPT ![a].pc = "refused"]
        \/ /\ q \in Requests /\ store[q] # None /\ store[q].status = "pending"
           /\ answer' = [answer EXCEPT ![a] =
                [@ EXCEPT !.pc = pc, !.request = q, !.seen = store[q], !.session = s]]
    BY <1>4 DEF Resolve, Live
  <2>2. answer' \in [Answers -> AnswerState] /\ \A b \in Answers : Holds(answer'[b])
    BY <1>2, <2>1
  <2>. QED BY <1>4, <2>2 DEF Resolve, Types
<1>5. CASE RecordFailure(a)
  <2>1. answer' \in [Answers -> AnswerState] /\ \A b \in Answers : Holds(answer'[b])
    BY <1>5, AnswerGoes DEF RecordFailure, AnswerPc
  <2>2. answer[a].record \in Record \cup {None} /\ now \in Nat /\ missed \in Nat /\ Window \in Nat
    BY <1>0, ApprovalsAssumption DEF AnswerState, Types
  <2>3. failures' \in Record /\ missed' \in Nat
    BY <1>5, <2>2 DEF RecordFailure, Record
  <2>. QED BY <1>5, <2>1, <2>3 DEF RecordFailure, Types
<1>6. CASE SignInFirst(a) \/ FailAnswer(a) \/ CheckApproval(a) \/ (ReadSession(a) /\ AnswerAt(a, "consent"))
  <2>1. \E pc \in {"refused", "failed", "session", "consent"} :
          AnswerAt(a, pc) /\ (pc \in {"session", "consent"} => answer[a].pc \in {"check", "session"})
    BY <1>6 DEF SignInFirst, FailAnswer, CheckApproval, ReadSession
  <2>2. answer' \in [Answers -> AnswerState] /\ \A b \in Answers : Holds(answer'[b])
    BY <2>1, AnswerGoes DEF AnswerPc
  <2>. QED BY <1>6, <2>2 DEF SignInFirst, FailAnswer, CheckApproval, ReadSession, Types
<1>7. ASSUME NEW pc \in {"denied", "approved"}, NEW artifact \in Artifact, Whole(artifact),
             answer[a].request \in Requests, Upsert(answer[a].request, artifact), AnswerAt(a, pc),
             UNCHANGED <<people, started, consumed, grants, revoked, now, poll>>
      PROVE  Types'
  <2>1. answer' \in [Answers -> AnswerState] /\ \A b \in Answers : Holds(answer'[b])
    BY <1>7, AnswerGoes DEF AnswerPc
  <2>2. /\ store' \in [Requests -> Artifact \cup {None}]
        /\ \A r \in Requests : store'[r] # None => Whole(store'[r])
    BY <1>7, UpsertTypes
  <2>. QED BY <1>7, <2>1, <2>2 DEF Types
<1>8. CASE Deny(a)
  <2>1. answer[a].request \in Requests /\ answer[a].seen \in Artifact
    BY <1>0, <1>8 DEF Deny, Holds
  <2> DEFINE artifact == [answer[a].seen EXCEPT !.status = "denied"]
  <2>2. artifact \in Artifact /\ Whole(artifact)
    BY <2>1 DEF Artifact, Whole
  <2>3. Upsert(answer[a].request, artifact)
    BY <1>8 DEF Deny
  <2> HIDE DEF artifact
  <2>. QED BY <1>7, <1>8, <2>1, <2>2, <2>3 DEF Deny
<1>9. CASE Approve(a)
  <2>1. answer[a].request \in Requests /\ answer[a].seen \in Artifact /\ answer[a].grant \in GrantIds
        /\ answer[a].session \in Sessions
    BY <1>0, <1>9 DEF Approve, Holds
  <2> DEFINE artifact == [answer[a].seen EXCEPT !.status = "approved", !.grant = answer[a].grant,
                                                !.session = answer[a].session]
  <2>2. artifact \in Artifact /\ Whole(artifact)
    BY <2>1 DEF Artifact, Whole
  <2>3. Upsert(answer[a].request, artifact)
    BY <1>9 DEF Approve
  <2> HIDE DEF artifact
  <2>. QED BY <1>7, <1>9, <2>1, <2>2, <2>3 DEF Approve
<1>10. CASE ReadSession(a) /\ answer' = [answer EXCEPT ![a].pc = "join", ![a].list = List(answer[a].session)]
  <2> DEFINE new == [answer[a] EXCEPT !.pc = "join", !.list = List(answer[a].session)]
  <2>1. answer[a].pc = "session" /\ answer[a].session \in Sessions
    BY <1>0, <1>10 DEF ReadSession, Holds
  <2>2. List(answer[a].session) \in SUBSET Clients
    BY <2>1 DEF List, Types
  <2>3. new \in AnswerState /\ Holds(new)
    BY <1>0, <2>1, <2>2 DEF AnswerState, AnswerPc, Holds
  <2>4. answer' = [answer EXCEPT ![a] = new]
    BY <1>10 DEF Types
  <2> HIDE DEF new
  <2>5. answer' \in [Answers -> AnswerState] /\ \A b \in Answers : Holds(answer'[b])
    BY <2>3, <2>4, AnswerUpdate
  <2>. QED BY <1>10, <2>5 DEF ReadSession, Types
<1>11. CASE JoinSession(a)
  <2>1. answer[a].pc = "join" /\ answer[a].session \in Sessions /\ answer[a].request \in Requests
        /\ answer[a].list \in SUBSET Clients
    BY <1>0, <1>11 DEF JoinSession, Holds, AnswerState
  <2>2. answer' \in [Answers -> AnswerState] /\ \A b \in Answers : Holds(answer'[b])
    BY <1>11, <2>1, AnswerGoes DEF JoinSession, AnswerPc
  <2>3. sessions' \subseteq Sessions /\ recorded' \in [Sessions -> SUBSET Clients]
    BY <1>11, <2>1, ApprovalsAssumption DEF JoinSession, Types
  <2>. QED BY <1>11, <2>2, <2>3 DEF JoinSession, Types
<1>12. CASE FindConsent(a)
  <2>1. PICK id \in IF Consents(ClientOf[answer[a].request]) = {} THEN {a}
                    ELSE {g.id : g \in Consents(ClientOf[answer[a].request])} :
          answer' = [answer EXCEPT ![a].pc = "grant", ![a].grant = id]
    BY <1>12 DEF FindConsent
  <2>2. id \in GrantIds
    BY <2>1 DEF Consents, GrantIds, Types
  <2> DEFINE new == [answer[a] EXCEPT !.pc = "grant", !.grant = id]
  <2>3. new \in AnswerState /\ Holds(new)
    BY <1>0, <1>12, <2>2 DEF FindConsent, AnswerState, AnswerPc, Holds
  <2>4. answer' = [answer EXCEPT ![a] = new]
    BY <2>1 DEF Types
  <2> HIDE DEF new
  <2>5. answer' \in [Answers -> AnswerState] /\ \A b \in Answers : Holds(answer'[b])
    BY <2>3, <2>4, AnswerUpdate
  <2>. QED BY <1>12, <2>5 DEF FindConsent, Types
<1>13. CASE UpsertConsent(a)
  <2>1. answer[a].pc = "grant" /\ answer[a].grant \in GrantIds /\ answer[a].request \in Requests
    BY <1>0, <1>13 DEF UpsertConsent, Holds
  <2>2. answer' \in [Answers -> AnswerState] /\ \A b \in Answers : Holds(answer'[b])
    BY <1>13, <2>1, AnswerGoes DEF UpsertConsent, AnswerPc
  <2>3. grants' \subseteq [id : GrantIds, client : Clients]
    BY <1>13, <2>1, ApprovalsAssumption DEF UpsertConsent, Types
  <2>. QED BY <1>13, <2>2, <2>3 DEF UpsertConsent, Types
<1>14. ReadSession(a) => \/ AnswerAt(a, "consent")
                         \/ answer' = [answer EXCEPT ![a].pc = "join", ![a].list = List(answer[a].session)]
  BY DEF ReadSession
<1>. QED BY <1>1, <1>3, <1>4, <1>5, <1>6, <1>8, <1>9, <1>10, <1>11, <1>12, <1>13, <1>14 DEF AnswerStep

LEMMA TypesNext == Types /\ [Next]_vars => Types'
<1> SUFFICES ASSUME Types, [Next]_vars PROVE Types'
  OBVIOUS
<1> USE DEF people, world, guesses
<1>1. ASSUME NEW q \in Requests, Requested(q) PROVE Types'
  <2> DEFINE artifact == [status |-> "pending", interval |-> DefaultInterval, polled |-> None,
                          expires |-> now + Ttl, grant |-> None, session |-> None]
  <2>1. artifact \in Artifact /\ Whole(artifact)
    BY ApprovalsAssumption DEF Artifact, Whole, Types
  <2>2. Upsert(q, artifact)
    BY <1>1 DEF Requested
  <2> HIDE DEF artifact
  <2>3. /\ store' \in [Requests -> Artifact \cup {None}]
        /\ \A r \in Requests : store'[r] # None => Whole(store'[r])
    BY <2>1, <2>2, UpsertTypes
  <2>. QED BY <1>1, <2>3 DEF Requested, Types
<1>2. ASSUME NEW s \in Sessions, NEW c \in Clients, SignIn(s, c) PROVE Types'
  <2>1. AddTo(s, c)
    BY <1>2 DEF SignIn
  <2>. QED BY <1>2, <2>1, AddTypes DEF SignIn, Types
<1>3. ASSUME NEW c \in Clients, Consent(c) PROVE Types'
  BY <1>3 DEF Consent, Types, GrantIds
<1>4. ASSUME NEW s \in Sessions, EndSession(s) PROVE Types'
  BY <1>4 DEF EndSession, Types
<1>5. ASSUME NEW g \in grants, RevokeArtifacts(g) PROVE Types'
  <2>1. g.id \in GrantIds
    BY DEF Types
  <2>2. store' \in [Requests -> Artifact \cup {None}] /\ \A q \in Requests : store'[q] # None => Whole(store'[q])
    BY <1>5 DEF RevokeArtifacts, Types
  <2>3. consumed' \subseteq Requests /\ revoked' \subseteq GrantIds
    BY <1>5, <2>1 DEF RevokeArtifacts, Types
  <2>. QED BY <1>5, <2>2, <2>3 DEF RevokeArtifacts, Types
<1>6. ASSUME NEW g \in grants, DestroyConsent(g) PROVE Types'
  BY <1>6 DEF DestroyConsent, Types
<1>7. CASE Tick
  BY <1>7, ApprovalsAssumption DEF Tick, Types
<1>8. CASE UNCHANGED vars
  BY <1>8 DEF vars, Types
<1>. QED BY <1>1, <1>2, <1>3, <1>4, <1>5, <1>6, <1>7, <1>8, TypesPoll, TypesAnswer
         DEF Next, DeviceAuthorization, BackchannelAuthentication

-----------------------------------------------------------------------------
(* What a step changes, in plain terms. *)

\* A poll finds its request, writes it back, gives up, goes to the insert, wins, or goes on.
Finds(p) ==
  \E q \in Requests :
    /\ poll'[p].request = q /\ poll'[p].seen = store[q] /\ UNCHANGED <<store, consumed>>
    /\ poll'[p].pc = "refused" \/ (poll'[p].pc = "touch" /\ store[q] # None)
Same(p) == poll'[p].request = poll[p].request /\ poll'[p].seen = poll[p].seen
WritesBack(p) ==
  /\ poll[p].pc = "touch" /\ poll'[p].pc = Verdict(p)
  /\ Upsert(poll[p].request, Touched(p)) /\ UNCHANGED consumed
GivesUp(p) == poll'[p].pc \in {"refused", "failed"} /\ UNCHANGED <<store, consumed>>
Inserts(p) == poll[p].pc = "consume" /\ poll'[p].pc = "insert" /\ UNCHANGED <<store, consumed>>
Wins(p) ==
  /\ poll[p].pc \in {"consume", "insert"} /\ poll'[p].pc = "destroy"
  /\ poll[p].request \notin consumed /\ consumed' = consumed \cup {poll[p].request}
  /\ UNCHANGED store
GoesOn(p) ==
  /\ poll[p].pc \in Redeemed /\ poll'[p].pc \in Redeemed
  /\ \A q \in Requests : store'[q] \in {store[q], None}
  /\ backend = "kv" => consumed' = consumed

LEMMA PollFacts ==
  ASSUME Types, NEW p \in Polls, PollStep(p)
  PROVE  /\ \A r \in Polls \ {p} : poll'[r] = poll[r]
         /\ UNCHANGED <<backend, ended, failures, missed, crowded, grants, revoked, answer>>
         /\ \/ Finds(p)
            \/ Same(p) /\ (WritesBack(p) \/ GivesUp(p) \/ Inserts(p) \/ Wins(p) \/ GoesOn(p))
<1>0. poll[p] \in PollState /\ poll \in [Polls -> PollState] /\ Knows(poll[p])
  BY DEF Types
<1> USE DEF people, world, guesses
<1>1. \A pc : PollAt(p, pc) =>
        /\ \A r \in Polls \ {p} : poll'[r] = poll[r]
        /\ Same(p) /\ poll'[p].pc = pc
  BY <1>0 DEF PollAt, Same, PollState
<1>2. ASSUME NEW q \in Requests, FindRequest(p, q)
      PROVE  /\ \A r \in Polls \ {p} : poll'[r] = poll[r]
             /\ UNCHANGED <<backend, ended, failures, missed, crowded, grants, revoked, answer>>
             /\ Finds(p)
  <2>1. poll' = [poll EXCEPT ![p] = [@ EXCEPT !.request = q, !.seen = store[q], !.at = now,
                   !.pc = IF Live(q) /\ q \notin consumed THEN "touch" ELSE "refused"]]
    BY <1>2 DEF FindRequest
  <2>2. /\ poll'[p].request = q /\ poll'[p].seen = store[q]
        /\ poll'[p].pc = "refused" \/ (poll'[p].pc = "touch" /\ store[q] # None)
    BY <1>0, <2>1 DEF PollState, Live
  <2>. QED BY <1>0, <1>2, <2>1, <2>2 DEF FindRequest, Finds
<1>3. CASE Touch(p)
  BY <1>1, <1>3 DEF Touch, WritesBack
<1>4. CASE ConsumeRow(p) \/ ConsumeRead(p) \/ ConsumeInsert(p)
  BY <1>1, <1>4 DEF ConsumeRow, ConsumeRead, ConsumeInsert, GivesUp, Inserts, Wins
<1>5. CASE DestroyRequest(p)
  <2>1. store' = [store EXCEPT ![poll[p].request] = None] /\ (backend # "sql" => consumed' = consumed)
    BY <1>5 DEF DestroyRequest, Destroy
  <2>2. \A q \in Requests : store'[q] \in {store[q], None}
    BY <2>1 DEF Types
  <2>. QED BY <1>1, <1>5, <2>1, <2>2 DEF DestroyRequest, GoesOn, Redeemed
<1>6. CASE LoadGrant(p) \/ FailPoll(p)
  BY <1>1, <1>6 DEF LoadGrant, FailPoll, GivesUp, GoesOn, Redeemed
<1>7. CASE LoadSession(p)
  <2>1. CASE PollAt(p, "refused")
    BY <1>1, <1>7, <2>1 DEF LoadSession, GivesUp
  <2>2. CASE poll' = [poll EXCEPT ![p].pc = "addClient", ![p].list = List(poll[p].seen.session)]
    <3>1. Same(p) /\ poll'[p].pc = "addClient" /\ \A r \in Polls \ {p} : poll'[r] = poll[r]
      BY <1>0, <2>2 DEF Same, PollState
    <3>. QED BY <1>7, <3>1 DEF LoadSession, GoesOn, Redeemed
  <2>. QED BY <1>7, <2>1, <2>2 DEF LoadSession
<1>8. CASE AddClient(p)
  <2>1. UNCHANGED <<backend, ended, failures, missed, crowded>>
    BY <1>8 DEF AddClient, AddTo
  <2>. QED BY <1>1, <1>8, <2>1 DEF AddClient, GoesOn, Redeemed
<1>. QED BY <1>2, <1>3, <1>4, <1>5, <1>6, <1>7, <1>8 DEF PollStep

\* An answer declines, stores the consent, approves, or does none of these.
Declines(a) ==
  /\ answer'[a].pc = "denied" /\ UNCHANGED grants
  /\ answer[a].request \in Requests /\ answer[a].seen \in Artifact
  /\ Upsert(answer[a].request, [answer[a].seen EXCEPT !.status = "denied"])
Stores(a) ==
  /\ answer'[a].pc = "approve" /\ answer'[a].grant = answer[a].grant /\ UNCHANGED store
  /\ \E c \in Clients : grants' = grants \cup {[id |-> answer[a].grant, client |-> c]}
Approves(a) ==
  /\ answer[a].pc = "approve" /\ answer'[a].pc = "approved" /\ UNCHANGED grants
  /\ answer'[a].request = answer[a].request /\ answer'[a].grant = answer[a].grant
  /\ answer'[a].session = answer[a].session
  /\ answer[a].request \in Requests /\ answer[a].seen \in Artifact
  /\ Upsert(answer[a].request, [answer[a].seen EXCEPT !.status = "approved",
              !.grant = answer[a].grant, !.session = answer[a].session])
Prepares(a) == answer'[a].pc \notin {"approve", "approved"} /\ UNCHANGED <<store, grants>>

LEMMA AnswerFacts ==
  ASSUME Types, NEW a \in Answers, AnswerStep(a)
  PROVE  /\ \A b \in Answers \ {a} : answer'[b] = answer[b]
         /\ UNCHANGED <<backend, ended, keys, added, consumed, revoked, poll>>
         /\ answer[a].pc # "approved"
         /\ Declines(a) \/ Stores(a) \/ Approves(a) \/ Prepares(a)
<1>0. answer[a] \in AnswerState /\ answer \in [Answers -> AnswerState] /\ Holds(answer[a])
  BY DEF Types
<1> USE DEF people, world, guesses
<1>1. \A pc : AnswerAt(a, pc) =>
        /\ \A b \in Answers \ {a} : answer'[b] = answer[b]
        /\ answer'[a].request = answer[a].request /\ answer'[a].grant = answer[a].grant
        /\ answer'[a].session = answer[a].session /\ answer'[a].pc = pc
  BY <1>0 DEF AnswerAt, AnswerState
<1>2. ASSUME NEW q, TypeCode(a, q)
      PROVE  /\ \A b \in Answers \ {a} : answer'[b] = answer[b]
             /\ answer'[a].pc \in {"lookup", "refused"}
  BY <1>0, <1>2 DEF TypeCode, AnswerState
<1>3. ASSUME NEW pc \in {"deny", "check", "signin"}, NEW s, Lookup(a, pc, s)
      PROVE  /\ \A b \in Answers \ {a} : answer'[b] = answer[b]
             /\ answer'[a].pc \in {"miss", "refused", "deny", "check", "signin"}
  BY <1>0, <1>3 DEF Lookup, AnswerState
<1>4. ASSUME NEW pc \in {"deny", "check"}, NEW s, NEW q, Resolve(a, q, pc, s)
      PROVE  /\ \A b \in Answers \ {a} : answer'[b] = answer[b]
             /\ answer'[a].pc \in {"refused", "deny", "check"}
  BY <1>0, <1>4 DEF Resolve, AnswerState
<1>5. CASE \/ \E q \in Requests \cup {None} : TypeCode(a, q)
           \/ \E s \in Sessions, pc \in {"deny", "check"} :
                Lookup(a, pc, s) \/ \E q \in Requests : Resolve(a, q, pc, s)
           \/ Lookup(a, "signin", None)
  <2>1. ASSUME NEW q, TypeCode(a, q) PROVE Prepares(a) /\ answer[a].pc = "idle"
          /\ UNCHANGED <<backend, ended, keys, added, consumed, revoked, poll>>
    BY <1>2, <2>1 DEF TypeCode, Idle, Prepares
  <2>2. ASSUME NEW pc \in {"deny", "check", "signin"}, NEW s, Lookup(a, pc, s)
        PROVE  Prepares(a) /\ answer[a].pc = "lookup"
               /\ UNCHANGED <<backend, ended, keys, added, consumed, revoked, poll>>
    BY <1>3, <2>2 DEF Lookup, Prepares
  <2>3. ASSUME NEW pc \in {"deny", "check"}, NEW s, NEW q, Resolve(a, q, pc, s)
        PROVE  Prepares(a) /\ answer[a].pc = "idle"
               /\ UNCHANGED <<backend, ended, keys, added, consumed, revoked, poll>>
    BY <1>4, <2>3 DEF Resolve, Idle, Prepares
  <2>. QED BY <1>2, <1>3, <1>4, <1>5, <2>1, <2>2, <2>3
<1>6. CASE RecordFailure(a) \/ SignInFirst(a) \/ CheckApproval(a) \/ FailAnswer(a) \/ JoinSession(a)
  BY <1>1, <1>6 DEF RecordFailure, SignInFirst, CheckApproval, FailAnswer, JoinSession, Prepares
<1>7. CASE Deny(a)
  BY <1>0, <1>1, <1>7 DEF Deny, Declines, Holds
<1>8. CASE Approve(a)
  BY <1>0, <1>1, <1>8 DEF Approve, Approves, Holds
<1>9. CASE ReadSession(a)
  <2>1. /\ \A b \in Answers \ {a} : answer'[b] = answer[b]
        /\ answer'[a].pc \in {"join", "consent"}
    BY <1>0, <1>1, <1>9 DEF ReadSession, AnswerState
  <2>. QED BY <1>9, <2>1 DEF ReadSession, Prepares
<1>10. CASE FindConsent(a)
  <2>1. /\ \A b \in Answers \ {a} : answer'[b] = answer[b]
        /\ answer'[a].pc = "grant"
    BY <1>0, <1>10 DEF FindConsent, AnswerState
  <2>. QED BY <1>10, <2>1 DEF FindConsent, Prepares
<1>11. CASE UpsertConsent(a)
  <2>1. ClientOf[answer[a].request] \in Clients
    BY <1>0, <1>11, ApprovalsAssumption DEF UpsertConsent, Holds
  <2> DEFINE grant == [id |-> answer[a].grant, client |-> ClientOf[answer[a].request]]
  <2>2. /\ answer[a].pc = "grant"
        /\ \/ AnswerAt(a, "failed") /\ UNCHANGED grants
           \/ AnswerAt(a, "approve") /\ grants' = grants \cup {grant}
        /\ UNCHANGED <<people, store, started, consumed, revoked, now, poll>>
    BY <1>11 DEF UpsertConsent
  <2>3. CASE AnswerAt(a, "failed") /\ UNCHANGED grants
    BY <1>1, <2>2, <2>3 DEF Prepares
  <2>4. CASE AnswerAt(a, "approve") /\ grants' = grants \cup {grant}
    BY <1>1, <2>1, <2>2, <2>4 DEF Stores
  <2>. QED BY <2>2, <2>3, <2>4
<1>. QED BY <1>5, <1>6, <1>7, <1>8, <1>9, <1>10, <1>11 DEF AnswerStep

-----------------------------------------------------------------------------
(* Approvals. *)

LEMMA AnsweredInit == Init => Answered /\ Consented
BY DEF Init, Answered, Consented, Redeeming

\* An answer that has been given stays given.
LEMMA GivenStays ==
  ASSUME Types, NEW a \in Answers, AnswerStep(a), NEW q \in Requests, NEW artifact, Given(q, artifact)
  PROVE  Given(q, artifact)'
BY AnswerFacts DEF Given

LEMMA AnsweredPoll ==
  ASSUME Types, Answered, NEW p \in Polls, PollStep(p) PROVE Answered'
<1>1. /\ \A r \in Polls \ {p} : poll'[r] = poll[r]
      /\ answer' = answer
      /\ Finds(p) \/ (Same(p) /\ (WritesBack(p) \/ GivesUp(p) \/ Inserts(p) \/ Wins(p) \/ GoesOn(p)))
  BY PollFacts
<1>2. CASE Finds(p)
  BY <1>1, <1>2 DEF Finds, Answered, Given, Redeeming
<1>3. CASE Same(p) /\ WritesBack(p)
  <2>1. /\ poll[p].request \in Requests /\ poll[p].seen \in Artifact
        /\ poll[p].seen.status = "approved" => Given(poll[p].request, poll[p].seen)
    BY <1>3, Typed DEF WritesBack, Knows, Answered
  <2>2. store' = [store EXCEPT ![poll[p].request] = Touched(p)]
    BY <1>3 DEF WritesBack, Upsert
  <2>3. /\ Touched(p).status = poll[p].seen.status /\ Touched(p).grant = poll[p].seen.grant
        /\ Touched(p).session = poll[p].seen.session
    BY <2>1 DEF Touched, Artifact
  <2>4. \A q \in Requests : store'[q] # None /\ store'[q].status = "approved" => Given(q, store'[q])
    BY <2>1, <2>2, <2>3 DEF Types, Answered, Given
  <2>5. \A r \in Polls : poll'[r].pc \in Redeeming \cup {"touch"} /\ poll'[r].seen.status = "approved" =>
          Given(poll'[r].request, poll'[r].seen)
    BY <1>1, <1>3, <2>1 DEF Same, Answered
  <2>. QED BY <1>1, <2>4, <2>5 DEF Answered, Given
<1>4. CASE Same(p) /\ (GivesUp(p) \/ Inserts(p) \/ Wins(p))
  BY <1>1, <1>4 DEF Same, GivesUp, Inserts, Wins, Answered, Given, Redeeming
<1>5. CASE Same(p) /\ GoesOn(p)
  <2>1. \A r \in Polls : poll'[r].pc \in Redeeming \cup {"touch"} /\ poll'[r].seen.status = "approved" =>
          Given(poll'[r].request, poll'[r].seen)
    BY <1>1, <1>5 DEF Same, GoesOn, Redeemed, Redeeming, Answered
  <2>2. \A q \in Requests : store'[q] # None /\ store'[q].status = "approved" => Given(q, store'[q])
    BY <1>5 DEF GoesOn, Answered
  <2>. QED BY <1>1, <2>1, <2>2 DEF Answered, Given
<1>. QED BY <1>1, <1>2, <1>3, <1>4, <1>5

LEMMA AnsweredAnswer ==
  ASSUME Types, Answered, NEW a \in Answers, AnswerStep(a) PROVE Answered'
<1>1. /\ \A b \in Answers \ {a} : answer'[b] = answer[b] /\ poll' = poll
      /\ Declines(a) \/ Stores(a) \/ Approves(a) \/ Prepares(a)
  BY AnswerFacts
<1>2. \A p \in Polls : poll[p].pc \in Redeeming \cup {"touch"} => poll[p].request \in Requests
  BY Typed DEF Knows, Redeeming
<1>3. \A p \in Polls : poll'[p].pc \in Redeeming \cup {"touch"} /\ poll'[p].seen.status = "approved" =>
        Given(poll[p].request, poll[p].seen)'
  BY <1>2, AnswerFacts, GivenStays DEF Answered
<1>4. ASSUME NEW q \in Requests, store'[q] # None, store'[q].status = "approved" PROVE Given(q, store[q])'
  <2>1. CASE store'[q] = store[q]
    BY <1>4, <2>1, GivenStays DEF Answered, Given
  <2>2. CASE store'[q] # store[q] /\ Declines(a)
    <3>1. store'[q] = [answer[a].seen EXCEPT !.status = "denied"] /\ answer[a].seen \in Artifact
      BY <2>2 DEF Declines, Upsert, Types
    <3>. QED BY <1>4, <3>1 DEF Artifact
  <2>3. CASE store'[q] # store[q] /\ Approves(a)
    <3>1. /\ answer[a].seen \in Artifact /\ q = answer[a].request
          /\ store'[q] = [answer[a].seen EXCEPT !.status = "approved",
               !.grant = answer[a].grant, !.session = answer[a].session]
      BY <2>3 DEF Approves, Upsert, Types
    <3>2. store'[q].grant = answer[a].grant /\ store'[q].session = answer[a].session
      BY <3>1 DEF Artifact
    <3>. QED BY <2>3, <3>1, <3>2 DEF Given, Approves
  <2>. QED BY <1>1, <2>1, <2>2, <2>3 DEF Stores, Prepares
<1>. QED BY <1>3, <1>4 DEF Answered

LEMMA AnsweredNext == Types /\ Answered /\ [Next]_vars => Answered'
<1> SUFFICES ASSUME Types, Answered, [Next]_vars PROVE Answered'
  OBVIOUS
<1>1. CASE UNCHANGED <<store, poll, answer>>
  BY <1>1 DEF Answered, Given
<1>2. ASSUME NEW q \in Requests, Requested(q) PROVE Answered'
  BY <1>2 DEF Requested, Upsert, Types, Answered, Given
<1>3. ASSUME NEW g \in grants, RevokeArtifacts(g) PROVE Answered'
  <2>1. \A q \in Requests : store'[q] \in {store[q], None}
    BY <1>3 DEF RevokeArtifacts
  <2>. QED BY <1>3, <2>1 DEF RevokeArtifacts, Answered, Given
<1>. QED BY <1>1, <1>2, <1>3, AnsweredPoll, AnsweredAnswer
         DEF Next, DeviceAuthorization, BackchannelAuthentication, SignIn, Consent, EndSession,
             DestroyConsent, Tick, vars

\* A consent that was stored stays stored or is revoked first.
LEMMA KnownStays == Types /\ [Next]_vars => Known \subseteq Known'
<1> SUFFICES ASSUME Types, [Next]_vars PROVE Known \subseteq Known'
  OBVIOUS
<1>1. CASE UNCHANGED <<grants, revoked>>
  BY <1>1 DEF Known
<1>2. ASSUME NEW a \in Answers, AnswerStep(a) PROVE Known \subseteq Known'
  BY <1>2, AnswerFacts DEF Known, Declines, Stores, Approves, Prepares
<1>3. ASSUME NEW c \in Clients, Consent(c) PROVE Known \subseteq Known'
  BY <1>3 DEF Consent, Known
<1>4. ASSUME NEW g \in grants, RevokeArtifacts(g) \/ DestroyConsent(g) PROVE Known \subseteq Known'
  BY <1>4 DEF RevokeArtifacts, DestroyConsent, Known
<1>5. ASSUME NEW p \in Polls, PollStep(p) PROVE Known \subseteq Known'
  BY <1>1, <1>5, PollFacts
<1>. QED BY <1>1, <1>2, <1>3, <1>4, <1>5
         DEF Next, DeviceAuthorization, BackchannelAuthentication, Requested, SignIn, EndSession, Tick, vars

LEMMA ConsentedNext == Types /\ Consented /\ [Next]_vars => Consented'
<1> SUFFICES ASSUME Types, Consented, [Next]_vars PROVE Consented'
  OBVIOUS
<1>1. Known \subseteq Known'
  BY KnownStays
<1>2. CASE UNCHANGED answer
  BY <1>1, <1>2 DEF Consented
<1>3. ASSUME NEW a \in Answers, AnswerStep(a) PROVE Consented'
  <2>1. answer'[a].pc \in {"approve", "approved"} => answer'[a].grant \in Known'
    <3>1. CASE Stores(a)
      BY <3>1 DEF Stores, Known
    <3>2. CASE Approves(a)
      BY <1>1, <3>2 DEF Approves, Consented
    <3>. QED BY <1>3, <3>1, <3>2, AnswerFacts DEF Declines, Prepares
  <2>. QED BY <1>1, <1>3, <2>1, AnswerFacts DEF Consented
<1>4. ASSUME NEW p \in Polls, PollStep(p) PROVE Consented'
  BY <1>2, <1>4, PollFacts
<1>. QED BY <1>2, <1>3, <1>4
         DEF Next, DeviceAuthorization, BackchannelAuthentication, Requested, SignIn, Consent,
             EndSession, RevokeArtifacts, DestroyConsent, Tick, vars

-----------------------------------------------------------------------------
(* Redemptions on a kv store, and the sessions' clients there. *)

LEMMA MarkedInit == Init => Marked
BY DEF Init, Marked, Redeemed

LEMMA MarkedNext == Types /\ Marked /\ [Next]_vars => Marked'
<1> SUFFICES ASSUME Types, Marked, [Next]_vars PROVE Marked'
  OBVIOUS
<1> USE DEF people, world, guesses
<1>1. CASE UNCHANGED <<backend, consumed, poll>>
  BY <1>1 DEF Marked
<1>2. ASSUME NEW p \in Polls, PollStep(p) PROVE Marked'
  <2>1. /\ \A r \in Polls \ {p} : poll'[r] = poll[r]
        /\ backend' = backend
        /\ Finds(p) \/ (Same(p) /\ (WritesBack(p) \/ GivesUp(p) \/ Inserts(p) \/ Wins(p) \/ GoesOn(p)))
    BY <1>2, PollFacts
  <2>2. CASE Finds(p) \/ WritesBack(p) \/ GivesUp(p) \/ Inserts(p)
    <3>1. consumed' = consumed /\ poll'[p].pc \notin Redeemed
      <4>1. CASE WritesBack(p)
        <5>1. poll[p].seen.status \in {"pending", "approved", "denied"}
          BY <4>1, Typed DEF WritesBack, Knows, Artifact
        <5>. QED BY <4>1, <5>1 DEF WritesBack, Verdict, Redeemed
      <4>. QED BY <2>2, <4>1 DEF Finds, GivesUp, Inserts, Redeemed
    <3>. QED BY <2>1, <3>1 DEF Marked
  <2>3. CASE Same(p) /\ Wins(p)
    BY <2>1, <2>3 DEF Same, Wins, Marked
  <2>4. CASE Same(p) /\ GoesOn(p)
    BY <2>1, <2>4 DEF Same, GoesOn, Marked
  <2>. QED BY <2>1, <2>2, <2>3, <2>4
<1>3. ASSUME NEW a \in Answers, AnswerStep(a) PROVE Marked'
  BY <1>1, <1>3, AnswerFacts
<1>4. ASSUME NEW g \in grants, RevokeArtifacts(g) PROVE Marked'
  BY <1>4 DEF RevokeArtifacts, Marked
<1>5. ASSUME NEW s \in Sessions, NEW c \in Clients, SignIn(s, c) PROVE Marked'
  BY <1>1, <1>5 DEF SignIn, AddTo
<1>. QED BY <1>1, <1>2, <1>3, <1>4, <1>5
         DEF Next, DeviceAuthorization, BackchannelAuthentication, Requested, Consent, EndSession,
             DestroyConsent, Tick, vars

LEMMA KeyedInit == Init => Keyed
BY DEF Init, Keyed

LEMMA KeyedAdd ==
  ASSUME Types, Keyed, NEW s \in Sessions, NEW c \in Clients, AddTo(s, c) PROVE Keyed'
<1>1. keys \in [Sessions -> SUBSET Clients] /\ added \in [Sessions -> SUBSET Clients]
  BY DEF Types
<1>2. CASE UNCHANGED people
  BY <1>2 DEF people, world, Keyed
<1>3. CASE ~UNCHANGED people
  BY <1>1, <1>3 DEF AddTo, world, Keyed
<1>. QED BY <1>2, <1>3

LEMMA KeyedNext == Types /\ Keyed /\ [Next]_vars => Keyed'
<1> SUFFICES ASSUME Types, Keyed, [Next]_vars PROVE Keyed'
  OBVIOUS
<1> USE DEF people, world, guesses
<1>1. CASE UNCHANGED <<backend, ended, keys, added>>
  BY <1>1 DEF Keyed
<1>2. ASSUME NEW p \in Polls, PollStep(p) PROVE Keyed'
  <2>1. CASE AddClient(p)
    <3>1. poll[p].seen.session \in Sessions /\ ClientOf[poll[p].request] \in Clients
      BY <2>1, Typed, ApprovalsAssumption DEF AddClient, Knows, Redeeming, Whole
    <3>. QED BY <1>1, <2>1, <3>1, KeyedAdd DEF AddClient
  <2>. QED BY <1>1, <1>2, <2>1
           DEF PollStep, FindRequest, Touch, ConsumeRow, ConsumeRead, ConsumeInsert, DestroyRequest,
               LoadGrant, LoadSession, FailPoll
<1>3. ASSUME NEW a \in Answers, AnswerStep(a) PROVE Keyed'
  BY <1>1, <1>3, AnswerFacts
<1>4. ASSUME NEW s \in Sessions, NEW c \in Clients, SignIn(s, c) PROVE Keyed'
  BY <1>4, KeyedAdd DEF SignIn
<1>5. ASSUME NEW s \in Sessions, EndSession(s) PROVE Keyed'
  BY <1>5 DEF EndSession, Keyed, Types
<1>. QED BY <1>1, <1>2, <1>3, <1>4, <1>5
         DEF Next, DeviceAuthorization, BackchannelAuthentication, Requested, Consent,
             RevokeArtifacts, DestroyConsent, Tick, vars

-----------------------------------------------------------------------------
(* Wrong user codes. *)

LEMMA CountsInit == Init => Counts
BY ApprovalsAssumption DEF Init, Counts, Looking

\* Only typing a code begins a lookup, and only recording a failure changes the record.
LEMMA LookingStays ==
  ASSUME Types, NEW a \in Answers, AnswerStep(a),
         \A q \in Requests \cup {None} : ~TypeCode(a, q), ~RecordFailure(a)
  PROVE  /\ UNCHANGED <<failures, missed, crowded>>
         /\ Looking(a)' => Looking(a)
         /\ answer'[a].record = answer[a].record
<1>0. answer[a] \in AnswerState /\ answer \in [Answers -> AnswerState]
  BY DEF Types
<1> USE DEF people, guesses
<1>1. \A pc : AnswerAt(a, pc) => answer'[a].pc = pc /\ answer'[a].record = answer[a].record
  BY <1>0 DEF AnswerAt, AnswerState
<1>2. ASSUME NEW pc, NEW s, Lookup(a, pc, s)
      PROVE  /\ UNCHANGED <<failures, missed, crowded>> /\ Looking(a)
             /\ answer'[a].record = answer[a].record
  BY <1>0, <1>2 DEF Lookup, AnswerState, Looking
<1>3. ASSUME NEW pc \in {"deny", "check"}, NEW s, NEW q, Resolve(a, q, pc, s)
      PROVE  /\ UNCHANGED <<failures, missed, crowded>> /\ ~Looking(a)'
             /\ answer'[a].record = answer[a].record
  BY <1>0, <1>3 DEF Resolve, AnswerState, Looking
<1>4. CASE SignInFirst(a) \/ Deny(a) \/ CheckApproval(a) \/ JoinSession(a) \/ UpsertConsent(a)
           \/ Approve(a) \/ FailAnswer(a)
  <2>1. \E pc \in {"refused", "denied", "session", "consent", "failed", "approve", "approved"} : AnswerAt(a, pc)
    BY <1>4 DEF SignInFirst, Deny, CheckApproval, JoinSession, UpsertConsent, Approve, FailAnswer
  <2>2. UNCHANGED <<failures, missed, crowded>>
    BY <1>4 DEF SignInFirst, Deny, CheckApproval, JoinSession, UpsertConsent, Approve, FailAnswer
  <2>. QED BY <1>1, <2>1, <2>2 DEF Looking
<1>5. CASE ReadSession(a)
  <2>1. answer'[a].pc \in {"join", "consent"} /\ answer'[a].record = answer[a].record
    BY <1>0, <1>1, <1>5 DEF ReadSession, AnswerState
  <2>. QED BY <1>5, <2>1 DEF ReadSession, Looking
<1>6. CASE FindConsent(a)
  <2>1. answer'[a].pc = "grant" /\ answer'[a].record = answer[a].record
    BY <1>0, <1>6 DEF FindConsent, AnswerState
  <2>. QED BY <1>6, <2>1 DEF FindConsent, Looking
<1>. QED BY <1>2, <1>3, <1>4, <1>5, <1>6 DEF AnswerStep

LEMMA CountsAnswer ==
  ASSUME Types, Counts, NEW a \in Answers, AnswerStep(a) PROVE Counts'
<1>0. answer[a] \in AnswerState /\ answer \in [Answers -> AnswerState]
  BY DEF Types
<1>1. \A b \in Answers \ {a} : answer'[b] = answer[b]
  BY AnswerFacts
<1>2. missed \in Nat /\ MaxFailures \in Nat \ {0} /\ (failures # None => failures.count \in Nat)
  BY ApprovalsAssumption DEF Types, Record
<1>3. ASSUME NEW q \in Requests \cup {None}, TypeCode(a, q), ~crowded' PROVE Counts'
  <2>1. /\ ~crowded /\ \A b \in Answers : ~Looking(b)
        /\ failures' = failures /\ missed' = missed
    BY <1>3 DEF TypeCode
  <2>2. /\ answer'[a].pc = IF Allowed THEN "lookup" ELSE "refused"
        /\ answer'[a].record = IF Counted(failures) = 0 THEN None ELSE failures
    BY <1>0, <1>3 DEF TypeCode, AnswerState
  <2>3. \A b \in Answers : Looking(b)' => b = a
    BY <1>1, <2>1 DEF Looking
  <2>4. Looking(a)' /\ answer'[a].record # None => answer'[a].record = failures /\ missed < MaxFailures
    BY <1>2, <2>1, <2>2 DEF Looking, Allowed, Counted, Counts
  <2>5. \A b \in Answers : Looking(b)' /\ answer'[b].record # None =>
          answer'[b].record = failures' /\ missed' < MaxFailures
    BY <2>1, <2>3, <2>4
  <2>. QED BY <2>1, <2>3, <2>5 DEF Counts
<1>4. ASSUME RecordFailure(a), ~crowded' PROVE Counts'
  <2>1. ~crowded /\ Looking(a) /\ answer'[a].pc = "refused"
    BY <1>0, <1>4 DEF RecordFailure, AnswerAt, Looking, AnswerState
  <2>2. \A b \in Answers : ~Looking(b)'
    BY <1>1, <2>1 DEF Counts, Looking
  <2>3. answer[a].record # None => answer[a].record = failures /\ missed < MaxFailures
    BY <2>1 DEF Counts
  <2>4. failures' # None => failures'.count = missed'
    <3>1. CASE answer[a].record = None
      BY <1>4, <3>1 DEF RecordFailure
    <3>2. CASE answer[a].record # None
      <4>1. failures \in Record /\ failures.count = missed
        BY <2>1, <2>3, <3>2 DEF Types, Counts
      <4>2. failures' = [failures EXCEPT !.count = failures.count + 1] /\ missed' = missed + 1
        BY <1>4, <2>3, <3>2, <4>1 DEF RecordFailure
      <4>. QED BY <4>1, <4>2 DEF Record
    <3>. QED BY <3>1, <3>2
  <2>5. missed' <= MaxFailures
    BY <1>2, <1>4, <2>3 DEF RecordFailure
  <2>. QED BY <2>2, <2>4, <2>5 DEF Counts
<1>5. ASSUME \A q \in Requests \cup {None} : ~TypeCode(a, q), ~RecordFailure(a) PROVE Counts'
  <2>1. /\ UNCHANGED <<failures, missed, crowded>>
        /\ Looking(a)' => Looking(a)
        /\ answer'[a].record = answer[a].record
    BY <1>5, LookingStays
  <2>2. \A b \in Answers : (Looking(b)' => Looking(b)) /\ (Looking(b)' => answer'[b].record = answer[b].record)
    BY <1>1, <2>1 DEF Looking
  <2>. QED BY <2>1, <2>2 DEF Counts
<1>6. CASE crowded'
  BY <1>6 DEF Counts
<1>. QED BY <1>3, <1>4, <1>5, <1>6

LEMMA CountsNext == Types /\ Counts /\ [Next]_vars => Counts'
<1> SUFFICES ASSUME Types, Counts, [Next]_vars PROVE Counts'
  OBVIOUS
<1> USE DEF people, guesses
<1>1. CASE UNCHANGED <<failures, missed, crowded, answer>>
  BY <1>1 DEF Counts, Looking
<1>2. ASSUME NEW p \in Polls, PollStep(p) PROVE Counts'
  BY <1>1, <1>2, PollFacts
<1>3. ASSUME NEW s \in Sessions, NEW c \in Clients, SignIn(s, c) PROVE Counts'
  BY <1>1, <1>3 DEF SignIn, AddTo
<1>. QED BY <1>1, <1>2, <1>3, CountsAnswer
         DEF Next, DeviceAuthorization, BackchannelAuthentication, Requested, Consent, EndSession,
             RevokeArtifacts, DestroyConsent, Tick, vars

-----------------------------------------------------------------------------
(* Theorems. *)

\* What every reachable state has.
THEOREM Invariance == Spec => []IInv
<1>1. Init => IInv
  BY TypesInit, AnsweredInit, MarkedInit, KeyedInit, CountsInit DEF IInv
<1>2. IInv /\ [Next]_vars => IInv'
  BY TypesNext, AnsweredNext, ConsentedNext, MarkedNext, KeyedNext, CountsNext DEF IInv
<1>. QED BY <1>1, <1>2, PTL DEF Spec

\* Tokens go to a poll only with an answer that approved that very request, and with its consent
\* and session, however polls, answers and revocations write over one another; and the consent
\* an approval names was stored before it (device.ts:173-224, ciba.ts:173-218).
THEOREM NeedsApproval == Spec => []OnlyApproved
<1>1. IInv => OnlyApproved
  <2>1. SUFFICES ASSUME IInv PROVE OnlyApproved
    OBVIOUS
  <2>2. ASSUME NEW p \in Winners PROVE Given(poll[p].request, poll[p].seen)
    <3>1. p \in Polls /\ poll[p].pc \in Redeeming /\ poll[p].seen.status = "approved"
      BY <2>1, <2>2 DEF Winners, IInv, Types, Knows, Redeeming
    <3>. QED BY <2>1, <3>1 DEF IInv, Answered
  <2>3. ASSUME NEW q \in Requests, store[q] # None, store[q].status = "approved"
        PROVE  store[q].grant \in Known
    BY <2>1, <2>3 DEF IInv, Answered, Given, Consented
  <2>. QED BY <2>2, <2>3 DEF OnlyApproved, WonByApproval, ConsentComesFirst, Given, Known
<1>. QED BY <1>1, Invariance, PTL

\* On a kv store an approval is redeemed once, however often it is polled: the consumed key is
\* inserted, and outlives the artifact (device.ts:114, kv.ts:109-115).  On a table it is not.
THEOREM KvRedeems == Spec => []KvRedeemsOnce
<1>1. IInv => KvRedeemsOnce
  BY DEF IInv, Marked, KvRedeemsOnce, RedeemedOnce, Winners, Redeemed
<1>. QED BY <1>1, Invariance, PTL

\* On a kv store two clients that sign in through a session at once are both kept, whatever an
\* approval writes back over the session's record (kv.ts:148-176).
THEOREM KvKeeps == Spec => []KvKeepsSignIns
<1>1. IInv => KvKeepsSignIns
  BY DEF IInv, Keyed, KvKeepsSignIns, List
<1>. QED BY <1>1, Invariance, PTL

\* The wrong codes of a peer stay within the limit as long as its lookups do not overlap
\* (device.ts:137-157).
THEOREM LimitsGuesses == Spec => []CodesAreCounted
<1>1. IInv => CodesAreCounted
  BY DEF IInv, Counts, CodesAreCounted
<1>. QED BY <1>1, Invariance, PTL
================================================================================
