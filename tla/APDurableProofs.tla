--------------------------- MODULE APDurableProofs ---------------------------
(***************************************************************************)
(* Theorems about APDurable, for every set of invoices, keys, threads and  *)
(* configurations, and any number of troubles.                             *)
(***************************************************************************)
EXTENDS APDurable, TLAPS

---------------------------------------------------------------------------
(* What a step makes of its thread.                                        *)

\* The fields an idle thread, and one entering a handler, start with.
LEMMA RequestTypes ==
    /\ IdleRequest \in Request
    /\ IdleRequest.pc = "idle" /\ IdleRequest.row = "EXTRACTED"
    /\ IdleRequest.matched = FALSE
    /\ \A i \in Invoices, k \in Keys :
         /\ PostRequest(i, k) \in Request
         /\ PostRequest(i, k).pc = "get_journal"
         /\ PostRequest(i, k).inv = i
         /\ PostRequest(i, k).key = k
         /\ PostRequest(i, k).row = "EXTRACTED"
         /\ PostRequest(i, k).matched = FALSE
<1>1. (CHOOSE i \in Invoices : TRUE) \in Invoices
  BY DurableConstants
<1>2. AutoKey[CHOOSE i \in Invoices : TRUE] \in Keys
  BY <1>1, DurableConstants
<1>3. IdleRequest \in Request
  BY <1>1, <1>2
  DEF IdleRequest, Request, AgentActions, Steps, Makers, Status
<1>4. ASSUME NEW i \in Invoices, NEW k \in Keys
      PROVE  /\ PostRequest(i, k) \in Request
             /\ PostRequest(i, k).pc = "get_journal"
             /\ PostRequest(i, k).inv = i
             /\ PostRequest(i, k).key = k
             /\ PostRequest(i, k).row = "EXTRACTED"
             /\ PostRequest(i, k).matched = FALSE
  BY <1>3 DEF IdleRequest, PostRequest, Request, Steps, PostSteps
<1>5. QED
  BY <1>3, <1>4 DEF IdleRequest

\* Replacing a thread's record leaves the other threads alone.
LEMMA ReqFrame ==
    ASSUME req \in [Callers -> Request], NEW r \in Callers, NEW p,
           req' = [req EXCEPT ![r] = p]
    PROVE  /\ req'[r] = p
           /\ \A s \in Callers \ {r} : req'[s] = req[s]
           /\ p \in Request => req' \in [Callers -> Request]
OBVIOUS

\* Going to another program point changes nothing else.
LEMMA GotoMoves ==
    ASSUME req \in [Callers -> Request], NEW r \in Callers, NEW pc \in Steps,
           Goto(r, pc)
    PROVE  /\ req'[r] \in Request
           /\ req' = [req EXCEPT ![r] = req'[r]]
           /\ req'[r].pc = pc
           /\ req'[r].next = req[r].next
           /\ req'[r].inv = req[r].inv
           /\ req'[r].object = req[r].object
           /\ req'[r].row = req[r].row
           /\ req'[r].matched = req[r].matched
           /\ req'[r].key = req[r].key
           /\ req'[r].journal = req[r].journal
BY DEF Goto, Request

\* So does ending a request, which leaves an idle thread.
LEMMA FinishMoves ==
    ASSUME req \in [Callers -> Request], NEW r \in Callers, Finish(r)
    PROVE  req'[r] = IdleRequest /\ req' = [req EXCEPT ![r] = req'[r]]
BY DEF Finish

\* Going on after a load or a save.
LEMMA ResumeMoves ==
    ASSUME req \in [Callers -> Request], NEW r \in Callers, Resume(r)
    PROVE  /\ req'[r] \in Request
           /\ req' = [req EXCEPT ![r] = req'[r]]
           /\ req'[r].pc = req[r].next
           /\ req'[r].next = "idle"
           /\ req'[r].inv = req[r].inv
           /\ req'[r].object = req[r].object
           /\ req'[r].row = "EXTRACTED"
           /\ req'[r].matched = req[r].matched
           /\ req'[r].key = req[r].key
           /\ req'[r].journal = req[r].journal
<1> DEFINE q == req[r]
           p == [q EXCEPT !.pc = q.next, !.next = "idle", !.row = "EXTRACTED"]
<1>1. q \in Request
  OBVIOUS
<1>2. req' = [req EXCEPT ![r] = p]
  BY DEF Resume
<1>3. "idle" \in Steps /\ "EXTRACTED" \in Status
  BY DEF Steps, Status
<1>4. p \in Request
  BY <1>1, <1>3 DEF Request
<1>5. /\ p.pc = q.next /\ p.next = "idle" /\ p.inv = q.inv /\ p.object = q.object
      /\ p.row = "EXTRACTED" /\ p.matched = q.matched /\ p.key = q.key
      /\ p.journal = q.journal
  BY <1>1 DEF Request
<1>6. req'[r] = p
  BY <1>2
<1>7. QED
  BY <1>2, <1>4, <1>5, <1>6

\* Writing a status into an object and going to save it.
LEMMA WriteMoves ==
    ASSUME req \in [Callers -> Request], NEW r \in Callers, NEW m \in Makers,
           NEW st, NEW next \in Steps, WriteStatus(r, m, st, next)
    PROVE  /\ req'[r] \in Request
           /\ req' = [req EXCEPT ![r] = req'[r]]
           /\ req'[r].pc = "serialise"
           /\ req'[r].next = next
           /\ req'[r].inv = req[r].inv
           /\ req'[r].object = m
           /\ req'[r].row = req[r].row
           /\ req'[r].matched = req[r].matched
           /\ req'[r].key = req[r].key
           /\ req'[r].journal = req[r].journal
<1> DEFINE q == req[r]
           p == [q EXCEPT !.pc = "serialise", !.next = next, !.object = m,
                          !.approved = FALSE, !.requested = "ESCALATE"]
<1>1. q \in Request
  OBVIOUS
<1>2. req' = [req EXCEPT ![r] = p]
  BY DEF WriteStatus
<1>3. "serialise" \in Steps /\ "ESCALATE" \in AgentActions
  BY DEF Steps, SaveSteps, AgentActions
<1>4. p \in Request
  BY <1>1, <1>3 DEF Request
<1>5. /\ p.pc = "serialise" /\ p.next = next /\ p.inv = q.inv /\ p.object = m
      /\ p.row = q.row /\ p.matched = q.matched /\ p.key = q.key
      /\ p.journal = q.journal
  BY <1>1 DEF Request
<1>6. req'[r] = p
  BY <1>2
<1>7. QED
  BY <1>2, <1>4, <1>5, <1>6
LEMMA SerialiseMoves ==
    ASSUME req \in [Callers -> Request], NEW r \in Callers, Serialise(r),
           HeldStatus(r) \in Status
    PROVE  /\ req'[r] \in Request
           /\ req' = [req EXCEPT ![r] = req'[r]]
           /\ req'[r].pc = "commit"
           /\ req'[r].next = req[r].next
           /\ req'[r].inv = req[r].inv
           /\ req'[r].object = req[r].object
           /\ req'[r].row = HeldStatus(r)
           /\ req'[r].matched = req[r].matched
           /\ req'[r].key = req[r].key
           /\ req'[r].journal = req[r].journal
<1> DEFINE q == req[r]
           p == [q EXCEPT !.pc = "commit", !.row = HeldStatus(r)]
<1>1. q \in Request
  OBVIOUS
<1>2. req' = [req EXCEPT ![r] = p]
  BY DEF Serialise
<1>3. "commit" \in Steps
  BY DEF Steps, SaveSteps
<1>4. p \in Request
  BY <1>1, <1>3 DEF Request
<1>5. /\ p.pc = "commit" /\ p.next = q.next /\ p.inv = q.inv /\ p.object = q.object
      /\ p.row = HeldStatus(r) /\ p.matched = q.matched /\ p.key = q.key
      /\ p.journal = q.journal
  BY <1>1 DEF Request
<1>6. req'[r] = p
  BY <1>2
<1>7. QED
  BY <1>2, <1>4, <1>5, <1>6

LEMMA RunMatchMoves ==
    ASSUME req \in [Callers -> Request], NEW r \in Callers, RunMatch(r),
           cache[Inv(r)] \in Makers
    PROVE  /\ req'[r] \in Request
           /\ req' = [req EXCEPT ![r] = req'[r]]
           /\ req'[r].pc = "save_match"
           /\ req'[r].next = req[r].next
           /\ req'[r].inv = req[r].inv
           /\ req'[r].object = cache[Inv(r)]
           /\ req'[r].row = req[r].row
           /\ req'[r].journal = req[r].journal
<1> DEFINE q == req[r]
           b == Matches(Inv(r), req[r].receipt)
           p == [q EXCEPT !.pc = "save_match", !.receipt = FALSE,
                          !.object = cache[Inv(r)], !.matched = b]
<1>1. q \in Request
  OBVIOUS
<1>2. req' = [req EXCEPT ![r] = p]
  BY DEF RunMatch
<1>3. "save_match" \in Steps
  BY DEF Steps, MatchSteps
<1>4. b \in BOOLEAN
  BY DEF Matches
<1> HIDE DEF b
<1>5. p \in Request
  BY <1>1, <1>3, <1>4 DEF Request
<1>6. /\ p.pc = "save_match" /\ p.next = q.next /\ p.inv = q.inv
      /\ p.object = cache[Inv(r)] /\ p.row = q.row /\ p.journal = q.journal
  BY <1>1 DEF Request
<1>7. req'[r] = p
  BY <1>2
<1>8. QED
  BY <1>2, <1>5, <1>6, <1>7

\* The agent's action leads to post() with the automatic key, or to the end.
LEMMA EvaluateMoves ==
    ASSUME req \in [Callers -> Request], NEW r \in Callers,
           NEW requested \in AgentActions, EvaluateMatch(r, requested),
           cache[Inv(r)] \in Makers
    PROVE  /\ req'[r] \in Request
           /\ req' = [req EXCEPT ![r] = req'[r]]
           /\ req'[r].inv = req[r].inv
           /\ \/ /\ req'[r].pc = "get_journal" /\ req'[r].object = cache[Inv(r)]
                 /\ req'[r].key = AutoKey[Inv(r)]
                 /\ req'[r].row = "EXTRACTED" /\ req'[r].matched = FALSE
              \/ /\ req'[r].pc = "finalize" /\ req'[r].object = req[r].object
                 /\ req'[r].row = req[r].row /\ req'[r].matched = req[r].matched
<1> DEFINE q == req[r]
           p1 == [PostRequest(Inv(r), AutoKey[Inv(r)]) EXCEPT !.object = cache[Inv(r)]]
           p2 == [q EXCEPT !.pc = "finalize", !.requested = requested]
<1>1. q \in Request /\ Inv(r) \in Invoices /\ Inv(r) = q.inv
  BY DEF Request, Inv
<1>2. req' = [req EXCEPT ![r] = p1] \/ req' = [req EXCEPT ![r] = p2]
  BY DEF EvaluateMatch
<1>3. PostRequest(Inv(r), AutoKey[Inv(r)]) \in Request
  BY <1>1, RequestTypes, DurableConstants
<1>4. /\ p1 \in Request /\ p1.pc = "get_journal" /\ p1.inv = Inv(r)
      /\ p1.object = cache[Inv(r)] /\ p1.key = AutoKey[Inv(r)]
      /\ p1.row = "EXTRACTED" /\ p1.matched = FALSE
  BY <1>1, <1>3, RequestTypes, DurableConstants DEF Request
<1>5. "finalize" \in Steps
  BY DEF Steps, MatchSteps
<1>6. /\ p2 \in Request /\ p2.pc = "finalize" /\ p2.inv = q.inv
      /\ p2.object = q.object /\ p2.row = q.row /\ p2.matched = q.matched
  BY <1>1, <1>5 DEF Request
<1>7. CASE req' = [req EXCEPT ![r] = p1]
  <2>1. req'[r] = p1
    BY <1>7
  <2>2. QED
    BY <1>1, <1>4, <1>7, <2>1
<1>8. CASE req' = [req EXCEPT ![r] = p2]
  <2>1. req'[r] = p2
    BY <1>8
  <2>2. QED
    BY <1>1, <1>6, <1>8, <2>1
<1>9. QED
  BY <1>2, <1>7, <1>8

LEMMA DecideGuardMoves ==
    ASSUME req \in [Callers -> Request], NEW r \in Callers, DecideGuard(r),
           cache[Inv(r)] \in Makers
    PROVE  /\ req'[r] \in Request
           /\ req' = [req EXCEPT ![r] = req'[r]]
           /\ \/ req'[r] = IdleRequest
              \/ /\ object[Inv(r)][cache[Inv(r)]] \in Reviewable
                 /\ req'[r].pc = "decide" /\ req'[r].inv = req[r].inv
                 /\ req'[r].object = cache[Inv(r)] /\ req'[r].row = req[r].row
                 /\ req'[r].matched = req[r].matched
<1> DEFINE q == req[r]
           p == [q EXCEPT !.pc = "decide", !.object = cache[Inv(r)]]
<1>1. q \in Request
  OBVIOUS
<1>2. \/ req' = [req EXCEPT ![r] = IdleRequest]
      \/ /\ req' = [req EXCEPT ![r] = p]
         /\ object[Inv(r)][cache[Inv(r)]] \in Reviewable
  BY DEF DecideGuard
<1>3. "decide" \in Steps
  BY DEF Steps, DecideSteps
<1>4. /\ p \in Request /\ p.pc = "decide" /\ p.inv = q.inv
      /\ p.object = cache[Inv(r)] /\ p.row = q.row /\ p.matched = q.matched
  BY <1>1, <1>3 DEF Request
<1>5. CASE req' = [req EXCEPT ![r] = IdleRequest]
  <2>1. req'[r] = IdleRequest
    BY <1>5
  <2>2. QED
    BY <1>5, <2>1, RequestTypes
<1>6. CASE /\ req' = [req EXCEPT ![r] = p]
           /\ object[Inv(r)][cache[Inv(r)]] \in Reviewable
  <2>1. req'[r] = p
    BY <1>6
  <2>2. QED
    BY <1>4, <1>6, <2>1
<1>7. QED
  BY <1>2, <1>5, <1>6

LEMMA LatestMatchMoves ==
    ASSUME req \in [Callers -> Request], NEW r \in Callers, NEW matched \in BOOLEAN,
           LatestMatch(r, matched)
    PROVE  /\ req'[r] \in Request
           /\ req' = [req EXCEPT ![r] = req'[r]]
           /\ req'[r].pc = IF matches[Inv(r)] # {} THEN "post_guard" ELSE "cache_match"
           /\ req'[r].next = req[r].next
           /\ req'[r].inv = req[r].inv
           /\ req'[r].object = req[r].object
           /\ req'[r].row = req[r].row
           /\ req'[r].matched = matched
           /\ req'[r].key = req[r].key
           /\ req'[r].journal = req[r].journal
<1> DEFINE q == req[r]
           pc == IF matches[Inv(r)] # {} THEN "post_guard" ELSE "cache_match"
           p == [q EXCEPT !.matched = matched, !.pc = pc]
<1>1. q \in Request
  OBVIOUS
<1>2. req' = [req EXCEPT ![r] = p]
  BY DEF LatestMatch
<1>3. pc \in Steps
  BY DEF Steps, PostSteps
<1> HIDE DEF pc
<1>4. p \in Request
  BY <1>1, <1>3 DEF Request
<1>5. /\ p.pc = pc /\ p.next = q.next /\ p.inv = q.inv /\ p.object = q.object
      /\ p.row = q.row /\ p.matched = matched /\ p.key = q.key
      /\ p.journal = q.journal
  BY <1>1 DEF Request
<1>6. req'[r] = p
  BY <1>2
<1>7. QED
  BY <1>2, <1>4, <1>5, <1>6 DEF pc

LEMMA PostGuardMoves ==
    ASSUME req \in [Callers -> Request], NEW r \in Callers, PostGuard(r)
    PROVE  /\ req'[r] \in Request
           /\ req' = [req EXCEPT ![r] = req'[r]]
           /\ \/ req'[r] = IdleRequest
              \/ /\ MayPost(r)
                 /\ req'[r].pc = "erp_call" /\ req'[r].inv = req[r].inv
                 /\ req'[r].object = req[r].object /\ req'[r].row = req[r].row
                 /\ req'[r].matched = FALSE /\ req'[r].key = req[r].key
<1> DEFINE q == req[r]
           p == [q EXCEPT !.pc = "erp_call", !.matched = FALSE]
<1>1. q \in Request
  OBVIOUS
<1>2. \/ Finish(r)
      \/ req' = [req EXCEPT ![r] = p] /\ MayPost(r)
  BY DEF PostGuard
<1>3. "erp_call" \in Steps
  BY DEF Steps, PostSteps
<1>4. /\ p \in Request /\ p.pc = "erp_call" /\ p.inv = q.inv
      /\ p.object = q.object /\ p.row = q.row /\ p.matched = FALSE /\ p.key = q.key
  BY <1>1, <1>3 DEF Request
<1>5. CASE Finish(r)
  BY <1>5, FinishMoves, RequestTypes
<1>6. CASE req' = [req EXCEPT ![r] = p] /\ MayPost(r)
  <2>1. req'[r] = p
    BY <1>6
  <2>2. QED
    BY <1>4, <1>6, <2>1
<1>7. QED
  BY <1>2, <1>5, <1>6

LEMMA ReceiveMoves ==
    ASSUME req \in [Callers -> Request], NEW r \in Callers, NEW c \in Call,
           ReceiveJournal(r, c)
    PROVE  /\ req'[r] \in Request
           /\ req' = [req EXCEPT ![r] = req'[r]]
           /\ req'[r].pc = "set_posted"
           /\ req'[r].inv = req[r].inv
           /\ req'[r].object = req[r].object
           /\ req'[r].row = req[r].row
           /\ req'[r].matched = req[r].matched
           /\ req'[r].key = req[r].key
           /\ req'[r].journal = c.journal
<1> DEFINE q == req[r]
           p == [q EXCEPT !.pc = "set_posted", !.journal = c.journal]
<1>1. q \in Request /\ c.journal \in Journal \cup {NoJournal}
  BY DEF Call
<1>2. req' = [req EXCEPT ![r] = p]
  BY DEF ReceiveJournal
<1>3. "set_posted" \in Steps
  BY DEF Steps, PostSteps
<1>4. p \in Request
  BY <1>1, <1>3 DEF Request
<1>5. /\ p.pc = "set_posted" /\ p.inv = q.inv /\ p.object = q.object
      /\ p.row = q.row /\ p.matched = q.matched /\ p.key = q.key
      /\ p.journal = c.journal
  BY <1>1 DEF Request
<1>6. req'[r] = p
  BY <1>2
<1>7. QED
  BY <1>2, <1>4, <1>5, <1>6

\* Where a request starts, and with what.
Starts == {"match_guard", "decide_guard", "get_journal"}

\* A request enters its handler with the cached object, or goes to load one.
LEMMA EnterMoves ==
    ASSUME req \in [Callers -> Request], NEW r \in Callers, NEW i \in Invoices,
           cache[i] \in Makers \cup {"none"}, NewRequest(r, i)
    PROVE  /\ At(r, "idle") /\ Exists(i)
           /\ UNCHANGED <<memory, tables, history, answered, erpVars>>
           /\ IF Busy(i) THEN Trouble(i, {"overlap"}) ELSE UNCHANGED <<troubles, disturbed>>
           /\ req'[r] \in Request
           /\ req' = [req EXCEPT ![r] = req'[r]]
           /\ req'[r].inv = i /\ req'[r].row = "EXTRACTED" /\ req'[r].matched = FALSE
           /\ IF cache[i] # "none"
              THEN req'[r].pc \in Starts /\ req'[r].object = cache[i]
              ELSE /\ req'[r].pc = "select_invoice" /\ req'[r].object = r
                   /\ req'[r].next \in Starts
           /\ req'[r].pc = "get_journal" \/ req'[r].next = "get_journal"
                => req'[r].key \in ClientKeys[i]
<1> DEFINE Goal ==
           /\ At(r, "idle") /\ Exists(i)
           /\ UNCHANGED <<memory, tables, history, answered, erpVars>>
           /\ IF Busy(i) THEN Trouble(i, {"overlap"}) ELSE UNCHANGED <<troubles, disturbed>>
           /\ req'[r] \in Request
           /\ req' = [req EXCEPT ![r] = req'[r]]
           /\ req'[r].inv = i /\ req'[r].row = "EXTRACTED" /\ req'[r].matched = FALSE
           /\ IF cache[i] # "none"
              THEN req'[r].pc \in Starts /\ req'[r].object = cache[i]
              ELSE /\ req'[r].pc = "select_invoice" /\ req'[r].object = r
                   /\ req'[r].next \in Starts
           /\ req'[r].pc = "get_journal" \/ req'[r].next = "get_journal"
                => req'[r].key \in ClientKeys[i]
<1> SUFFICES Goal
  OBVIOUS
<1>1. ASSUME NEW q \in Request, Enter(r, i, q), q.inv = i, q.row = "EXTRACTED",
             q.matched = FALSE, q.pc \in Starts, q.next = "idle",
             q.pc = "get_journal" => q.key \in ClientKeys[i]
      PROVE  Goal
  <2> DEFINE p1 == [q EXCEPT !.object = cache[i]]
             p2 == [q EXCEPT !.pc = "select_invoice", !.object = r, !.next = q.pc]
             p == IF cache[i] # "none" THEN p1 ELSE p2
  <2>1. req' = [req EXCEPT ![r] = p]
    BY <1>1 DEF Enter
  <2>2. req'[r] = p
    BY <2>1
  <2>3. CASE cache[i] # "none"
    <3>1. /\ p1 \in Request /\ p1.inv = i /\ p1.row = "EXTRACTED"
          /\ p1.matched = FALSE /\ p1.pc = q.pc /\ p1.object = cache[i]
          /\ p1.key = q.key /\ p1.next = "idle"
      BY <1>1, <2>3 DEF Request
    <3>2. req'[r] = p1 /\ req' = [req EXCEPT ![r] = p1]
      BY <2>1, <2>2, <2>3
    <3>3. QED
      BY <1>1, <2>3, <3>1, <3>2 DEF Enter
  <2>4. CASE cache[i] = "none"
    <3>1. "select_invoice" \in Steps /\ r \in Makers
      BY DEF Steps, LoadSteps, Makers
    <3>2. p2 \in Request
      BY <1>1, <3>1 DEF Request
    <3>3. /\ p2.inv = i /\ p2.row = "EXTRACTED"
          /\ p2.matched = FALSE /\ p2.pc = "select_invoice" /\ p2.object = r
          /\ p2.key = q.key /\ p2.next = q.pc
      BY <1>1 DEF Request
    <3>4. req'[r] = p2 /\ req' = [req EXCEPT ![r] = p2]
      BY <2>1, <2>2, <2>4
    <3>5. QED
      BY <1>1, <2>4, <3>2, <3>3, <3>4 DEF Enter
  <2>5. QED
    BY <2>3, <2>4
<1>2. ASSUME NEW receipt \in BOOLEAN, StartMatch(r, i, receipt)
      PROVE  Goal
  <2> DEFINE q == [IdleRequest EXCEPT !.pc = "match_guard", !.inv = i,
                                      !.receipt = receipt]
  <2>1. "match_guard" \in Steps
    BY DEF Steps, MatchSteps
  <2>2. q \in Request
    BY <2>1, RequestTypes DEF Request
  <2>3. /\ q.inv = i /\ q.row = "EXTRACTED" /\ q.matched = FALSE
        /\ q.pc = "match_guard" /\ q.next = "idle"
    BY DEF IdleRequest
  <2>4. Enter(r, i, q)
    BY <1>2 DEF StartMatch
  <2>5. QED
    BY <1>1, <2>2, <2>3, <2>4 DEF Starts
<1>3. ASSUME NEW key \in ClientKeys[i], StartPost(r, i, key)
      PROVE  Goal
  <2> DEFINE q == PostRequest(i, key)
  <2>1. key \in Keys
    BY DurableConstants
  <2>2. q \in Request /\ q.inv = i /\ q.key = key
    BY <2>1, RequestTypes
  <2>3. /\ q.row = "EXTRACTED" /\ q.matched = FALSE
        /\ q.pc = "get_journal" /\ q.next = "idle"
    BY DEF PostRequest, IdleRequest
  <2>4. Enter(r, i, q)
    BY <1>3 DEF StartPost
  <2>5. QED
    BY <1>1, <2>2, <2>3, <2>4 DEF Starts
<1>4. ASSUME NEW approved \in BOOLEAN, StartDecision(r, i, approved)
      PROVE  Goal
  <2> DEFINE q == [IdleRequest EXCEPT !.pc = "decide_guard", !.inv = i,
                                      !.approved = approved]
  <2>1. "decide_guard" \in Steps
    BY DEF Steps, DecideSteps
  <2>2. q \in Request
    BY <2>1, RequestTypes DEF Request
  <2>3. /\ q.inv = i /\ q.row = "EXTRACTED" /\ q.matched = FALSE
        /\ q.pc = "decide_guard" /\ q.next = "idle"
    BY DEF IdleRequest
  <2>4. Enter(r, i, q)
    BY <1>4 DEF StartDecision
  <2>5. QED
    BY <1>1, <2>2, <2>3, <2>4 DEF Starts
<1>5. QED
  BY <1>2, <1>3, <1>4 DEF NewRequest
---------------------------------------------------------------------------
(* Types.                                                                  *)

\* The point of the handler a thread is at, or goes on to after a load or save.
Where(q) == IF q.pc \in LoadSteps \cup SaveSteps THEN q.next ELSE q.pc

AfterSave == {"evaluate_match", "done", "decided", "save_journal"}

\* What the steps of thread r rely on without looking: a row that is loaded is
\* there, an object that is used has been made, an invoice in a handler is
\* cached, and who saves a journal has one.
Held(r, q) ==
    /\ q.pc \in LoadSteps =>
         invoiceRow[q.inv] # "absent" /\ q.next \in Starts /\ q.object = r
    /\ q.pc \notin {"idle", "select_invoice"} => object[q.inv][q.object] # "absent"
    /\ q.pc \notin {"idle"} \cup LoadSteps => cache[q.inv] # "none"
    /\ q.pc \in SaveSteps => q.next \in AfterSave
    /\ Where(q) \in {"set_posted", "save_journal", "store_journal"} =>
         q.journal # NoJournal

ThreadInv == \A r \in Callers : Held(r, req[r])

CachedInv == \A i \in Invoices : cache[i] # "none" => object[i][cache[i]] # "absent"

AnswerInv == \A c \in calls : c.phase = "answered" => c.journal # NoJournal

Typed == TypeOK /\ ThreadInv /\ CachedInv /\ AnswerInv

\* Short of a restart nothing that is there goes away.
Grown ==
    /\ \A i \in Invoices, m \in Makers : object[i][m] # "absent" => object'[i][m] # "absent"
    /\ \A i \in Invoices : cache[i] # "none" => cache'[i] # "none"
    /\ \A i \in Invoices : invoiceRow[i] # "absent" => invoiceRow'[i] # "absent"

LEMMA HeldStays ==
    ASSUME Grown, NEW s \in Callers, NEW q \in Request, Held(s, q)
    PROVE  Held(s, q)'
<1>1. q.inv \in Invoices /\ q.object \in Makers
  BY DEF Request
<1>2. QED
  BY <1>1 DEF Held, Grown

\* An idle thread relies on nothing.
LEMMA IdleHeld == \A r \in Callers : Held(r, IdleRequest) /\ Held(r, IdleRequest)'
BY RequestTypes DEF Held, Where, LoadSteps, SaveSteps

\* What holds of the other threads goes on to hold when one of them moves.
LEMMA ThreadsStay ==
    ASSUME Typed, Grown, NEW r \in Callers, NEW p \in Request,
           req' = [req EXCEPT ![r] = p], Held(r, p)'
    PROVE  ThreadInv' /\ req' \in [Callers -> Request]
<1>1. req \in [Callers -> Request]
  BY DEF Typed, TypeOK
<1>2. req' \in [Callers -> Request]
  BY <1>1, ReqFrame
<1>3. ASSUME NEW s \in Callers
      PROVE  \E q \in Request : q = req'[s] /\ Held(s, q)'
  <2>1. CASE s = r
    BY <1>1, <2>1
  <2>2. CASE s # r
    <3>1. PICK q \in Request : q = req[s]
      BY <1>1
    <3>2. Held(s, q)
      BY <3>1 DEF Typed, ThreadInv
    <3>3. q = req'[s]
      BY <1>1, <2>2, <3>1
    <3>4. QED
      BY <3>2, <3>3, HeldStays
  <2>3. QED
    BY <2>1, <2>2
<1>4. ThreadInv'
  BY <1>3 DEF ThreadInv, Held, Where
<1>5. QED
  BY <1>2, <1>4

\* What a write of a status does to the memory.
LEMMA WriteEffects ==
    ASSUME Typed, NEW r \in Callers, NEW m \in Makers, NEW st \in Status,
           NEW next \in AfterSave, WriteStatus(r, m, st, next),
           next = "save_journal" => req[r].journal # NoJournal
    PROVE  /\ object' \in [Invoices -> [Makers -> Status \cup {"absent"}]]
           /\ cache' \in [Invoices -> Makers \cup {"none"}]
           /\ req' \in [Callers -> Request]
           /\ object'[Inv(r)] = [object[Inv(r)] EXCEPT ![m] = st]
           /\ cache'[Inv(r)] = m
           /\ \A i \in Invoices \ {Inv(r)} :
                object'[i] = object[i] /\ cache'[i] = cache[i]
           /\ ThreadInv' /\ CachedInv'
<1>1. /\ object \in [Invoices -> [Makers -> Status \cup {"absent"}]]
      /\ cache \in [Invoices -> Makers \cup {"none"}]
      /\ req \in [Callers -> Request]
      /\ Inv(r) \in Invoices /\ Inv(r) = req[r].inv
  BY DEF Typed, TypeOK, Inv, Request
<1>2. /\ object' = [object EXCEPT ![Inv(r)][m] = st]
      /\ cache' = [cache EXCEPT ![Inv(r)] = m]
      /\ UNCHANGED invoiceRow
  BY DEF WriteStatus, tables
<1>3. /\ object' \in [Invoices -> [Makers -> Status \cup {"absent"}]]
      /\ object'[Inv(r)] = [object[Inv(r)] EXCEPT ![m] = st]
      /\ \A i \in Invoices \ {Inv(r)} : object'[i] = object[i]
  BY <1>1, <1>2
<1>4. /\ cache' \in [Invoices -> Makers \cup {"none"}]
      /\ cache'[Inv(r)] = m
      /\ \A i \in Invoices \ {Inv(r)} : cache'[i] = cache[i]
  BY <1>1, <1>2
<1>5. st # "absent" /\ m # "none"
  BY DurableConstants DEF Status, Makers
<1>6. Grown
  BY <1>1, <1>2, <1>3, <1>4, <1>5 DEF Grown
<1>7. next \in Steps
  BY DEF AfterSave, Steps, MatchSteps, DecideSteps, PostSteps
<1>8. PICK p : p = req'[r]
  OBVIOUS
<1>9. /\ p \in Request /\ req' = [req EXCEPT ![r] = p] /\ p.pc = "serialise"
      /\ p.next = next /\ p.inv = req[r].inv /\ p.object = m
      /\ p.journal = req[r].journal
  BY <1>1, <1>7, <1>8, WriteMoves
<1>10. Held(r, p)'
  <2>1. object'[Inv(r)][m] = st
    BY <1>1, <1>3
  <2>2. QED
    BY <1>1, <1>4, <1>5, <1>9, <2>1 DEF Held, Where, AfterSave, LoadSteps, SaveSteps
<1>11. ThreadInv' /\ req' \in [Callers -> Request]
  BY <1>6, <1>9, <1>10, ThreadsStay
<1>12. CachedInv'
  <2>1. object'[Inv(r)][m] = st
    BY <1>1, <1>3
  <2>2. QED
    BY <1>3, <1>4, <1>5, <2>1 DEF Typed, CachedInv
<1>13. QED
  BY <1>3, <1>4, <1>11, <1>12
\* A thread that ends its request relies on nothing, and the others are as before.
LEMMA FinishStays ==
    ASSUME Typed, Grown, NEW r \in Callers, Finish(r)
    PROVE  ThreadInv' /\ req' \in [Callers -> Request]
<1>1. IdleRequest \in Request /\ Held(r, IdleRequest)'
  BY RequestTypes, IdleHeld
<1>2. req' = [req EXCEPT ![r] = IdleRequest]
  BY DEF Finish
<1>3. PICK p \in Request : p = IdleRequest
  BY <1>1
<1>4. QED
  BY <1>1, <1>2, ThreadsStay

\* A thread that goes on without touching the memory or the row.
LEMMA GotoStays ==
    ASSUME Typed, Grown, NEW r \in Callers, NEW pc \in Steps, Goto(r, pc),
           ~At(r, "idle"),
           pc \in LoadSteps => req[r].pc \in LoadSteps,
           pc \notin SaveSteps, cache[Inv(r)] # "none" \/ pc \in LoadSteps,
           object'[Inv(r)][req[r].object] # "absent",
           pc \in {"set_posted", "save_journal", "store_journal"} =>
             req[r].journal # NoJournal
    PROVE  ThreadInv' /\ req' \in [Callers -> Request]
<1>1. req \in [Callers -> Request] /\ req[r] \in Request
  BY DEF Typed, TypeOK
<1>2. PICK p : p = req'[r]
  OBVIOUS
<1>3. /\ p \in Request /\ req' = [req EXCEPT ![r] = p] /\ p.pc = pc
      /\ p.next = req[r].next /\ p.inv = req[r].inv /\ p.object = req[r].object
      /\ p.journal = req[r].journal
  BY <1>1, <1>2, GotoMoves
<1>4. Held(r, req[r]) /\ req[r].inv \in Invoices /\ Inv(r) = req[r].inv
  BY <1>1 DEF Typed, ThreadInv, Request, Inv
<1>5. Held(r, p)'
  BY <1>3, <1>4 DEF Held, Where, At, Grown
<1>6. QED
  BY <1>3, <1>5, ThreadsStay

\* Finishing, and going on, where memory and rows stay as they are.
LEMMA QuietTypes ==
    ASSUME Typed, NEW r \in Callers, UNCHANGED <<memory, tables, troubles, watch>>,
           ThreadInv' /\ req' \in [Callers -> Request], ErpTypeOK', AnswerInv'
    PROVE  Typed'
<1>1. CachedInv'
  BY DEF Typed, CachedInv, memory
<1>2. TypeOK'
  BY DEF Typed, TypeOK, memory, tables, watch
<1>3. QED
  BY <1>1, <1>2 DEF Typed

\* Of the ERP these properties look at the calls only.
LEMMA ErpStays ==
    ASSUME Typed, UNCHANGED erpVars
    PROVE  ErpTypeOK' /\ AnswerInv'
BY DEF Typed, TypeOK, ErpTypeOK, AnswerInv, erpVars

\* What a thread in a handler has at hand.
LEMMA InHandler ==
    ASSUME Typed, NEW r \in Callers
    PROVE  /\ req[r] \in Request /\ req \in [Callers -> Request]
           /\ Inv(r) \in Invoices /\ Inv(r) = req[r].inv
           /\ req[r].object \in Makers
           /\ req[r].row \in Status
           /\ req[r].journal \in Journal \cup {NoJournal}
           /\ req[r].key \in Keys
           /\ Held(r, req[r])
           /\ object[Inv(r)] \in [Makers -> Status \cup {"absent"}]
           /\ invoiceRow[Inv(r)] \in Status \cup {"absent"}
           /\ cache[Inv(r)] \in Makers \cup {"none"}
           /\ cache[Inv(r)] # "none" => object[Inv(r)][cache[Inv(r)]] # "absent"
           /\ (req[r].pc \notin {"idle"} \cup LoadSteps) =>
                /\ cache[Inv(r)] \in Makers
                /\ HeldStatus(r) \in Status
                /\ object[Inv(r)][cache[Inv(r)]] \in Status
<1>1. /\ req[r] \in Request /\ req \in [Callers -> Request]
      /\ Inv(r) \in Invoices /\ Inv(r) = req[r].inv
      /\ req[r].object \in Makers /\ req[r].row \in Status
      /\ req[r].journal \in Journal \cup {NoJournal} /\ req[r].key \in Keys
  BY DEF Typed, TypeOK, Inv, Request
<1>2. /\ object[Inv(r)] \in [Makers -> Status \cup {"absent"}]
      /\ invoiceRow[Inv(r)] \in Status \cup {"absent"}
      /\ cache[Inv(r)] \in Makers \cup {"none"}
  BY <1>1 DEF Typed, TypeOK
<1>3. Held(r, req[r]) /\ (cache[Inv(r)] # "none" => object[Inv(r)][cache[Inv(r)]] # "absent")
  BY <1>1 DEF Typed, ThreadInv, CachedInv
<1>4. ASSUME req[r].pc \notin {"idle"} \cup LoadSteps
      PROVE  /\ cache[Inv(r)] \in Makers
             /\ HeldStatus(r) \in Status
             /\ object[Inv(r)][cache[Inv(r)]] \in Status
  <2>1. cache[Inv(r)] # "none" /\ object[Inv(r)][req[r].object] # "absent"
    BY <1>1, <1>3, <1>4 DEF Held, LoadSteps
  <2>2. QED
    BY <1>1, <1>2, <1>3, <2>1 DEF HeldStatus
<1>5. QED
  BY <1>1, <1>2, <1>3, <1>4

\* A trouble counts, and is noted at its invoice.
LEMMA TroubleTypes ==
    ASSUME Typed, NEW i \in Invoices, NEW what \in SUBSET Disturbances, Trouble(i, what)
    PROVE  /\ troubles' \in 0 .. MaxTroubles
           /\ disturbed' \in [Invoices -> SUBSET Disturbances]
           /\ disturbed'[i] = disturbed[i] \cup what
           /\ \A k \in Invoices \ {i} : disturbed'[k] = disturbed[k]
<1>1. MaxTroubles \in Nat /\ troubles \in 0 .. MaxTroubles
  BY DurableConstants DEF Typed, TypeOK
<1>2. troubles' \in 0 .. MaxTroubles
  BY <1>1 DEF Trouble
<1>3. disturbed \in [Invoices -> SUBSET Disturbances]
  BY DEF Typed, TypeOK
<1>4. disturbed' = [disturbed EXCEPT ![i] = @ \cup what]
  BY DEF Trouble
<1>5. disturbed[i] \cup what \in SUBSET Disturbances
  BY <1>3
<1>6. disturbed' \in [Invoices -> SUBSET Disturbances]
  BY <1>3, <1>4, <1>5
<1>7. QED
  BY <1>2, <1>3, <1>4, <1>6

\* Loading and saving.
LEMMA SaveStepTypes ==
    ASSUME Typed, NEW r \in Callers, SaveStep(r)
    PROVE  Typed'
<1> DEFINE q == req[r]
           i == Inv(r)
<1>h. /\ q \in Request /\ req \in [Callers -> Request] /\ i \in Invoices
      /\ i = q.inv /\ q.object \in Makers /\ q.row \in Status /\ Held(r, q)
      /\ invoiceRow[i] \in Status \cup {"absent"} /\ r \in Makers /\ r # "none"
  BY InHandler, DurableConstants DEF Makers
<1>t. /\ object \in [Invoices -> [Makers -> Status \cup {"absent"}]]
      /\ cache \in [Invoices -> Makers \cup {"none"}]
      /\ invoiceRow \in [Invoices -> Status \cup {"absent"}]
      /\ "absent" \notin Status
  BY DEF Typed, TypeOK, Status
<1>s. ASSUME UNCHANGED <<object, cache, invoiceRow>>
      PROVE  Grown /\ CachedInv'
  BY <1>s DEF Typed, Grown, CachedInv
<1>e. UNCHANGED erpVars => ErpTypeOK' /\ AnswerInv'
  BY ErpStays
<1>1. CASE SelectInvoice(r)
  <2>1. /\ object' = [object EXCEPT ![i][r] = invoiceRow[i]]
        /\ UNCHANGED <<cache, invoiceRow>>
    BY <1>1 DEF SelectInvoice, tables
  <2>2. invoiceRow[i] # "absent"
    BY <1>h, <1>1 DEF SelectInvoice, At, Held, LoadSteps
  <2>3. /\ object' \in [Invoices -> [Makers -> Status \cup {"absent"}]]
        /\ object'[i][r] = invoiceRow[i]
    BY <1>h, <1>t, <2>1
  <2>4. Grown
    BY <1>h, <1>t, <2>1, <2>2 DEF Grown
  <2>5. CachedInv'
    BY <1>h, <1>t, <2>1, <2>4 DEF Typed, CachedInv, Grown
  <2>6. q.object = r /\ q.pc \in LoadSteps
    BY <1>h, <1>1 DEF SelectInvoice, At, Held, LoadSteps
  <2>7. /\ Goto(r, "cache_invoice") /\ "cache_invoice" \in Steps
        /\ "cache_invoice" \in LoadSteps
        /\ "cache_invoice" \notin SaveSteps
        /\ ~At(r, "idle")
    BY <1>1 DEF SelectInvoice, Steps, LoadSteps, SaveSteps, At
  <2>8. ThreadInv' /\ req' \in [Callers -> Request]
    BY <2>2, <2>3, <2>4, <2>6, <2>7, GotoStays
  <2>9. TypeOK'
    BY <1>1, <1>e, <2>1, <2>3, <2>8 DEF SelectInvoice, Typed, TypeOK, tables, watch
  <2>10. QED
    BY <1>1, <1>e, <2>5, <2>8, <2>9 DEF SelectInvoice, Typed
<1>2. CASE CacheInvoice(r)
  <2>1. cache' = [cache EXCEPT ![i] = r] /\ UNCHANGED <<object, invoiceRow>>
    BY <1>2 DEF CacheInvoice, tables
  <2>2. /\ q.object = r /\ q.next \in Starts /\ object[i][r] # "absent"
        /\ q.pc \in LoadSteps
    BY <1>h, <1>2 DEF CacheInvoice, At, Held, LoadSteps
  <2>3. Grown
    BY <1>h, <1>t, <2>1 DEF Grown
  <2>4. CachedInv'
    BY <1>h, <1>t, <2>1, <2>2 DEF Typed, CachedInv
  <2>5. PICK p : p = req'[r]
    OBVIOUS
  <2>6. /\ p \in Request /\ req' = [req EXCEPT ![r] = p] /\ p.pc = q.next
        /\ p.next = "idle" /\ p.inv = i /\ p.object = r
    BY <1>h, <1>2, <2>2, <2>5, ResumeMoves DEF CacheInvoice
  <2>7. Held(r, p)'
    BY <1>h, <1>t, <2>1, <2>2, <2>6 DEF Held, Where, Starts, LoadSteps, SaveSteps
  <2>8. ThreadInv' /\ req' \in [Callers -> Request]
    BY <2>3, <2>6, <2>7, ThreadsStay
  <2>9. TypeOK'
    BY <1>h, <1>2, <1>e, <1>t, <2>1, <2>8 DEF CacheInvoice, Typed, TypeOK, tables, watch
  <2>10. QED
    BY <1>2, <1>e, <2>4, <2>8, <2>9 DEF CacheInvoice, Typed
<1>3. CASE Serialise(r)
  <2>1. HeldStatus(r) \in Status
    BY <1>3, InHandler DEF Serialise, At, LoadSteps
  <2>2. PICK p : p = req'[r]
    OBVIOUS
  <2>3. /\ p \in Request /\ req' = [req EXCEPT ![r] = p] /\ p.pc = "commit"
        /\ p.next = q.next /\ p.inv = q.inv /\ p.object = q.object
        /\ p.journal = q.journal
    BY <1>h, <1>3, <2>1, <2>2, SerialiseMoves
  <2>4. UNCHANGED <<memory, tables, troubles, watch, erpVars>>
    BY <1>3 DEF Serialise
  <2>5. UNCHANGED <<object, cache, invoiceRow>> /\ q.pc = "serialise"
    BY <1>3, <2>4 DEF memory, tables, Serialise, At
  <2>6. Held(r, p)'
    BY <1>h, <2>3, <2>5 DEF Held, Where, LoadSteps, SaveSteps
  <2>7. ThreadInv' /\ req' \in [Callers -> Request]
    BY <1>s, <2>3, <2>5, <2>6, ThreadsStay
  <2>8. QED
    BY <1>e, <2>4, <2>7, QuietTypes
<1>4. CASE Commit(r)
  <2>1. /\ invoiceRow' = [invoiceRow EXCEPT ![i] = q.row]
        /\ UNCHANGED <<object, cache>> /\ q.pc = "commit" /\ Resume(r)
    BY <1>4 DEF Commit, WriteInvoiceRow, memory, At
  <2>2. Grown
    BY <1>h, <1>t, <2>1 DEF Grown
  <2>3. CachedInv'
    BY <2>1 DEF Typed, CachedInv
  <2>4. PICK p : p = req'[r]
    OBVIOUS
  <2>5. /\ p \in Request /\ req' = [req EXCEPT ![r] = p] /\ p.pc = q.next
        /\ p.next = "idle" /\ p.inv = i /\ p.object = q.object
        /\ p.journal = q.journal
    BY <1>h, <2>1, <2>4, ResumeMoves
  <2>6. Held(r, p)'
    BY <1>h, <1>t, <2>1, <2>5
    DEF Held, Where, AfterSave, LoadSteps, SaveSteps
  <2>7. ThreadInv' /\ req' \in [Callers -> Request]
    BY <2>2, <2>5, <2>6, ThreadsStay
  <2>8. TypeOK'
    BY <1>h, <1>4, <1>e, <1>t, <2>1, <2>7
    DEF Commit, WriteInvoiceRow, Typed, TypeOK, memory, watch
  <2>9. QED
    BY <1>4, <1>e, <2>3, <2>7, <2>8 DEF Commit, Typed
<1>5. CASE Done(r) \/ ReadFails(r)
  <2>1. Finish(r) /\ UNCHANGED <<memory, tables, troubles, watch, erpVars>>
    BY <1>5 DEF Done, ReadFails
  <2>2. UNCHANGED <<object, cache, invoiceRow>>
    BY <2>1 DEF memory, tables
  <2>3. ThreadInv' /\ req' \in [Callers -> Request]
    BY <1>s, <2>1, <2>2, FinishStays
  <2>4. QED
    BY <1>e, <2>1, <2>3, QuietTypes
<1>6. CASE WriteFails(r)
  <2>1. /\ Finish(r) /\ Trouble(i, {"failed_write"})
        /\ UNCHANGED <<object, cache, matches, journals, history, answered, erpVars>>
    BY <1>6 DEF WriteFails, memory
  <2>2. \/ UNCHANGED tables
        \/ WriteMatchRow(r) \/ WriteInvoiceRow(r) \/ WriteJournalRow(r)
    BY <1>6 DEF WriteFails
  <2>3. /\ invoiceRow' \in [Invoices -> Status \cup {"absent"}]
        /\ \A k \in Invoices : invoiceRow[k] # "absent" => invoiceRow'[k] # "absent"
    BY <1>h, <1>t, <2>2 DEF tables, WriteMatchRow, WriteInvoiceRow, WriteJournalRow
  <2>4. matchRow' \in [Invoices -> SUBSET BOOLEAN]
    <3>1. q.matched \in BOOLEAN /\ matchRow \in [Invoices -> SUBSET BOOLEAN]
      BY <1>h DEF Request, Typed, TypeOK
    <3>2. CASE WriteMatchRow(r)
      BY <1>h, <3>1, <3>2 DEF WriteMatchRow
    <3>3. CASE ~WriteMatchRow(r)
      BY <2>2, <3>1, <3>3 DEF tables, WriteInvoiceRow, WriteJournalRow
    <3>4. QED
      BY <3>2, <3>3
  <2>5. journalRows' \subseteq Journal
    <3>1. journalRows \subseteq Journal /\ q.journal \in Journal \cup {NoJournal}
      BY <1>h DEF Request, Typed, TypeOK
    <3>2. CASE WriteJournalRow(r)
      <4>1. q.journal # NoJournal
        BY <1>h, <3>2 DEF WriteJournalRow, At, Held, Where, LoadSteps, SaveSteps
      <4>2. QED
        BY <3>1, <3>2, <4>1 DEF WriteJournalRow
    <3>3. CASE ~WriteJournalRow(r)
      BY <2>2, <3>1, <3>3 DEF tables, WriteInvoiceRow, WriteMatchRow
    <3>4. QED
      BY <3>2, <3>3
  <2>6. Grown /\ CachedInv'
    BY <2>1, <2>3 DEF Typed, Grown, CachedInv
  <2>7. ThreadInv' /\ req' \in [Callers -> Request]
    BY <2>1, <2>6, FinishStays
  <2>8. troubles' \in 0 .. MaxTroubles /\ disturbed' \in [Invoices -> SUBSET Disturbances]
    BY <1>h, <2>1, TroubleTypes DEF Disturbances
  <2>9. TypeOK'
    BY <1>e, <2>1, <2>3, <2>4, <2>5, <2>7, <2>8 DEF Typed, TypeOK
  <2>10. QED
    BY <1>e, <2>1, <2>6, <2>7, <2>9 DEF Typed
<1>7. QED
  BY <1>1, <1>2, <1>3, <1>4, <1>5, <1>6 DEF SaveStep
\* A thread that goes on, or ends, and leaves memory and rows as they are.
LEMMA QuietMoves ==
    ASSUME Typed, NEW r \in Callers, UNCHANGED <<memory, tables, troubles, watch>>,
           ErpTypeOK', AnswerInv', NEW p \in Request, req' = [req EXCEPT ![r] = p],
           Held(r, p)
    PROVE  Typed'
<1>1. UNCHANGED <<object, cache, invoiceRow>>
  BY DEF memory, tables
<1>2. Grown
  BY <1>1 DEF Grown
<1>3. Held(r, p)'
  BY <1>1 DEF Held
<1>4. ThreadInv' /\ req' \in [Callers -> Request]
  BY <1>2, <1>3, ThreadsStay
<1>5. QED
  BY <1>4, QuietTypes

LEMMA QuietFinish ==
    ASSUME Typed, NEW r \in Callers, UNCHANGED <<memory, tables, troubles, watch>>,
           ErpTypeOK', AnswerInv', Finish(r)
    PROVE  Typed'
<1>1. UNCHANGED <<object, cache, invoiceRow>>
  BY DEF memory, tables
<1>2. Grown
  BY <1>1 DEF Grown
<1>3. QED
  BY <1>2, FinishStays, QuietTypes

\* Steps within a handler that change neither memory nor rows.
InnerSteps == MatchSteps \cup DecideSteps \cup PostSteps \cup {"done"}

LEMMA QuietGoto ==
    ASSUME Typed, NEW r \in Callers, UNCHANGED <<memory, tables, troubles, watch>>,
           ErpTypeOK', AnswerInv', NEW pc \in InnerSteps, Goto(r, pc),
           req[r].pc \in InnerSteps,
           pc \in {"set_posted", "save_journal", "store_journal"} =>
             req[r].journal # NoJournal
    PROVE  Typed'
<1>1. UNCHANGED <<object, cache, invoiceRow>>
  BY DEF memory, tables
<1>2. Grown
  BY <1>1 DEF Grown
<1>3. /\ req[r].pc \notin {"idle"} \cup LoadSteps
      /\ pc \in Steps /\ pc \notin LoadSteps \cup SaveSteps
  BY DEF InnerSteps, MatchSteps, DecideSteps, PostSteps, LoadSteps, SaveSteps, Steps
<1>4. /\ cache[Inv(r)] \in Makers
      /\ HeldStatus(r) \in Status
  BY <1>3, InHandler
<1>5. cache[Inv(r)] # "none" /\ object'[Inv(r)][req[r].object] # "absent"
  BY <1>1, <1>4, DurableConstants DEF HeldStatus, Makers, Status
<1>6. ThreadInv' /\ req' \in [Callers -> Request]
  BY <1>2, <1>3, <1>5, GotoStays DEF At
<1>7. QED
  BY <1>6, QuietTypes

\* The memory in which a status was written, and nothing else.
LEMMA WriteTypes ==
    ASSUME Typed, NEW r \in Callers, NEW m \in Makers, NEW st \in Status,
           NEW next \in AfterSave, WriteStatus(r, m, st, next),
           next = "save_journal" => req[r].journal # NoJournal,
           UNCHANGED <<troubles, answered, disturbed, erpVars>>,
           history' \in [Invoices -> SUBSET Events]
    PROVE  Typed'
<1>1. /\ object' \in [Invoices -> [Makers -> Status \cup {"absent"}]]
      /\ cache' \in [Invoices -> Makers \cup {"none"}]
      /\ req' \in [Callers -> Request]
      /\ ThreadInv' /\ CachedInv'
  BY WriteEffects
<1>2. UNCHANGED <<matches, journals, tables>>
  BY DEF WriteStatus
<1>3. ErpTypeOK' /\ AnswerInv'
  BY ErpStays
<1>4. TypeOK'
  BY <1>1, <1>2, <1>3 DEF Typed, TypeOK, tables
<1>5. QED
  BY <1>1, <1>3, <1>4 DEF Typed

\* match().
LEMMA MatchStepTypes ==
    ASSUME Typed, NEW r \in Callers, MatchStep(r)
    PROVE  Typed'
<1> DEFINE q == req[r]
           i == Inv(r)
<1>h. /\ q \in Request /\ req \in [Callers -> Request] /\ i \in Invoices
      /\ i = q.inv /\ q.object \in Makers /\ Held(r, q) /\ q.matched \in BOOLEAN
  BY InHandler DEF Request
<1>e. UNCHANGED erpVars => ErpTypeOK' /\ AnswerInv'
  BY ErpStays
<1>y. history \in [Invoices -> SUBSET Events]
  BY DEF Typed, TypeOK
<1>1. CASE MatchGuard(r)
  <2>1. /\ Finish(r) \/ Goto(r, "run_match")
        /\ q.pc \in InnerSteps /\ "run_match" \in InnerSteps
        /\ UNCHANGED <<memory, tables, troubles, watch, erpVars>>
    BY <1>1 DEF MatchGuard, At, InnerSteps, MatchSteps
  <2>2. QED
    BY <1>e, <2>1, QuietFinish, QuietGoto
<1>2. CASE RunMatch(r)
  <2>1. q.pc = "run_match" /\ UNCHANGED <<memory, tables, troubles, watch, erpVars>>
    BY <1>2 DEF RunMatch, At
  <2>2. cache[i] \in Makers /\ object[i][cache[i]] \in Status
    BY <2>1, InHandler DEF LoadSteps
  <2>3. PICK p : p = req'[r]
    OBVIOUS
  <2>4. /\ p \in Request /\ req' = [req EXCEPT ![r] = p] /\ p.pc = "save_match"
        /\ p.inv = i /\ p.object = cache[i]
    BY <1>2, <1>h, <2>2, <2>3, RunMatchMoves
  <2>5. Held(r, p)
    BY <2>2, <2>4, DurableConstants
    DEF Held, Where, LoadSteps, SaveSteps, Status, Makers
  <2>6. QED
    BY <1>e, <2>1, <2>4, <2>5, QuietMoves
<1>3. CASE MatchFails(r)
  BY <1>3, <1>e, QuietFinish DEF MatchFails
<1>4. CASE SaveMatch(r)
  <2>1. /\ matches' = [matches EXCEPT ![i] = {q.matched}]
        /\ UNCHANGED <<object, cache, journals, tables, troubles, answered,
                       disturbed, erpVars>>
        /\ Goto(r, "store_match") /\ q.pc = "save_match"
    BY <1>4 DEF SaveMatch, At
  <2>2. UNCHANGED <<object, cache, invoiceRow>>
    BY <2>1 DEF tables
  <2>3. Grown /\ CachedInv'
    BY <2>2 DEF Grown, Typed, CachedInv
  <2>4. matches' \in [Invoices -> SUBSET BOOLEAN]
    BY <1>h, <2>1 DEF Typed, TypeOK
  <2>5. history' \in [Invoices -> SUBSET Events]
    <3> DEFINE new == IF q.matched THEN {"clean_match"} ELSE {}
    <3>1. history' = [history EXCEPT ![i] = @ \cup new]
      BY <1>4 DEF SaveMatch
    <3>2. new \subseteq Events
      BY DEF Events
    <3>3. QED
      BY <1>h, <1>y, <3>1, <3>2
  <2>6. cache[i] \in Makers /\ HeldStatus(r) \in Status
    BY <2>1, InHandler DEF LoadSteps
  <2>7. cache[i] # "none" /\ object'[i][q.object] # "absent"
    BY <2>2, <2>6, DurableConstants DEF Makers, Status, HeldStatus
  <2>8. /\ "store_match" \in Steps
        /\ "store_match" \notin LoadSteps \cup SaveSteps
    BY DEF Steps, MatchSteps, LoadSteps, SaveSteps
  <2>9. ThreadInv' /\ req' \in [Callers -> Request]
    BY <2>1, <2>3, <2>7, <2>8, GotoStays DEF At
  <2>10. TypeOK'
    BY <1>e, <2>1, <2>4, <2>5, <2>9 DEF Typed, TypeOK, tables
  <2>11. QED
    BY <1>e, <2>1, <2>3, <2>9, <2>10 DEF Typed
<1>5. CASE StoreMatch(r)
  <2>1. /\ matchRow' = [matchRow EXCEPT ![i] = {q.matched}]
        /\ UNCHANGED <<memory, invoiceRow, journalRows, troubles, watch, erpVars>>
        /\ Goto(r, "set_status") /\ q.pc = "store_match"
    BY <1>5 DEF StoreMatch, WriteMatchRow, At
  <2>2. UNCHANGED <<object, cache, invoiceRow>>
    BY <2>1 DEF memory
  <2>3. Grown /\ CachedInv'
    BY <2>2 DEF Grown, Typed, CachedInv
  <2>4. matchRow' \in [Invoices -> SUBSET BOOLEAN]
    BY <1>h, <2>1 DEF Typed, TypeOK
  <2>5. cache[i] \in Makers /\ HeldStatus(r) \in Status
    BY <2>1, InHandler DEF LoadSteps
  <2>6. cache[i] # "none" /\ object'[i][q.object] # "absent"
    BY <2>2, <2>5, DurableConstants DEF Makers, Status, HeldStatus
  <2>7. /\ "set_status" \in Steps
        /\ "set_status" \notin LoadSteps \cup SaveSteps
    BY DEF Steps, MatchSteps, LoadSteps, SaveSteps
  <2>8. ThreadInv' /\ req' \in [Callers -> Request]
    BY <2>1, <2>3, <2>6, <2>7, GotoStays DEF At
  <2>9. TypeOK'
    BY <1>e, <2>1, <2>4, <2>8 DEF Typed, TypeOK, memory, watch
  <2>10. QED
    BY <1>e, <2>1, <2>3, <2>8, <2>9 DEF Typed
<1>6. CASE SetMatchStatus(r)
  <2> DEFINE st == IF q.matched THEN "MATCHED" ELSE "EXCEPTION"
  <2>1. /\ WriteStatus(r, q.object, st, "evaluate_match")
        /\ UNCHANGED <<troubles, watch, erpVars>>
    BY <1>6 DEF SetMatchStatus
  <2>2. st \in Status /\ "evaluate_match" \in AfterSave
    BY DEF Status, AfterSave
  <2> HIDE DEF st
  <2>3. QED
    BY <1>h, <1>y, <2>1, <2>2, WriteTypes DEF watch
<1>7. ASSUME NEW requested \in AgentActions, EvaluateMatch(r, requested)
      PROVE  Typed'
  <2>1. q.pc = "evaluate_match" /\ UNCHANGED <<memory, tables, troubles, watch, erpVars>>
    BY <1>7 DEF EvaluateMatch, At
  <2>2. cache[i] \in Makers /\ object[i][cache[i]] \in Status /\ HeldStatus(r) \in Status
    BY <2>1, InHandler DEF LoadSteps
  <2>3. PICK p : p = req'[r]
    OBVIOUS
  <2>4. /\ p \in Request /\ req' = [req EXCEPT ![r] = p] /\ p.inv = i
        /\ \/ p.pc = "get_journal" /\ p.object = cache[i]
           \/ p.pc = "finalize" /\ p.object = q.object
    BY <1>7, <1>h, <2>2, <2>3, EvaluateMoves
  <2>5. Held(r, p)
    BY <1>h, <2>2, <2>4, DurableConstants
    DEF Held, Where, LoadSteps, SaveSteps, Status, Makers, HeldStatus
  <2>6. QED
    BY <1>e, <2>1, <2>4, <2>5, QuietMoves
<1>8. CASE Finalize(r)
  <2>1. q.pc = "finalize" /\ UNCHANGED <<troubles, watch, erpVars>>
    BY <1>8 DEF Finalize, At
  <2>2. CASE WriteStatus(r, cache[i], "AWAITING_APPROVAL", "done")
    <3>1. /\ cache[i] \in Makers /\ "AWAITING_APPROVAL" \in Status
          /\ "done" \in AfterSave
      BY <2>1, InHandler DEF LoadSteps, Status, AfterSave
    <3>2. PICK m \in Makers : m = cache[i]
      BY <3>1
    <3>3. QED
      BY <1>y, <2>1, <2>2, <3>1, <3>2, WriteTypes DEF watch
  <2>3. CASE Finish(r) /\ UNCHANGED <<memory, tables>>
    BY <1>e, <2>1, <2>3, QuietFinish
  <2>4. QED
    BY <1>8, <2>2, <2>3 DEF Finalize
<1>9. QED
  BY <1>1, <1>2, <1>3, <1>4, <1>5, <1>6, <1>7, <1>8 DEF MatchStep

\* approve().
LEMMA DecideStepTypes ==
    ASSUME Typed, NEW r \in Callers, DecideStep(r)
    PROVE  Typed'
<1> DEFINE q == req[r]
           i == Inv(r)
<1>h. /\ q \in Request /\ req \in [Callers -> Request] /\ i \in Invoices
      /\ i = q.inv /\ q.object \in Makers /\ Held(r, q)
  BY InHandler DEF Request
<1>e. UNCHANGED erpVars => ErpTypeOK' /\ AnswerInv'
  BY ErpStays
<1>y. history \in [Invoices -> SUBSET Events]
  BY DEF Typed, TypeOK
<1>1. CASE DecideGuard(r)
  <2>1. q.pc = "decide_guard" /\ UNCHANGED <<memory, tables, troubles, watch, erpVars>>
    BY <1>1 DEF DecideGuard, At
  <2>2. cache[i] \in Makers /\ object[i][cache[i]] \in Status
    BY <2>1, InHandler DEF LoadSteps
  <2>3. PICK p : p = req'[r]
    OBVIOUS
  <2>4. /\ p \in Request /\ req' = [req EXCEPT ![r] = p]
        /\ \/ p = IdleRequest
           \/ p.inv = i /\ p.pc = "decide" /\ p.object = cache[i]
    BY <1>1, <1>h, <2>2, <2>3, DecideGuardMoves
  <2>5. CASE p = IdleRequest
    BY <1>e, <2>1, <2>4, <2>5, IdleHeld, QuietMoves
  <2>6. CASE p.inv = i /\ p.pc = "decide" /\ p.object = cache[i]
    <3>1. Held(r, p)
      BY <2>2, <2>6, DurableConstants
      DEF Held, Where, LoadSteps, SaveSteps, Status, Makers
    <3>2. QED
      BY <1>e, <2>1, <2>4, <3>1, QuietMoves
  <2>7. QED
    BY <2>4, <2>5, <2>6
<1>2. CASE RecordDecision(r)
  <2> DEFINE st == IF q.approved THEN "APPROVED" ELSE "REJECTED"
             new == {IF q.approved THEN "human_approved" ELSE "human_rejected"}
  <2>1. /\ WriteStatus(r, q.object, st, "decided")
        /\ history' = [history EXCEPT ![i] = @ \cup new]
        /\ UNCHANGED <<troubles, answered, disturbed, erpVars>>
    BY <1>2 DEF RecordDecision
  <2>2. st \in Status /\ "decided" \in AfterSave /\ new \subseteq Events
    BY DEF Status, AfterSave, Events
  <2> HIDE DEF st, new
  <2>3. history' \in [Invoices -> SUBSET Events]
    BY <1>h, <1>y, <2>1, <2>2
  <2>4. QED
    BY <1>h, <2>1, <2>2, <2>3, WriteTypes
<1>3. CASE AnswerDecision(r)
  <2>1. /\ Finish(r) /\ answered' = answered \cup {i}
        /\ UNCHANGED <<memory, tables, troubles, history, disturbed, erpVars>>
    BY <1>3 DEF AnswerDecision
  <2>2. UNCHANGED <<object, cache, invoiceRow>>
    BY <2>1 DEF memory, tables
  <2>3. Grown /\ CachedInv'
    BY <2>2 DEF Grown, Typed, CachedInv
  <2>4. ThreadInv' /\ req' \in [Callers -> Request]
    BY <2>1, <2>3, FinishStays
  <2>5. TypeOK'
    BY <1>h, <1>e, <2>1, <2>4 DEF Typed, TypeOK, memory, tables
  <2>6. QED
    BY <1>e, <2>1, <2>3, <2>4, <2>5 DEF Typed
<1>4. QED
  BY <1>1, <1>2, <1>3 DEF DecideStep

\* post(), and the calls it sends.
LEMMA PostStepTypes ==
    ASSUME Typed, NEW r \in Callers, PostStep(r)
    PROVE  Typed'
<1> DEFINE q == req[r]
           i == Inv(r)
<1>h. /\ q \in Request /\ req \in [Callers -> Request] /\ i \in Invoices
      /\ i = q.inv /\ q.object \in Makers /\ Held(r, q) /\ q.matched \in BOOLEAN
      /\ q.journal \in Journal \cup {NoJournal} /\ q.key \in Keys
  BY InHandler DEF Request
<1>t. /\ journals \subseteq Journal /\ journalRows \subseteq Journal
      /\ matches \in [Invoices -> SUBSET BOOLEAN]
      /\ calls \subseteq Call /\ ErpTypeOK /\ AnswerInv
      /\ history \in [Invoices -> SUBSET Events]
  BY DEF Typed, TypeOK, ErpTypeOK
<1>e. UNCHANGED erpVars => ErpTypeOK' /\ AnswerInv'
  BY ErpStays
<1>s. ASSUME UNCHANGED <<object, cache, invoiceRow>>
      PROVE  Grown /\ CachedInv'
  BY <1>s DEF Typed, Grown, CachedInv
<1>i. ASSUME q.pc \in PostSteps
      PROVE  /\ q.pc \in InnerSteps /\ cache[i] \in Makers /\ HeldStatus(r) \in Status
             /\ cache[i] # "none" /\ object[i][q.object] # "absent"
  <2>1. q.pc \in InnerSteps /\ q.pc \notin {"idle"} \cup LoadSteps
    BY <1>i DEF InnerSteps, PostSteps, LoadSteps
  <2>2. cache[i] \in Makers /\ HeldStatus(r) \in Status
    BY <2>1, InHandler
  <2>3. QED
    BY <2>1, <2>2, DurableConstants DEF HeldStatus, Makers, Status
<1>p. PostSteps \subseteq InnerSteps /\ PostSteps \subseteq Steps
      /\ PostSteps \cap (LoadSteps \cup SaveSteps \cup {"idle"}) = {}
  BY DEF InnerSteps, PostSteps, Steps, LoadSteps, SaveSteps
  \* A call is taken out, or given up, and the ERP left as it is.
<1>c. ASSUME UNCHANGED <<settings, postedByKey, postedByInvoice, minted>>,
             calls' \subseteq Call,
             \A d \in calls' : d.phase = "answered" => d.journal # NoJournal
      PROVE  ErpTypeOK' /\ AnswerInv'
  BY <1>c, <1>t DEF ErpTypeOK, AnswerInv
<1>1. ASSUME NEW j \in journals \cup journalRows, ReplayJournal(r, j)
      PROVE  Typed'
  <2>1. /\ journals' = journals \cup {j} /\ Finish(r)
        /\ UNCHANGED <<object, cache, matches, tables, troubles, watch, erpVars>>
    BY <1>1 DEF ReplayJournal
  <2>2. Grown /\ CachedInv'
    BY <2>1, <1>s DEF tables
  <2>3. ThreadInv' /\ req' \in [Callers -> Request]
    BY <2>1, <2>2, FinishStays
  <2>4. TypeOK'
    BY <1>t, <1>e, <2>1, <2>3 DEF Typed, TypeOK, tables, watch
  <2>5. QED
    BY <1>e, <2>1, <2>2, <2>3, <2>4 DEF Typed
<1>2. CASE NoKnownJournal(r)
  <2>1. /\ q.pc \in PostSteps /\ Goto(r, "latest_match") /\ "latest_match" \in PostSteps
        /\ UNCHANGED <<memory, tables, troubles, watch, erpVars>>
    BY <1>2 DEF NoKnownJournal, At, PostSteps
  <2>2. QED
    BY <1>e, <1>i, <1>p, <2>1, QuietGoto
<1>3. ASSUME NEW matched \in BOOLEAN, LatestMatch(r, matched)
      PROVE  Typed'
  <2>1. /\ q.pc \in PostSteps
        /\ UNCHANGED <<memory, tables, troubles, watch, erpVars>>
    BY <1>3 DEF LatestMatch, At, PostSteps
  <2>2. PICK p : p = req'[r]
    OBVIOUS
  <2>3. /\ p \in Request /\ req' = [req EXCEPT ![r] = p] /\ p.inv = i
        /\ p.object = q.object
        /\ p.pc = IF matches[Inv(r)] # {} THEN "post_guard" ELSE "cache_match"
    BY <1>h, <1>3, <2>2, LatestMatchMoves
  <2>4. Held(r, p)
    BY <1>i, <2>1, <2>3 DEF Held, Where, LoadSteps, SaveSteps
  <2>5. QED
    BY <1>e, <2>1, <2>3, <2>4, QuietMoves
<1>4. CASE NoMatch(r)
  BY <1>4, <1>e, QuietFinish DEF NoMatch
<1>5. CASE CacheMatch(r)
  <2>1. /\ matches' = [matches EXCEPT ![i] = {q.matched}] /\ Goto(r, "post_guard")
        /\ UNCHANGED <<object, cache, journals, tables, troubles, watch, erpVars>>
        /\ q.pc \in PostSteps /\ "post_guard" \in PostSteps
    BY <1>5 DEF CacheMatch, At, PostSteps
  <2>2. Grown /\ CachedInv'
    BY <2>1, <1>s DEF tables
  <2>3. matches' \in [Invoices -> SUBSET BOOLEAN]
    BY <1>h, <1>t, <2>1
  <2>4. cache[i] # "none" /\ object'[i][q.object] # "absent"
    BY <1>i, <2>1
  <2>5. ThreadInv' /\ req' \in [Callers -> Request]
    BY <1>p, <2>1, <2>2, <2>4, GotoStays DEF At
  <2>6. TypeOK'
    BY <1>e, <2>1, <2>3, <2>5 DEF Typed, TypeOK, tables, watch
  <2>7. QED
    BY <1>e, <2>1, <2>2, <2>5, <2>6 DEF Typed
<1>6. CASE PostGuard(r)
  <2>1. /\ q.pc \in PostSteps
        /\ UNCHANGED <<memory, tables, troubles, watch, erpVars>>
    BY <1>6 DEF PostGuard, At, PostSteps
  <2>2. PICK p : p = req'[r]
    OBVIOUS
  <2>3. /\ p \in Request /\ req' = [req EXCEPT ![r] = p]
        /\ p = IdleRequest \/ (p.inv = i /\ p.object = q.object /\ p.pc = "erp_call")
    BY <1>h, <1>6, <2>2, PostGuardMoves
  <2>4. Held(r, p)
    BY <1>i, <2>1, <2>3, IdleHeld DEF Held, Where, LoadSteps, SaveSteps
  <2>5. QED
    BY <1>e, <2>1, <2>3, <2>4, QuietMoves
<1>7. CASE SendJournal(r)
  <2> DEFINE c == [caller |-> r, inv |-> Inv(r), key |-> req[r].key,
           approved |-> (HeldStatus(r) = "APPROVED"), phase |-> "sent",
           journal |-> NoJournal, live |-> TRUE]
  <2>1. /\ calls' = calls \cup {c} /\ Goto(r, "await_erp")
        /\ q.pc \in PostSteps /\ "await_erp" \in PostSteps
        /\ UNCHANGED <<memory, tables, troubles, watch,
                   settings, postedByKey, postedByInvoice, minted>>
    BY <1>7 DEF SendJournal, At, PostSteps
  <2>2. c \in Call /\ c.phase # "answered"
    BY <1>h DEF Call, Phases
  <2> HIDE DEF c
  <2>3. ErpTypeOK' /\ AnswerInv'
    BY <1>c, <1>t, <2>1, <2>2 DEF AnswerInv
  <2>4. QED
    BY <1>i, <1>p, <2>1, <2>3, QuietGoto
<1>8. ASSUME NEW c \in CallOf(r), ReceiveJournal(r, c) PROVE Typed'
  <2>1. /\ q.pc \in PostSteps /\ c \in Call /\ c.journal # NoJournal
        /\ calls' = calls \ {c}
        /\ UNCHANGED <<memory, tables, troubles, watch,
                   settings, postedByKey, postedByInvoice, minted>>
    BY <1>t, <1>8 DEF ReceiveJournal, At, PostSteps, CallOf, AnswerInv
  <2>2. PICK p : p = req'[r]
    OBVIOUS
  <2>3. /\ p \in Request /\ req' = [req EXCEPT ![r] = p] /\ p.inv = i
        /\ p.object = q.object /\ p.pc = "set_posted" /\ p.journal = c.journal
    BY <1>h, <1>8, <2>1, <2>2, ReceiveMoves
  <2>4. Held(r, p)
    BY <1>i, <2>1, <2>3 DEF Held, Where, LoadSteps, SaveSteps
  <2>5. ErpTypeOK' /\ AnswerInv'
    BY <1>c, <1>t, <2>1 DEF AnswerInv
  <2>6. QED
    BY <2>1, <2>3, <2>4, <2>5, QuietMoves
<1>9. ASSUME NEW c \in CallOf(r), PostFails(r, c) PROVE Typed'
  <2>1. /\ calls' = calls \ {c} /\ Finish(r)
        /\ UNCHANGED <<memory, tables, troubles, watch,
                   settings, postedByKey, postedByInvoice, minted>>
    BY <1>9 DEF PostFails
  <2>2. ErpTypeOK' /\ AnswerInv'
    BY <1>c, <1>t, <2>1 DEF AnswerInv
  <2>3. QED
    BY <2>1, <2>2, QuietFinish
<1>10. ASSUME NEW c \in CallOf(r), CallTimesOut(r, c) PROVE Typed'
  <2> DEFINE d == [c EXCEPT !.live = FALSE]
  <2>1. /\ calls' = (calls \ {c}) \cup {d} /\ Finish(r) /\ Trouble(i, {})
        /\ c.phase \in {"sent", "create"}
        /\ UNCHANGED <<memory, tables, history, answered,
                   settings, postedByKey, postedByInvoice, minted>>
    BY <1>10 DEF CallTimesOut
  <2>2. c \in Call /\ d \in Call /\ d.phase = c.phase
    BY <1>t DEF CallOf, Call
  <2> HIDE DEF d
  <2>3. ErpTypeOK' /\ AnswerInv'
    BY <1>c, <1>t, <2>1, <2>2 DEF AnswerInv
  <2>4. UNCHANGED <<object, cache, invoiceRow>>
    BY <2>1 DEF memory, tables
  <2>5. Grown /\ CachedInv'
    BY <2>4, <1>s
  <2>6. ThreadInv' /\ req' \in [Callers -> Request]
    BY <2>1, <2>5, FinishStays
  <2>7. troubles' \in 0 .. MaxTroubles /\ disturbed' \in [Invoices -> SUBSET Disturbances]
    BY <1>h, <2>1, TroubleTypes
  <2>8. TypeOK'
    BY <2>1, <2>3, <2>6, <2>7 DEF Typed, TypeOK, memory, tables
  <2>9. QED
    BY <2>3, <2>5, <2>6, <2>8 DEF Typed
<1>11. CASE SetPosted(r)
  <2>1. /\ WriteStatus(r, q.object, "POSTED", "save_journal") /\ q.pc = "set_posted"
        /\ UNCHANGED <<troubles, watch, erpVars>>
    BY <1>11 DEF SetPosted, At
  <2>2. "POSTED" \in Status /\ "save_journal" \in AfterSave
    BY DEF Status, AfterSave
  <2>3. q.journal # NoJournal
    BY <1>h, <2>1 DEF Held, Where, LoadSteps, SaveSteps
  <2>4. QED
    BY <1>h, <1>t, <2>1, <2>2, <2>3, WriteTypes DEF watch
<1>12. CASE SaveJournal(r)
  <2>1. /\ journals' = journals \cup {q.journal} /\ Goto(r, "store_journal")
        /\ UNCHANGED <<object, cache, matches, tables, troubles, watch, erpVars>>
        /\ q.pc = "save_journal" /\ q.pc \in PostSteps /\ "store_journal" \in PostSteps
    BY <1>12 DEF SaveJournal, At, PostSteps
  <2>2. Grown /\ CachedInv'
    BY <2>1, <1>s DEF tables
  <2>3. q.journal # NoJournal
    BY <1>h, <2>1 DEF Held, Where, LoadSteps, SaveSteps
  <2>4. journals' \subseteq Journal
    BY <1>h, <1>t, <2>1, <2>3
  <2>5. cache[i] # "none" /\ object'[i][q.object] # "absent"
    BY <1>i, <2>1
  <2>6. ThreadInv' /\ req' \in [Callers -> Request]
    BY <1>p, <2>1, <2>2, <2>3, <2>5, GotoStays DEF At
  <2>7. TypeOK'
    BY <1>e, <2>1, <2>4, <2>6 DEF Typed, TypeOK, tables, watch
  <2>8. QED
    BY <1>e, <2>1, <2>2, <2>6, <2>7 DEF Typed
<1>13. CASE StoreJournal(r)
  <2>1. /\ WriteJournalRow(r) /\ Finish(r)
        /\ UNCHANGED <<memory, troubles, watch, erpVars>>
    BY <1>13 DEF StoreJournal
  <2>2. /\ journalRows' \subseteq journalRows \cup {q.journal}
        /\ UNCHANGED <<invoiceRow, matchRow>> /\ q.pc = "store_journal"
    BY <2>1 DEF WriteJournalRow, At
  <2>3. q.journal # NoJournal
    BY <1>h, <2>2 DEF Held, Where, LoadSteps, SaveSteps
  <2>4. journalRows' \subseteq Journal
    BY <1>h, <1>t, <2>2, <2>3
  <2>5. Grown /\ CachedInv'
    BY <2>1, <2>2, <1>s DEF memory
  <2>6. ThreadInv' /\ req' \in [Callers -> Request]
    BY <2>1, <2>5, FinishStays
  <2>7. TypeOK'
    BY <1>e, <2>1, <2>2, <2>4, <2>6 DEF Typed, TypeOK, memory, watch
  <2>8. QED
    BY <1>e, <2>1, <2>5, <2>6, <2>7 DEF Typed
<1>14. QED
  BY <1>1, <1>2, <1>3, <1>4, <1>5, <1>6, <1>7, <1>8, <1>9, <1>10, <1>11, <1>12,
     <1>13 DEF PostStep

\* Every step of the ERP keeps its dictionaries and its calls typed, and answers
\* with a journal.
LEMMA ErpStepTypes ==
    ASSUME ErpTypeOK, AnswerInv, NEW c \in calls, ErpStep(c)
    PROVE  ErpTypeOK' /\ AnswerInv'
<1> USE DEF ErpTypeOK, erpVars
<1>1. c \in Call /\ NoJournal \notin Journal
  BY ErpConstants
<1>2. ASSUME NEW p \in Phases, NEW j \in Journal \cup {NoJournal},
             p = "answered" => j # NoJournal, Return(c, p, j)
      PROVE  calls' \subseteq Call /\ AnswerInv'
  <2> DEFINE served == [c EXCEPT !.phase = p, !.journal = j]
  <2>1. served \in Call /\ served.phase = p /\ served.journal = j
    BY <1>1 DEF Call
  <2>2. calls' \subseteq calls \cup {served}
    BY <1>2 DEF Return
  <2> HIDE DEF served
  <2>3. QED
    BY <1>2, <2>1, <2>2 DEF AnswerInv
<1>3. NewJournal(c) \in Journal
  BY <1>1 DEF NewJournal, Journal, Call
<1>4. CASE ErpRefuse(c)
  BY <1>2, <1>4 DEF ErpRefuse, Phases
<1>5. CASE ErpReplayByKey(c)
  BY <1>1, <1>2, <1>5 DEF ErpReplayByKey, Phases, Call
<1>6. CASE ErpReplayByInvoice(c)
  BY <1>1, <1>2, <1>6 DEF ErpReplayByInvoice, Phases, Call
<1>7. CASE ErpMiss(c)
  <2> DEFINE missed == [c EXCEPT !.phase = "create"]
  <2>1. missed \in Call /\ missed.phase = "create"
    BY <1>1 DEF Call, Phases
  <2>2. calls' \subseteq calls \cup {missed}
    BY <1>7 DEF ErpMiss
  <2> HIDE DEF missed
  <2>3. QED
    BY <1>7, <2>1, <2>2 DEF ErpMiss, AnswerInv
<1>8. CASE ErpCreate(c)
  BY <1>1, <1>2, <1>3, <1>8 DEF ErpCreate, Phases, Call
<1>9. QED
  BY <1>4, <1>5, <1>6, <1>7, <1>8 DEF ErpStep

\* The uploads, the new requests, the ERP and the restarts.
LEMMA IngestTypes ==
    ASSUME Typed, NEW i \in Invoices, NEW stored \in BOOLEAN, Ingest(i, stored)
    PROVE  Typed'
<1>1. /\ object \in [Invoices -> [Makers -> Status \cup {"absent"}]]
      /\ cache \in [Invoices -> Makers \cup {"none"}]
      /\ invoiceRow \in [Invoices -> Status \cup {"absent"}]
      /\ "upload" \in Makers /\ "EXTRACTED" \in Status /\ "EXTRACTED" # "absent"
  BY DEF Typed, TypeOK, Makers, Status
<1>2. /\ object' = [object EXCEPT ![i]["upload"] = "EXTRACTED"]
      /\ cache' = [cache EXCEPT ![i] = "upload"]
      /\ invoiceRow' \in [Invoices -> Status \cup {"absent"}]
      /\ invoiceRow'[i] \in {"EXTRACTED", invoiceRow[i]}
      /\ \A k \in Invoices \ {i} : invoiceRow'[k] = invoiceRow[k]
  BY <1>1 DEF Ingest
<1>3. object' \in [Invoices -> [Makers -> Status \cup {"absent"}]]
  BY <1>1, <1>2
<1>4. cache' \in [Invoices -> Makers \cup {"none"}]
  BY <1>1, <1>2
<1>5. object'[i]["upload"] = "EXTRACTED" /\ cache'[i] = "upload"
  BY <1>1, <1>2
<1>6. Grown
  <2>1. ASSUME NEW k \in Invoices, NEW m \in Makers, object[k][m] # "absent"
        PROVE  object'[k][m] # "absent"
    BY <1>1, <1>2, <2>1
  <2>2. \A k \in Invoices : cache[k] # "none" => cache'[k] # "none"
    BY <1>1, <1>2
  <2>3. \A k \in Invoices : invoiceRow[k] # "absent" => invoiceRow'[k] # "absent"
    BY <1>1, <1>2
  <2>4. QED
    BY <2>1, <2>2, <2>3 DEF Grown
<1>7. CachedInv'
  BY <1>1, <1>2, <1>5 DEF Typed, CachedInv
<1>8. UNCHANGED <<matches, journals, matchRow, journalRows, req, history, answered,
                  erpVars>>
  BY DEF Ingest
<1>9. ThreadInv'
  <2>1. ASSUME NEW s \in Callers
        PROVE  Held(s, req[s])'
    <3>1. PICK p \in Request : p = req[s]
      BY DEF Typed, TypeOK
    <3>2. Held(s, p)
      BY <3>1 DEF Typed, ThreadInv
    <3>3. Held(s, p)'
      BY <1>6, <3>2, HeldStays
    <3>4. p = req'[s]
      BY <1>8, <3>1
    <3>5. QED
      BY <3>3, <3>4 DEF Held, Where
  <2>2. QED
    BY <2>1 DEF ThreadInv
<1>10. troubles' \in 0 .. MaxTroubles /\ disturbed' \in [Invoices -> SUBSET Disturbances]
  <2>1. CASE stored
    BY <2>1 DEF Ingest, Typed, TypeOK
  <2>2. CASE ~stored
    <3>1. Trouble(i, {"failed_write"})
      BY <2>2 DEF Ingest
    <3>2. QED
      BY <3>1, TroubleTypes DEF Disturbances
  <2>3. QED
    BY <2>1, <2>2
<1>11. ErpTypeOK' /\ AnswerInv'
  BY <1>8, ErpStays
<1>12. TypeOK'
  BY <1>2, <1>3, <1>4, <1>8, <1>10, <1>11 DEF Typed, TypeOK
<1>13. QED
  BY <1>7, <1>9, <1>11, <1>12 DEF Typed

LEMMA NewRequestTypes ==
    ASSUME Typed, NEW r \in Callers, NEW i \in Invoices, NewRequest(r, i)
    PROVE  Typed'
<1>1. /\ req \in [Callers -> Request] /\ cache[i] \in Makers \cup {"none"}
      /\ r \in Makers /\ r # "none"
  BY DurableConstants DEF Typed, TypeOK, Makers
<1>2. PICK p : p = req'[r]
  OBVIOUS
<1>e. /\ Exists(i) /\ req'[r] \in Request /\ req' = [req EXCEPT ![r] = req'[r]]
      /\ req'[r].inv = i
      /\ UNCHANGED <<memory, tables, history, answered, erpVars>>
      /\ IF Busy(i) THEN Trouble(i, {"overlap"}) ELSE UNCHANGED <<troubles, disturbed>>
      /\ IF cache[i] # "none"
         THEN req'[r].pc \in Starts /\ req'[r].object = cache[i]
         ELSE /\ req'[r].pc = "select_invoice" /\ req'[r].object = r
              /\ req'[r].next \in Starts
  BY <1>1, EnterMoves
<1>3. /\ p \in Request /\ req' = [req EXCEPT ![r] = p] /\ p.inv = i /\ Exists(i)
      /\ UNCHANGED <<memory, tables, history, answered, erpVars>>
      /\ IF Busy(i) THEN Trouble(i, {"overlap"}) ELSE UNCHANGED <<troubles, disturbed>>
      /\ IF cache[i] # "none"
         THEN p.pc \in Starts /\ p.object = cache[i]
         ELSE p.pc = "select_invoice" /\ p.object = r /\ p.next \in Starts
  BY <1>2, <1>e
<1>4. UNCHANGED <<object, cache, invoiceRow>>
  BY <1>3 DEF memory, tables
<1>5. Grown /\ CachedInv'
  BY <1>4 DEF Grown, Typed, CachedInv
<1>6. Held(r, p)'
  <2>1. CASE cache[i] # "none"
    <3>1. object[i][cache[i]] # "absent"
      BY <2>1 DEF Typed, CachedInv
    <3>2. QED
      BY <1>3, <1>4, <2>1, <3>1 DEF Held, Where, Starts, LoadSteps, SaveSteps
  <2>2. CASE cache[i] = "none"
    <3>1. invoiceRow[i] # "absent"
      BY <1>3, <2>2 DEF Exists
    <3>2. QED
      BY <1>3, <1>4, <2>2, <3>1 DEF Held, Where, Starts, LoadSteps, SaveSteps
  <2>3. QED
    BY <2>1, <2>2
<1>7. ThreadInv' /\ req' \in [Callers -> Request]
  BY <1>3, <1>5, <1>6, ThreadsStay
<1>8. troubles' \in 0 .. MaxTroubles /\ disturbed' \in [Invoices -> SUBSET Disturbances]
  <2>1. CASE Trouble(i, {"overlap"})
    BY <2>1, TroubleTypes DEF Disturbances
  <2>2. CASE UNCHANGED <<troubles, disturbed>>
    BY <2>2 DEF Typed, TypeOK
  <2>3. QED
    BY <1>3, <2>1, <2>2
<1>9. ErpTypeOK' /\ AnswerInv'
  BY <1>3, ErpStays
<1>10. TypeOK'
  BY <1>3, <1>7, <1>8, <1>9 DEF Typed, TypeOK, memory, tables
<1>11. QED
  BY <1>5, <1>7, <1>9, <1>10 DEF Typed

LEMMA ErpServesTypes ==
    ASSUME Typed, ErpServes
    PROVE  Typed'
<1>1. PICK c \in calls : ErpStep(c) /\ UNCHANGED <<memory, tables, req, troubles, watch>>
  BY DEF ErpServes
<1>2. ErpTypeOK' /\ AnswerInv'
  BY <1>1, ErpStepTypes DEF Typed, TypeOK
<1>3. ThreadInv' /\ CachedInv'
  <2>1. UNCHANGED <<object, cache, invoiceRow, req>>
    BY <1>1 DEF memory, tables
  <2>2. QED
    BY <2>1 DEF Typed, ThreadInv, CachedInv, Held, Where
<1>4. TypeOK'
  BY <1>1, <1>2 DEF Typed, TypeOK, memory, tables, watch
<1>5. QED
  BY <1>2, <1>3, <1>4 DEF Typed

LEMMA RestartTypes ==
    ASSUME Typed, Restart
    PROVE  Typed'
<1>1. /\ object' = NoObjects /\ cache' = NoCache /\ matches' = NoMatches
      /\ journals' = {} /\ req' = NoRequests
      /\ UNCHANGED <<tables, history, answered, settings, postedByKey,
                     postedByInvoice, minted>>
  BY DEF Restart
<1>2. /\ object' \in [Invoices -> [Makers -> Status \cup {"absent"}]]
      /\ cache' \in [Invoices -> Makers \cup {"none"}]
      /\ matches' \in [Invoices -> SUBSET BOOLEAN]
      /\ req' \in [Callers -> Request]
  BY <1>1, RequestTypes DEF NoObjects, NoCache, NoMatches, NoRequests
<1>3. ThreadInv'
  <2>1. ASSUME NEW s \in Callers
        PROVE  req'[s] = IdleRequest
    BY <1>1 DEF NoRequests
  <2>2. QED
    BY <2>1, IdleHeld DEF ThreadInv, Held, Where
<1>4. CachedInv'
  BY <1>1 DEF CachedInv, NoCache
<1>5. calls' \subseteq Call /\ AnswerInv'
  <2>1. ASSUME NEW d \in calls'
        PROVE  d \in Call /\ d.phase # "answered"
    <3>1. PICK c \in calls : /\ c.phase \in {"sent", "create"}
                             /\ d = [c EXCEPT !.live = FALSE]
      BY DEF Restart
    <3>2. c \in Call
      BY DEF Typed, TypeOK, ErpTypeOK
    <3>3. QED
      BY <3>1, <3>2 DEF Call
  <2>2. QED
    BY <2>1 DEF AnswerInv
<1>6. ErpTypeOK'
  BY <1>1, <1>5 DEF Typed, TypeOK, ErpTypeOK
<1>7. troubles' \in 0 .. MaxTroubles
  BY DurableConstants DEF Restart, Typed, TypeOK
<1>8. disturbed' \in [Invoices -> SUBSET Disturbances]
  BY DEF Restart, Typed, TypeOK, Disturbances
<1>9. TypeOK'
  BY <1>1, <1>2, <1>6, <1>7, <1>8 DEF Typed, TypeOK, tables
<1>10. QED
  BY <1>3, <1>4, <1>5, <1>9 DEF Typed

\* Initially there is nothing to rely on.
LEMMA TypedInit == Init => Typed
<1> SUFFICES ASSUME Init PROVE Typed
  OBVIOUS
<1>1. ErpTypeOK /\ AnswerInv
  BY DEF Init, ErpInit, ErpTypeOK, AnswerInv
<1>2. req = [r \in Callers |-> IdleRequest] /\ IdleRequest \in Request
  BY RequestTypes DEF Init, NoRequests
<1>3. ThreadInv
  BY <1>2, IdleHeld DEF ThreadInv
<1>4. CachedInv
  BY DEF Init, NoCache, CachedInv
<1>5. troubles \in 0 .. MaxTroubles
  BY DurableConstants DEF Init
<1>6. TypeOK
  BY <1>1, <1>2, <1>5 DEF Init, TypeOK, NoObjects, NoCache, NoMatches
<1>7. QED
  BY <1>1, <1>3, <1>4, <1>6 DEF Typed

\* Every step preserves the invariant.
LEMMA TypedStep == Typed /\ [Next]_vars => Typed'
<1> SUFFICES ASSUME Typed, [Next]_vars PROVE Typed'
  OBVIOUS
<1>1. CASE UNCHANGED vars
  <2>1. UNCHANGED <<memory, tables, req, troubles, watch>> /\ UNCHANGED erpVars
    BY <1>1 DEF vars
  <2>2. ErpTypeOK' /\ AnswerInv'
    BY <2>1, ErpStays
  <2>3. ThreadInv' /\ CachedInv'
    BY <2>1 DEF Typed, ThreadInv, CachedInv, Held, Where, memory, tables
  <2>4. TypeOK'
    BY <2>1, <2>2 DEF Typed, TypeOK, memory, tables, watch
  <2>5. QED
    BY <2>2, <2>3, <2>4 DEF Typed
<1>2. QED
  BY <1>1, SaveStepTypes, MatchStepTypes, DecideStepTypes, PostStepTypes,
     IngestTypes, NewRequestTypes, ErpServesTypes, RestartTypes DEF Next

LEMMA TypedInvariant == Spec => []Typed
BY TypedInit, TypedStep, PTL DEF Spec

\* For any invoices, keys, threads and number of troubles every variable has its
\* type: no handler uses an invoice object nobody made or an absent row, and no
\* journal that was never answered is saved (repository.py:276-298, 316-326).
THEOREM TypeCorrect == Spec => []TypeOK
<1>1. Typed => TypeOK
  BY DEF Typed
<1>2. QED
  BY TypedInvariant, <1>1, PTL

---------------------------------------------------------------------------
(* The durable workflow implements the abstract payment.                   *)

HandlerStep(r) == SaveStep(r) \/ MatchStep(r) \/ DecideStep(r) \/ PostStep(r)

\* Nothing that happened to an invoice is undone, and the settings are frozen.
Gathered ==
    /\ settings' = settings
    /\ \A i \in Invoices : history[i] \subseteq history'[i]

LEMMA HistoryGrows ==
    ASSUME Typed, [Next]_vars
    PROVE  Gathered
<1> USE DEF Gathered
<1>h. history \in [Invoices -> SUBSET Events]
  BY DEF Typed, TypeOK
<1>1. ASSUME NEW r \in Callers, SaveStep(r) PROVE Gathered
  BY <1>1 DEF SaveStep, SelectInvoice, CacheInvoice, Serialise, Commit, Done, ReadFails,
              WriteFails, watch, erpVars
<1>2. ASSUME NEW r \in Callers, MatchStep(r) PROVE Gathered
  <2>1. CASE SaveMatch(r)
    BY <1>h, <2>1 DEF SaveMatch, erpVars
  <2>2. CASE ~SaveMatch(r)
    BY <1>2, <2>2 DEF MatchStep, MatchGuard, RunMatch, MatchFails, StoreMatch,
              SetMatchStatus, EvaluateMatch, Finalize, watch, erpVars
  <2>3. QED
    BY <2>1, <2>2
<1>3. ASSUME NEW r \in Callers, DecideStep(r) PROVE Gathered
  BY <1>h, <1>3 DEF DecideStep, DecideGuard, RecordDecision, AnswerDecision, watch, erpVars
<1>4. ASSUME NEW r \in Callers, PostStep(r) PROVE Gathered
  BY <1>4 DEF PostStep, ReplayJournal, NoKnownJournal, LatestMatch, NoMatch, CacheMatch,
              PostGuard, SendJournal, ReceiveJournal, PostFails, CallTimesOut, SetPosted,
              SaveJournal, StoreJournal, watch, erpVars
<1>5. ASSUME NEW i \in Invoices, NEW stored \in BOOLEAN, Ingest(i, stored) PROVE Gathered
  BY <1>5 DEF Ingest, erpVars
<1>6. ASSUME NEW r \in Callers, NEW i \in Invoices, NewRequest(r, i) PROVE Gathered
  BY <1>6 DEF NewRequest, StartMatch, StartPost, StartDecision, Enter, erpVars
<1>7. CASE ErpServes
  BY <1>7 DEF ErpServes, watch, ErpStep, ErpRefuse, ErpReplayByKey, ErpReplayByInvoice,
              ErpMiss, ErpCreate
<1>8. CASE Restart
  BY <1>8 DEF Restart
<1>9. CASE UNCHANGED vars
  BY <1>9 DEF vars, watch, erpVars
<1>10. QED
  BY <1>1, <1>2, <1>3, <1>4, <1>5, <1>6, <1>7, <1>8, <1>9 DEF Next

HumanApproved(i) == "human_approved" \in history[i]
CleanMatch(i) == "clean_match" \in history[i]
Authorised(i) == HumanApproved(i) \/ (~settings.requireApproval /\ CleanMatch(i))

\* What post() checked may be stale when the ERP acts, come from a row, or from
\* an object that is cached no more, so the authority is carried along: every
\* copy of an APPROVED status, in whatever object, row or serialised parameter,
\* and every copy of a clean match has the event behind it.
Evidenced(q) ==
    /\ q.row = "APPROVED" => HumanApproved(q.inv)
    /\ q.matched /\ q.pc # "save_match" => CleanMatch(q.inv)
    /\ q.pc \in {"erp_call", "await_erp"} => Authorised(q.inv)

ObjectsEvidenced ==
    \A i \in Invoices : \A m \in Makers : object[i][m] = "APPROVED" => HumanApproved(i)

RowsEvidenced == \A i \in Invoices : invoiceRow[i] = "APPROVED" => HumanApproved(i)

MatchesEvidenced ==
    \A i \in Invoices : TRUE \in matches[i] \cup matchRow[i] => CleanMatch(i)

ThreadsEvidenced == \A r \in Callers : Evidenced(req[r])

CallsAuthorised == \A c \in calls : Authorised(c.inv)

PaidAuthorised == \A i \in Invoices : minted[i] > 0 => Authorised(i)

EvidenceInv ==
    /\ ObjectsEvidenced
    /\ RowsEvidenced
    /\ MatchesEvidenced
    /\ ThreadsEvidenced
    /\ CallsAuthorised
    /\ PaidAuthorised

\* Evidence stays.
LEMMA EvidenceStays ==
    ASSUME Typed, Gathered
    PROVE  /\ \A i \in Invoices :
                /\ HumanApproved(i) => HumanApproved(i)'
                /\ CleanMatch(i) => CleanMatch(i)'
                /\ Authorised(i) => Authorised(i)'
           /\ \A q \in Request : Evidenced(q) => Evidenced(q)'
<1>1. \A i \in Invoices :
         /\ HumanApproved(i) => HumanApproved(i)'
         /\ CleanMatch(i) => CleanMatch(i)'
         /\ Authorised(i) => Authorised(i)'
  BY DEF Gathered, HumanApproved, CleanMatch, Authorised
<1>2. \A q \in Request : q.inv \in Invoices
  BY DEF Request
<1>3. QED
  BY <1>1, <1>2 DEF Evidenced

\* An idle thread carries nothing.
LEMMA IdleEvidenced == Evidenced(IdleRequest) /\ Evidenced(IdleRequest)'
BY RequestTypes DEF Evidenced

\* What the other threads carry they go on to carry when one of them moves.
LEMMA ThreadsStayEvidenced ==
    ASSUME Typed, ThreadsEvidenced, Gathered, NEW r \in Callers, NEW p \in Request,
           req' = [req EXCEPT ![r] = p], Evidenced(p)'
    PROVE  ThreadsEvidenced'
<1>1. req \in [Callers -> Request]
  BY DEF Typed, TypeOK
<1>2. ASSUME NEW s \in Callers
      PROVE  \E q \in Request : q = req'[s] /\ Evidenced(q)'
  <2>1. CASE s = r
    BY <1>1, <2>1
  <2>2. CASE s # r
    <3>1. PICK q \in Request : q = req[s]
      BY <1>1
    <3>2. Evidenced(q)
      BY <3>1 DEF ThreadsEvidenced
    <3>3. q = req'[s]
      BY <1>1, <2>2, <3>1
    <3>4. QED
      BY <3>2, <3>3, EvidenceStays
  <2>3. QED
    BY <2>1, <2>2
<1>3. QED
  BY <1>2 DEF ThreadsEvidenced, Evidenced

\* A thread that ends its request.
LEMMA FinishEvidenced ==
    ASSUME Typed, ThreadsEvidenced, Gathered, NEW r \in Callers, Finish(r)
    PROVE  ThreadsEvidenced'
<1>1. PICK p \in Request : p = IdleRequest
  BY RequestTypes
<1>2. Evidenced(p)'
  BY <1>1, IdleEvidenced
<1>3. req' = [req EXCEPT ![r] = p]
  BY <1>1 DEF Finish
<1>4. QED
  BY <1>2, <1>3, ThreadsStayEvidenced

\* A thread that goes on: only the ERP call needs more than it carried.
LEMMA GotoEvidenced ==
    ASSUME Typed, ThreadsEvidenced, Gathered, NEW r \in Callers, NEW pc \in Steps,
           Goto(r, pc), req[r].pc = "save_match" => CleanMatch(Inv(r))' \/ ~req[r].matched,
           pc \in {"erp_call", "await_erp"} => Authorised(Inv(r))
    PROVE  ThreadsEvidenced'
<1>1. req \in [Callers -> Request] /\ req[r] \in Request /\ Inv(r) = req[r].inv
      /\ Inv(r) \in Invoices
  BY DEF Typed, TypeOK, Inv, Request
<1>2. PICK p : p = req'[r]
  OBVIOUS
<1>e. /\ req'[r] \in Request /\ req' = [req EXCEPT ![r] = req'[r]] /\ req'[r].pc = pc
      /\ req'[r].inv = req[r].inv /\ req'[r].row = req[r].row
      /\ req'[r].matched = req[r].matched
  BY <1>1, GotoMoves
<1>3. /\ p \in Request /\ req' = [req EXCEPT ![r] = p] /\ p.pc = pc
      /\ p.inv = Inv(r) /\ p.row = req[r].row /\ p.matched = req[r].matched
  BY <1>1, <1>2, <1>e
<1>4. Evidenced(req[r])
  BY DEF ThreadsEvidenced
<1>5. PICK i \in Invoices : i = Inv(r)
  BY <1>1
<1>6. /\ p.row = "APPROVED" => HumanApproved(i)
      /\ p.matched => CleanMatch(i) \/ (req[r].pc = "save_match")
      /\ p.pc \in {"erp_call", "await_erp"} => Authorised(i)
  BY <1>1, <1>3, <1>4, <1>5 DEF Evidenced
<1>7. p.matched => CleanMatch(i)'
  BY <1>3, <1>5, <1>6, EvidenceStays DEF CleanMatch, Inv
<1>8. Evidenced(p)'
  BY <1>3, <1>5, <1>6, <1>7, EvidenceStays DEF Evidenced
<1>9. QED
  BY <1>3, <1>8, ThreadsStayEvidenced

\* What a step leaves alone keeps its evidence.
LEMMA EvidenceKept ==
    ASSUME Typed, EvidenceInv, Gathered
    PROVE  /\ UNCHANGED object => ObjectsEvidenced'
           /\ UNCHANGED invoiceRow => RowsEvidenced'
           /\ UNCHANGED <<matches, matchRow>> => MatchesEvidenced'
           /\ UNCHANGED req => ThreadsEvidenced'
           /\ UNCHANGED calls => CallsAuthorised'
           /\ UNCHANGED minted => PaidAuthorised'
<1>1. UNCHANGED object => ObjectsEvidenced'
  BY EvidenceStays DEF EvidenceInv, ObjectsEvidenced
<1>2. UNCHANGED invoiceRow => RowsEvidenced'
  BY EvidenceStays DEF EvidenceInv, RowsEvidenced
<1>3. UNCHANGED <<matches, matchRow>> => MatchesEvidenced'
  BY EvidenceStays DEF EvidenceInv, MatchesEvidenced
<1>4. UNCHANGED req => ThreadsEvidenced'
  <2>1. \A q \in Request : Evidenced(q) => Evidenced(q)'
    BY EvidenceStays
  <2>2. ASSUME UNCHANGED req, NEW s \in Callers
        PROVE  Evidenced(req[s])'
    <3>1. PICK q \in Request : q = req[s]
      BY DEF Typed, TypeOK
    <3>2. Evidenced(q)'
      BY <2>1, <3>1 DEF EvidenceInv, ThreadsEvidenced
    <3>3. QED
      BY <2>2, <3>1, <3>2 DEF Evidenced
  <2>3. QED
    BY <2>2 DEF ThreadsEvidenced
<1>5. UNCHANGED calls => CallsAuthorised'
  <2>1. \A c \in calls : c.inv \in Invoices
    BY DEF Typed, TypeOK, ErpTypeOK, Call
  <2>2. QED
    BY <2>1, EvidenceStays DEF EvidenceInv, CallsAuthorised
<1>6. UNCHANGED minted => PaidAuthorised'
  BY EvidenceStays DEF EvidenceInv, PaidAuthorised
<1>7. QED
  BY <1>1, <1>2, <1>3, <1>4, <1>5, <1>6

\* A status is written: an APPROVED with its reason.
LEMMA WriteEvidenced ==
    ASSUME Typed, EvidenceInv, Gathered, NEW r \in Callers, NEW m \in Makers,
           NEW st \in Status, NEW next \in Steps, WriteStatus(r, m, st, next),
           req[r].pc # "save_match",
           NEW i \in Invoices, i = Inv(r), st = "APPROVED" => HumanApproved(i)',
           UNCHANGED erpVars
    PROVE  EvidenceInv'
<1>1. /\ req \in [Callers -> Request] /\ req[r] \in Request /\ i = req[r].inv
      /\ object \in [Invoices -> [Makers -> Status \cup {"absent"}]]
  BY DEF Typed, TypeOK, Inv
<1>2. /\ object' = [object EXCEPT ![i][m] = st]
      /\ UNCHANGED <<matches, journals, tables>>
  BY DEF WriteStatus
<1>3. ObjectsEvidenced'
  <2>1. ASSUME NEW k \in Invoices, NEW n \in Makers, object'[k][n] = "APPROVED"
        PROVE  object[k][n] = "APPROVED" \/ HumanApproved(k)'
    <3>1. CASE k = i /\ n = m
      BY <1>1, <1>2, <2>1, <3>1
    <3>2. CASE ~(k = i /\ n = m)
      BY <1>1, <1>2, <2>1, <3>2
    <3>3. QED
      BY <3>1, <3>2
  <2>2. QED
    BY <2>1, EvidenceStays DEF EvidenceInv, ObjectsEvidenced
<1>4. PICK p : p = req'[r]
  OBVIOUS
<1>e. /\ req'[r] \in Request /\ req' = [req EXCEPT ![r] = req'[r]]
      /\ req'[r].pc = "serialise" /\ req'[r].inv = i /\ req'[r].row = req[r].row
      /\ req'[r].matched = req[r].matched
  BY <1>1, WriteMoves
<1>5. /\ p \in Request /\ req' = [req EXCEPT ![r] = p] /\ p.pc = "serialise"
      /\ p.inv = i /\ p.row = req[r].row /\ p.matched = req[r].matched
  BY <1>4, <1>e
<1>6. Evidenced(req[r])
  BY DEF EvidenceInv, ThreadsEvidenced
<1>7. Evidenced(p)
  BY <1>1, <1>5, <1>6 DEF Evidenced
<1>8. ThreadsEvidenced'
  BY <1>5, <1>7, EvidenceStays, ThreadsStayEvidenced DEF EvidenceInv
<1>9. QED
  BY <1>2, <1>3, <1>8, EvidenceKept DEF EvidenceInv, tables, erpVars

\* A step that leaves everything but its thread as it is.
LEMMA QuietEvidenced ==
    ASSUME Typed, EvidenceInv, Gathered, ThreadsEvidenced',
           UNCHANGED <<object, matches, tables, erpVars>>
    PROVE  EvidenceInv'
BY EvidenceKept DEF EvidenceInv, tables, erpVars

\* Loading and saving: the status moves between object, parameter and row.
LEMMA SaveStepEvidence ==
    ASSUME Typed, EvidenceInv, Gathered, NEW r \in Callers, SaveStep(r)
    PROVE  EvidenceInv'
<1> DEFINE q == req[r]
<1>h. /\ q \in Request /\ req \in [Callers -> Request] /\ Inv(r) \in Invoices
      /\ Inv(r) = q.inv /\ q.object \in Makers /\ Held(r, q) /\ Evidenced(q)
  BY InHandler DEF EvidenceInv, ThreadsEvidenced
<1>t. /\ object \in [Invoices -> [Makers -> Status \cup {"absent"}]]
      /\ invoiceRow \in [Invoices -> Status \cup {"absent"}]
      /\ matchRow \in [Invoices -> SUBSET BOOLEAN]
      /\ ThreadsEvidenced
  BY DEF Typed, TypeOK, EvidenceInv
<1>i. PICK i \in Invoices : i = Inv(r)
  BY <1>h
<1>1. CASE SelectInvoice(r)
  <2>1. /\ object' = [object EXCEPT ![i][r] = invoiceRow[i]]
        /\ Goto(r, "cache_invoice") /\ q.pc = "select_invoice"
        /\ "cache_invoice" \in Steps
        /\ UNCHANGED <<matches, tables, erpVars>>
    BY <1>1, <1>i DEF SelectInvoice, At, Steps, LoadSteps
  <2>2. ObjectsEvidenced'
    <3>1. r \in Makers
      BY DEF Makers
    <3>2. ASSUME NEW k \in Invoices, NEW n \in Makers, object'[k][n] = "APPROVED"
          PROVE  object[k][n] = "APPROVED" \/ invoiceRow[k] = "APPROVED"
      <4>1. CASE k = i /\ n = r
        BY <1>t, <2>1, <3>1, <3>2, <4>1
      <4>2. CASE ~(k = i /\ n = r)
        BY <1>t, <2>1, <3>1, <3>2, <4>2
      <4>3. QED
        BY <4>1, <4>2
    <3>3. QED
      BY <3>2, EvidenceStays DEF EvidenceInv, ObjectsEvidenced, RowsEvidenced
  <2>3. ThreadsEvidenced'
    BY <1>t, <2>1, GotoEvidenced
  <2>4. QED
    BY <2>1, <2>2, <2>3, EvidenceKept DEF EvidenceInv, tables, erpVars
<1>r. ASSUME Resume(r), q.pc \in {"cache_invoice", "commit"}
      PROVE  ThreadsEvidenced'
  <2>1. q.next \notin {"erp_call", "await_erp", "save_match"}
    BY <1>h, <1>r DEF Held, LoadSteps, SaveSteps, Starts, AfterSave
  <2>2. PICK p : p = req'[r]
    OBVIOUS
  <2>3. /\ req'[r] \in Request /\ req' = [req EXCEPT ![r] = req'[r]]
        /\ req'[r].pc = q.next /\ req'[r].inv = q.inv /\ req'[r].row = "EXTRACTED"
        /\ req'[r].matched = q.matched
    BY <1>h, <1>r, ResumeMoves
  <2>4. /\ p \in Request /\ req' = [req EXCEPT ![r] = p]
        /\ p.pc = q.next /\ p.inv = q.inv /\ p.row = "EXTRACTED" /\ p.matched = q.matched
    BY <2>2, <2>3
  <2>5. Evidenced(p)
    BY <1>h, <1>r, <2>1, <2>4 DEF Evidenced
  <2>6. QED
    BY <1>t, <2>4, <2>5, EvidenceStays, ThreadsStayEvidenced
<1>2. CASE CacheInvoice(r)
  <2>1. /\ Resume(r) /\ q.pc = "cache_invoice"
        /\ UNCHANGED <<object, matches, tables, erpVars>>
    BY <1>2 DEF CacheInvoice, At
  <2>2. QED
    BY <1>r, <2>1, QuietEvidenced
<1>3. CASE Serialise(r)
  <2>1. q.pc = "serialise" /\ UNCHANGED <<memory, tables, erpVars>>
    BY <1>3 DEF Serialise, At
  <2>2. HeldStatus(r) \in Status
    BY <2>1, InHandler DEF LoadSteps
  <2>3. PICK p : p = req'[r]
    OBVIOUS
  <2>4. /\ req'[r] \in Request /\ req' = [req EXCEPT ![r] = req'[r]]
        /\ req'[r].pc = "commit" /\ req'[r].inv = q.inv /\ req'[r].row = HeldStatus(r)
        /\ req'[r].matched = q.matched
    BY <1>3, <1>h, <2>2, SerialiseMoves
  <2>5. /\ p \in Request /\ req' = [req EXCEPT ![r] = p] /\ p.pc = "commit"
        /\ p.inv = q.inv /\ p.row = HeldStatus(r) /\ p.matched = q.matched
    BY <2>3, <2>4
  <2>6. p.row = "APPROVED" => HumanApproved(p.inv)
    BY <1>h, <2>5 DEF HeldStatus, EvidenceInv, ObjectsEvidenced
  <2>7. Evidenced(p)
    BY <1>h, <2>1, <2>5, <2>6 DEF Evidenced
  <2>8. ThreadsEvidenced'
    BY <1>t, <2>5, <2>7, EvidenceStays, ThreadsStayEvidenced
  <2>9. QED
    BY <2>1, <2>8, QuietEvidenced DEF memory
<1>w. ASSUME WriteInvoiceRow(r)
      PROVE  RowsEvidenced'
  <2>1. invoiceRow' = [invoiceRow EXCEPT ![i] = q.row]
    BY <1>i, <1>w DEF WriteInvoiceRow
  <2>2. ASSUME NEW k \in Invoices, invoiceRow'[k] = "APPROVED"
        PROVE  invoiceRow[k] = "APPROVED" \/ (k = i /\ q.row = "APPROVED")
    BY <1>t, <2>1, <2>2
  <2>3. q.row = "APPROVED" => HumanApproved(i)
    BY <1>h, <1>i DEF Evidenced
  <2>4. QED
    BY <2>2, <2>3, EvidenceStays DEF EvidenceInv, RowsEvidenced
<1>4. CASE Commit(r)
  <2>1. /\ WriteInvoiceRow(r) /\ Resume(r) /\ q.pc = "commit"
        /\ UNCHANGED <<memory, matchRow, erpVars>>
    BY <1>4 DEF Commit, WriteInvoiceRow, At
  <2>2. ThreadsEvidenced' /\ RowsEvidenced'
    BY <1>r, <1>w, <2>1
  <2>3. QED
    BY <2>1, <2>2, EvidenceKept DEF EvidenceInv, memory, erpVars
<1>5. CASE Done(r) \/ ReadFails(r)
  <2>1. Finish(r) /\ UNCHANGED <<memory, tables, erpVars>>
    BY <1>5 DEF Done, ReadFails
  <2>2. QED
    BY <1>t, <2>1, FinishEvidenced, QuietEvidenced DEF memory
<1>6. CASE WriteFails(r)
  <2>1. Finish(r) /\ UNCHANGED <<memory, erpVars>>
    BY <1>6 DEF WriteFails
  <2>2. ThreadsEvidenced'
    BY <1>t, <2>1, FinishEvidenced
  <2>3. ObjectsEvidenced' /\ CallsAuthorised' /\ PaidAuthorised'
    BY <2>1, EvidenceKept DEF memory, erpVars
  <2>4. CASE UNCHANGED tables \/ WriteJournalRow(r)
    BY <2>1, <2>2, <2>3, <2>4, EvidenceKept
    DEF EvidenceInv, memory, tables, WriteJournalRow
  <2>5. CASE WriteInvoiceRow(r)
    BY <1>w, <2>1, <2>2, <2>3, <2>5, EvidenceKept DEF EvidenceInv, memory, WriteInvoiceRow
  <2>6. CASE WriteMatchRow(r)
    <3>1. matchRow' = [matchRow EXCEPT ![i] = {q.matched}] /\ q.pc = "store_match"
          /\ UNCHANGED <<matches, invoiceRow>>
      BY <1>i, <2>1, <2>6 DEF WriteMatchRow, At, memory
    <3>2. q.matched => CleanMatch(i)
      BY <1>h, <1>i, <3>1 DEF Evidenced
    <3>3. ASSUME NEW k \in Invoices, TRUE \in matches'[k] \cup matchRow'[k]
          PROVE  TRUE \in matches[k] \cup matchRow[k] \/ CleanMatch(k)
      BY <1>t, <3>1, <3>2, <3>3
    <3>4. MatchesEvidenced'
      BY <3>3, EvidenceStays DEF EvidenceInv, MatchesEvidenced
    <3>5. QED
      BY <2>2, <2>3, <3>1, <3>4, EvidenceKept DEF EvidenceInv
  <2>7. QED
    BY <1>6, <2>4, <2>5, <2>6 DEF WriteFails
<1>7. QED
  BY <1>1, <1>2, <1>3, <1>4, <1>5, <1>6 DEF SaveStep

\* match(): a clean match is recorded before it counts.
LEMMA MatchStepEvidence ==
    ASSUME Typed, EvidenceInv, Gathered, NEW r \in Callers, MatchStep(r)
    PROVE  EvidenceInv'
<1> DEFINE q == req[r]
<1>h. /\ q \in Request /\ req \in [Callers -> Request] /\ Inv(r) \in Invoices
      /\ Inv(r) = q.inv /\ q.object \in Makers /\ Held(r, q) /\ Evidenced(q)
      /\ q.matched \in BOOLEAN
  BY InHandler DEF EvidenceInv, ThreadsEvidenced, Request
<1>t. /\ matches \in [Invoices -> SUBSET BOOLEAN]
      /\ matchRow \in [Invoices -> SUBSET BOOLEAN]
      /\ history \in [Invoices -> SUBSET Events]
      /\ ThreadsEvidenced
  BY DEF Typed, TypeOK, EvidenceInv
<1>i. PICK i \in Invoices : i = Inv(r)
  BY <1>h
<1>1. CASE MatchGuard(r)
  <2>1. /\ (Finish(r) \/ Goto(r, "run_match")) /\ q.pc = "match_guard"
        /\ "run_match" \in Steps /\ UNCHANGED <<memory, tables, erpVars>>
    BY <1>1 DEF MatchGuard, At, Steps, MatchSteps
  <2>2. ThreadsEvidenced'
    BY <1>t, <2>1, FinishEvidenced, GotoEvidenced
  <2>3. QED
    BY <2>1, <2>2, QuietEvidenced DEF memory
<1>2. CASE RunMatch(r)
  <2>1. q.pc = "run_match" /\ UNCHANGED <<memory, tables, erpVars>>
    BY <1>2 DEF RunMatch, At
  <2>2. cache[Inv(r)] \in Makers
    BY <2>1, InHandler DEF LoadSteps
  <2>3. PICK p : p = req'[r]
    OBVIOUS
  <2>4. /\ req'[r] \in Request /\ req' = [req EXCEPT ![r] = req'[r]]
        /\ req'[r].pc = "save_match" /\ req'[r].inv = q.inv /\ req'[r].row = q.row
    BY <1>2, <1>h, <2>2, RunMatchMoves
  <2>5. /\ p \in Request /\ req' = [req EXCEPT ![r] = p] /\ p.pc = "save_match"
        /\ p.inv = q.inv /\ p.row = q.row
    BY <2>3, <2>4
  <2>6. Evidenced(p)
    BY <1>h, <2>5 DEF Evidenced
  <2>7. ThreadsEvidenced'
    BY <1>t, <2>5, <2>6, EvidenceStays, ThreadsStayEvidenced
  <2>8. QED
    BY <2>1, <2>7, QuietEvidenced DEF memory
<1>3. CASE MatchFails(r)
  <2>1. Finish(r) /\ UNCHANGED <<memory, tables, erpVars>>
    BY <1>3 DEF MatchFails
  <2>2. QED
    BY <1>t, <2>1, FinishEvidenced, QuietEvidenced DEF memory
<1>4. CASE SaveMatch(r)
  <2> DEFINE new == IF q.matched THEN {"clean_match"} ELSE {}
  <2>1. /\ matches' = [matches EXCEPT ![i] = {q.matched}]
        /\ history' = [history EXCEPT ![i] = @ \cup new]
        /\ UNCHANGED <<object, tables, erpVars>>
        /\ Goto(r, "store_match") /\ "store_match" \in Steps
    BY <1>4, <1>i DEF SaveMatch, Steps, MatchSteps
  <2>2. q.matched => CleanMatch(i)'
    BY <1>t, <2>1 DEF CleanMatch
  <2>3. Inv(r)' = i
    BY <1>h, <1>i, <2>1, GotoMoves DEF Inv
  <2>4. ThreadsEvidenced'
    <3>1. q.matched => CleanMatch(Inv(r))'
      BY <2>2, <2>3 DEF CleanMatch
    <3>2. QED
      BY <1>t, <2>1, <3>1, GotoEvidenced
  <2>5. MatchesEvidenced'
    <3>1. ASSUME NEW k \in Invoices, TRUE \in matches'[k] \cup matchRow'[k]
          PROVE  TRUE \in matches[k] \cup matchRow[k] \/ (k = i /\ q.matched)
      BY <1>h, <1>t, <2>1, <3>1 DEF tables
    <3>2. QED
      BY <2>2, <3>1, EvidenceStays DEF EvidenceInv, MatchesEvidenced
  <2>6. QED
    BY <2>1, <2>4, <2>5, EvidenceKept DEF EvidenceInv, tables, erpVars
<1>5. CASE StoreMatch(r)
  <2>1. /\ matchRow' = [matchRow EXCEPT ![i] = {q.matched}] /\ q.pc = "store_match"
        /\ UNCHANGED <<object, matches, invoiceRow, erpVars>>
        /\ Goto(r, "set_status") /\ "set_status" \in Steps
    BY <1>5, <1>i DEF StoreMatch, WriteMatchRow, At, Steps, MatchSteps, memory
  <2>2. q.matched => CleanMatch(i)
    BY <1>h, <1>i, <2>1 DEF Evidenced
  <2>3. MatchesEvidenced'
    <3>1. ASSUME NEW k \in Invoices, TRUE \in matches'[k] \cup matchRow'[k]
          PROVE  TRUE \in matches[k] \cup matchRow[k] \/ CleanMatch(k)
      BY <1>h, <1>t, <2>1, <2>2, <3>1
    <3>2. QED
      BY <3>1, EvidenceStays DEF EvidenceInv, MatchesEvidenced
  <2>4. ThreadsEvidenced'
    BY <1>t, <2>1, GotoEvidenced
  <2>5. QED
    BY <2>1, <2>3, <2>4, EvidenceKept DEF EvidenceInv, erpVars
<1>6. CASE SetMatchStatus(r)
  <2> DEFINE st == IF q.matched THEN "MATCHED" ELSE "EXCEPTION"
  <2>1. /\ WriteStatus(r, q.object, st, "evaluate_match") /\ q.pc = "set_status"
        /\ UNCHANGED erpVars
    BY <1>6 DEF SetMatchStatus, At
  <2>2. st \in Status /\ st # "APPROVED" /\ "evaluate_match" \in Steps
    BY DEF Status, Steps, MatchSteps
  <2> HIDE DEF st
  <2>3. QED
    BY <1>h, <1>i, <2>1, <2>2, WriteEvidenced
<1>7. ASSUME NEW requested \in AgentActions, EvaluateMatch(r, requested)
      PROVE  EvidenceInv'
  <2>1. q.pc = "evaluate_match" /\ UNCHANGED <<memory, tables, erpVars>>
    BY <1>7 DEF EvaluateMatch, At
  <2>2. cache[Inv(r)] \in Makers
    BY <2>1, InHandler DEF LoadSteps
  <2>3. PICK p : p = req'[r]
    OBVIOUS
  <2>4. /\ req'[r] \in Request /\ req' = [req EXCEPT ![r] = req'[r]]
        /\ req'[r].inv = q.inv
        /\ \/ /\ req'[r].pc = "get_journal"
              /\ req'[r].row = "EXTRACTED" /\ req'[r].matched = FALSE
           \/ /\ req'[r].pc = "finalize"
              /\ req'[r].row = q.row /\ req'[r].matched = q.matched
    BY <1>7, <1>h, <2>2, EvaluateMoves
  <2>5. /\ p \in Request /\ req' = [req EXCEPT ![r] = p] /\ p.inv = q.inv
        /\ \/ p.pc = "get_journal" /\ p.row = "EXTRACTED" /\ p.matched = FALSE
           \/ p.pc = "finalize" /\ p.row = q.row /\ p.matched = q.matched
    BY <2>3, <2>4
  <2>6. Evidenced(p)
    BY <1>h, <2>1, <2>5 DEF Evidenced
  <2>7. ThreadsEvidenced'
    BY <1>t, <2>5, <2>6, EvidenceStays, ThreadsStayEvidenced
  <2>8. QED
    BY <2>1, <2>7, QuietEvidenced DEF memory
<1>8. CASE Finalize(r)
  <2>1. q.pc = "finalize" /\ UNCHANGED erpVars
    BY <1>8 DEF Finalize, At
  <2>2. CASE WriteStatus(r, cache[Inv(r)], "AWAITING_APPROVAL", "done")
    <3>1. /\ "AWAITING_APPROVAL" \in Status /\ "done" \in Steps
          /\ "AWAITING_APPROVAL" # "APPROVED"
      BY DEF Status, Steps
    <3>2. PICK m \in Makers : m = cache[Inv(r)]
      BY <2>1, InHandler DEF LoadSteps
    <3>3. QED
      BY <1>i, <2>1, <2>2, <3>1, <3>2, WriteEvidenced
  <2>3. CASE Finish(r) /\ UNCHANGED <<memory, tables>>
    BY <1>t, <2>1, <2>3, FinishEvidenced, QuietEvidenced DEF memory
  <2>4. QED
    BY <1>8, <2>2, <2>3 DEF Finalize
<1>9. QED
  BY <1>1, <1>2, <1>3, <1>4, <1>5, <1>6, <1>7, <1>8 DEF MatchStep

\* approve(): the decision is recorded with the status it sets.
LEMMA DecideStepEvidence ==
    ASSUME Typed, EvidenceInv, Gathered, NEW r \in Callers, DecideStep(r)
    PROVE  EvidenceInv'
<1> DEFINE q == req[r]
<1>h. /\ q \in Request /\ req \in [Callers -> Request] /\ Inv(r) \in Invoices
      /\ Inv(r) = q.inv /\ q.object \in Makers /\ Held(r, q) /\ Evidenced(q)
      /\ ThreadsEvidenced /\ history \in [Invoices -> SUBSET Events]
  BY InHandler DEF EvidenceInv, ThreadsEvidenced, Typed, TypeOK
<1>i. PICK i \in Invoices : i = Inv(r)
  BY <1>h
<1>1. CASE DecideGuard(r)
  <2>1. q.pc = "decide_guard" /\ UNCHANGED <<memory, tables, erpVars>>
    BY <1>1 DEF DecideGuard, At
  <2>2. cache[Inv(r)] \in Makers
    BY <2>1, InHandler DEF LoadSteps
  <2>3. PICK p : p = req'[r]
    OBVIOUS
  <2>4. /\ req'[r] \in Request /\ req' = [req EXCEPT ![r] = req'[r]]
        /\ \/ req'[r] = IdleRequest
           \/ /\ req'[r].pc = "decide" /\ req'[r].inv = q.inv
              /\ req'[r].row = q.row /\ req'[r].matched = q.matched
    BY <1>1, <1>h, <2>2, DecideGuardMoves
  <2>5. /\ p \in Request /\ req' = [req EXCEPT ![r] = p]
        /\ \/ p = IdleRequest
           \/ p.pc = "decide" /\ p.inv = q.inv /\ p.row = q.row /\ p.matched = q.matched
    BY <2>3, <2>4
  <2>6. Evidenced(p)
    BY <1>h, <2>1, <2>5, IdleEvidenced DEF Evidenced
  <2>7. ThreadsEvidenced'
    BY <1>h, <2>5, <2>6, EvidenceStays, ThreadsStayEvidenced
  <2>8. QED
    BY <2>1, <2>7, QuietEvidenced DEF memory
<1>2. CASE RecordDecision(r)
  <2> DEFINE st == IF q.approved THEN "APPROVED" ELSE "REJECTED"
             new == {IF q.approved THEN "human_approved" ELSE "human_rejected"}
  <2>1. /\ WriteStatus(r, q.object, st, "decided") /\ q.pc = "decide"
        /\ history' = [history EXCEPT ![i] = @ \cup new]
        /\ UNCHANGED erpVars
    BY <1>2, <1>i DEF RecordDecision, At
  <2>2. st \in Status /\ "decided" \in Steps
    BY DEF Status, Steps, DecideSteps
  <2>3. st = "APPROVED" => HumanApproved(i)'
    BY <1>h, <2>1 DEF HumanApproved
  <2> HIDE DEF st, new
  <2>4. QED
    BY <1>h, <1>i, <2>1, <2>2, <2>3, WriteEvidenced
<1>3. CASE AnswerDecision(r)
  <2>1. Finish(r) /\ UNCHANGED <<memory, tables, erpVars>>
    BY <1>3 DEF AnswerDecision
  <2>2. QED
    BY <1>h, <2>1, FinishEvidenced, QuietEvidenced DEF memory
<1>4. QED
  BY <1>1, <1>2, <1>3 DEF DecideStep

\* post(): who calls the ERP has looked at evidence that cannot go away.
LEMMA PostStepEvidence ==
    ASSUME Typed, EvidenceInv, Gathered, NEW r \in Callers, PostStep(r)
    PROVE  EvidenceInv'
<1> DEFINE q == req[r]
<1>h. /\ q \in Request /\ req \in [Callers -> Request] /\ Inv(r) \in Invoices
      /\ Inv(r) = q.inv /\ q.object \in Makers /\ Held(r, q) /\ Evidenced(q)
  BY InHandler DEF EvidenceInv, ThreadsEvidenced
<1>t. /\ matches \in [Invoices -> SUBSET BOOLEAN]
      /\ matchRow \in [Invoices -> SUBSET BOOLEAN]
      /\ calls \subseteq Call
      /\ ThreadsEvidenced
  BY DEF Typed, TypeOK, EvidenceInv, ErpTypeOK
<1>i. PICK i \in Invoices : i = Inv(r)
  BY <1>h
<1>f. ASSUME Finish(r), UNCHANGED <<object, matches, tables, erpVars>>
      PROVE  EvidenceInv'
  BY <1>t, <1>f, FinishEvidenced, QuietEvidenced
<1>g. ASSUME NEW pc \in PostSteps \ {"erp_call", "await_erp"}, Goto(r, pc),
             q.pc \in PostSteps
      PROVE  ThreadsEvidenced'
  <2>1. pc \in Steps /\ q.pc # "save_match" /\ pc \notin {"erp_call", "await_erp"}
    BY <1>g DEF Steps, PostSteps
  <2>2. QED
    BY <1>t, <1>g, <2>1, GotoEvidenced
  \* The calls and the threads change, and the ERP makes no journal.
<1>c. ASSUME UNCHANGED <<memory, tables, minted>>, ThreadsEvidenced',
             NEW k \in Invoices, Authorised(k),
             \A d \in calls' : d \in calls \/ d.inv = k
      PROVE  EvidenceInv'
  <2>1. \A c \in calls : c.inv \in Invoices
    BY <1>t DEF Call
  <2>2. CallsAuthorised'
    <3>1. \A d \in calls' : d.inv \in Invoices /\ Authorised(d.inv)
      BY <1>c, <2>1 DEF EvidenceInv, CallsAuthorised
    <3>2. QED
      BY <3>1, EvidenceStays DEF CallsAuthorised
  <2>3. QED
    BY <1>c, <2>2, EvidenceKept DEF EvidenceInv, memory, tables
<1>1. ASSUME NEW j \in journals \cup journalRows, ReplayJournal(r, j)
      PROVE  EvidenceInv'
  BY <1>1, <1>f DEF ReplayJournal
<1>2. CASE NoKnownJournal(r)
  <2>1. /\ Goto(r, "latest_match") /\ q.pc \in PostSteps
        /\ "latest_match" \in PostSteps \ {"erp_call", "await_erp"}
        /\ UNCHANGED <<memory, tables, erpVars>>
    BY <1>2 DEF NoKnownJournal, At, PostSteps
  <2>2. QED
    BY <1>g, <2>1, QuietEvidenced DEF memory
<1>3. ASSUME NEW matched \in BOOLEAN, LatestMatch(r, matched)
      PROVE  EvidenceInv'
  <2>1. /\ matched \in matches[i] \cup matchRow[i]
        /\ UNCHANGED <<memory, tables, erpVars>> /\ q.pc = "latest_match"
    BY <1>3, <1>i DEF LatestMatch, At
  <2>2. PICK p : p = req'[r]
    OBVIOUS
  <2>3. /\ req'[r] \in Request /\ req' = [req EXCEPT ![r] = req'[r]]
        /\ req'[r].inv = q.inv /\ req'[r].row = q.row /\ req'[r].matched = matched
        /\ req'[r].pc \in {"post_guard", "cache_match"}
    BY <1>h, <1>3, LatestMatchMoves
  <2>4. /\ p \in Request /\ req' = [req EXCEPT ![r] = p] /\ p.inv = i
        /\ p.row = q.row /\ p.matched = matched /\ p.pc \in {"post_guard", "cache_match"}
    BY <1>h, <1>i, <2>2, <2>3
  <2>5. matched => CleanMatch(i)
    BY <2>1 DEF EvidenceInv, MatchesEvidenced
  <2>6. Evidenced(p)
    BY <1>h, <1>i, <2>4, <2>5 DEF Evidenced
  <2>7. ThreadsEvidenced'
    BY <1>t, <2>4, <2>6, EvidenceStays, ThreadsStayEvidenced
  <2>8. QED
    BY <2>1, <2>7, QuietEvidenced DEF memory
<1>4. CASE NoMatch(r)
  BY <1>4, <1>f DEF NoMatch, memory
<1>5. CASE CacheMatch(r)
  <2>1. /\ matches' = [matches EXCEPT ![i] = {q.matched}] /\ q.pc = "cache_match"
        /\ Goto(r, "post_guard") /\ q.pc \in PostSteps
        /\ "post_guard" \in PostSteps \ {"erp_call", "await_erp"}
        /\ UNCHANGED <<object, tables, erpVars>>
    BY <1>5, <1>i DEF CacheMatch, At, PostSteps
  <2>2. q.matched => CleanMatch(i)
    BY <1>h, <1>i, <2>1 DEF Evidenced
  <2>3. MatchesEvidenced'
    <3>1. ASSUME NEW k \in Invoices, TRUE \in matches'[k] \cup matchRow'[k]
          PROVE  TRUE \in matches[k] \cup matchRow[k] \/ CleanMatch(k)
      BY <1>t, <2>1, <2>2, <3>1 DEF tables
    <3>2. QED
      BY <3>1, EvidenceStays DEF EvidenceInv, MatchesEvidenced
  <2>4. ThreadsEvidenced'
    BY <1>g, <2>1
  <2>5. QED
    BY <2>1, <2>3, <2>4, EvidenceKept DEF EvidenceInv, tables, erpVars
<1>6. CASE PostGuard(r)
  <2>1. UNCHANGED <<memory, tables, erpVars>> /\ q.pc = "post_guard"
    BY <1>6 DEF PostGuard, At
  <2>2. PICK p : p = req'[r]
    OBVIOUS
  <2>3. /\ req'[r] \in Request /\ req' = [req EXCEPT ![r] = req'[r]]
        /\ \/ req'[r] = IdleRequest
           \/ /\ MayPost(r) /\ req'[r].pc = "erp_call" /\ req'[r].inv = q.inv
              /\ req'[r].row = q.row /\ req'[r].matched = FALSE
    BY <1>h, <1>6, PostGuardMoves
  <2>4. /\ p \in Request /\ req' = [req EXCEPT ![r] = p]
        /\ \/ p = IdleRequest
           \/ MayPost(r) /\ p.inv = i /\ p.row = q.row /\ p.matched = FALSE
    BY <1>h, <1>i, <2>2, <2>3
  <2>5. MayPost(r) => Authorised(i)
    BY <1>h, <1>i, <2>1
    DEF MayPost, HeldStatus, EvidenceInv, ObjectsEvidenced, Evidenced, Authorised
  <2>6. Evidenced(p)
    BY <1>h, <1>i, <2>4, <2>5, IdleEvidenced DEF Evidenced
  <2>7. ThreadsEvidenced'
    BY <1>t, <2>4, <2>6, EvidenceStays, ThreadsStayEvidenced
  <2>8. QED
    BY <2>1, <2>7, QuietEvidenced DEF memory
<1>7. CASE SendJournal(r)
  <2> DEFINE c == [caller |-> r, inv |-> Inv(r), key |-> req[r].key,
           approved |-> (HeldStatus(r) = "APPROVED"), phase |-> "sent",
           journal |-> NoJournal, live |-> TRUE]
  <2>1. /\ calls' = calls \cup {c} /\ Goto(r, "await_erp") /\ q.pc = "erp_call"
        /\ UNCHANGED <<memory, tables, minted>> /\ "await_erp" \in Steps
    BY <1>7 DEF SendJournal, At, Steps, PostSteps
  <2>2. c.inv = i
    BY <1>i
  <2> HIDE DEF c
  <2>3. Authorised(Inv(r)) /\ Authorised(i)
    BY <1>h, <1>i, <2>1 DEF Evidenced
  <2>4. ThreadsEvidenced'
    BY <1>t, <2>1, <2>3, GotoEvidenced
  <2>5. \A d \in calls' : d \in calls \/ d.inv = i
    BY <2>1, <2>2
  <2>6. QED
    BY <1>c, <2>1, <2>3, <2>4, <2>5
<1>8. ASSUME NEW c \in CallOf(r), ReceiveJournal(r, c) PROVE EvidenceInv'
  <2>1. /\ q.pc = "await_erp" /\ c \in Call /\ calls' = calls \ {c}
        /\ UNCHANGED <<memory, tables, minted>>
    BY <1>t, <1>8 DEF ReceiveJournal, At, CallOf
  <2>2. PICK p : p = req'[r]
    OBVIOUS
  <2>3. /\ req'[r] \in Request /\ req' = [req EXCEPT ![r] = req'[r]]
        /\ req'[r].pc = "set_posted" /\ req'[r].inv = q.inv /\ req'[r].row = q.row
        /\ req'[r].matched = q.matched
    BY <1>h, <1>8, <2>1, ReceiveMoves
  <2>4. /\ p \in Request /\ req' = [req EXCEPT ![r] = p] /\ p.pc = "set_posted"
        /\ p.inv = q.inv /\ p.row = q.row /\ p.matched = q.matched
    BY <2>2, <2>3
  <2>5. Evidenced(p)
    BY <1>h, <2>1, <2>4 DEF Evidenced
  <2>6. ThreadsEvidenced'
    BY <1>t, <2>4, <2>5, EvidenceStays, ThreadsStayEvidenced
  <2>7. PICK k \in Invoices : k = c.inv /\ Authorised(k)
    BY <1>t DEF CallOf, Call, EvidenceInv, CallsAuthorised
  <2>8. \A d \in calls' : d \in calls \/ d.inv = k
    BY <2>1
  <2>9. QED
    BY <1>c, <2>1, <2>6, <2>7, <2>8
<1>9. ASSUME NEW c \in CallOf(r), PostFails(r, c) \/ CallTimesOut(r, c)
      PROVE  EvidenceInv'
  <2>1. Finish(r) /\ UNCHANGED <<memory, tables, minted>>
    BY <1>9 DEF PostFails, CallTimesOut
  <2>2. c \in calls /\ c \in Call /\ c.inv \in Invoices
    BY <1>t DEF CallOf, Call
  <2>3. \A d \in calls' : d \in calls \/ d = [c EXCEPT !.live = FALSE]
    BY <1>9 DEF PostFails, CallTimesOut
  <2>4. [c EXCEPT !.live = FALSE].inv = c.inv
    BY <2>2 DEF Call
  <2>5. PICK k \in Invoices : k = c.inv /\ Authorised(k)
    BY <2>2 DEF EvidenceInv, CallsAuthorised
  <2>6. \A d \in calls' : d \in calls \/ d.inv = k
    BY <2>2, <2>3, <2>4, <2>5
  <2>7. ThreadsEvidenced'
    BY <1>t, <2>1, FinishEvidenced
  <2>8. QED
    BY <1>c, <2>1, <2>2, <2>5, <2>6, <2>7
<1>10. CASE SetPosted(r)
  <2>1. /\ WriteStatus(r, q.object, "POSTED", "save_journal") /\ q.pc = "set_posted"
        /\ UNCHANGED erpVars
    BY <1>10 DEF SetPosted, At
  <2>2. "POSTED" \in Status /\ "save_journal" \in Steps /\ "POSTED" # "APPROVED"
    BY DEF Status, Steps, PostSteps
  <2>3. QED
    BY <1>h, <1>i, <2>1, <2>2, WriteEvidenced
<1>11. CASE SaveJournal(r)
  <2>1. /\ Goto(r, "store_journal") /\ q.pc \in PostSteps
        /\ "store_journal" \in PostSteps \ {"erp_call", "await_erp"}
        /\ UNCHANGED <<object, matches, tables, erpVars>>
    BY <1>11 DEF SaveJournal, At, PostSteps
  <2>2. QED
    BY <1>g, <2>1, QuietEvidenced
<1>12. CASE StoreJournal(r)
  <2>1. Finish(r) /\ UNCHANGED <<object, matches, invoiceRow, matchRow, erpVars>>
    BY <1>12 DEF StoreJournal, WriteJournalRow, memory
  <2>2. ThreadsEvidenced'
    BY <1>t, <2>1, FinishEvidenced
  <2>3. QED
    BY <2>1, <2>2, EvidenceKept DEF EvidenceInv, erpVars
<1>13. QED
  BY <1>1, <1>2, <1>3, <1>4, <1>5, <1>6, <1>7, <1>8, <1>9, <1>10, <1>11, <1>12
  DEF PostStep

\* The ERP adds no call: what it leaves is a call it had, or the one it served.
LEMMA ErpStepCalls ==
    ASSUME NEW c \in calls, c \in Call, ErpStep(c)
    PROVE  \A d \in calls' : d \in calls \/ d.inv = c.inv
<1>1. ASSUME NEW p, NEW j, Return(c, p, j)
      PROVE  \A d \in calls' : d \in calls \/ d.inv = c.inv
  <2>1. [c EXCEPT !.phase = p, !.journal = j].inv = c.inv
    BY DEF Call
  <2>2. QED
    BY <1>1, <2>1 DEF Return
<1>2. CASE ErpMiss(c)
  BY <1>2 DEF ErpMiss, Call
<1>3. QED
  BY <1>1, <1>2 DEF ErpStep, ErpRefuse, ErpReplayByKey, ErpReplayByInvoice,
                    ErpCreate

\* A step of the ERP pays nothing new, or the invoice of the call it serves.
LEMMA ErpPaysOne ==
    ASSUME ErpTypeOK, NEW c \in calls, ErpStep(c)
    PROVE  minted' = minted \/
           /\ \A i \in Invoices \ {c.inv} : minted'[i] = minted[i]
           /\ c.inv \in Invoices /\ minted'[c.inv] > 0
<1> USE DEF ErpTypeOK
<1>1. c.inv \in Invoices
  BY DEF Call
<1>2. CASE ErpCreate(c)
  <2>1. minted' = [minted EXCEPT ![c.inv] = @ + 1]
    BY <1>2 DEF ErpCreate
  <2>2. minted'[c.inv] > 0
    BY <2>1, <1>1
  <2>3. QED
    BY <2>1, <2>2, <1>1
<1>3. CASE minted' = minted
  BY <1>3
<1>4. QED
  BY <1>2, <1>3 DEF ErpStep, ErpRefuse, ErpReplayByKey, ErpReplayByInvoice, ErpMiss

\* Initially there is nothing that needs evidence.
LEMMA EvidenceInit == Init => EvidenceInv
<1> SUFFICES ASSUME Init PROVE EvidenceInv
  OBVIOUS
<1>1. ObjectsEvidenced /\ RowsEvidenced /\ MatchesEvidenced
  BY DEF Init, NoObjects, NoMatches, ObjectsEvidenced, RowsEvidenced, MatchesEvidenced
<1>2. ThreadsEvidenced
  BY IdleEvidenced DEF Init, NoRequests, ThreadsEvidenced
<1>3. CallsAuthorised /\ PaidAuthorised
  BY DEF Init, ErpInit, CallsAuthorised, PaidAuthorised
<1>4. QED
  BY <1>1, <1>2, <1>3 DEF EvidenceInv

\* Every step preserves the invariant.
LEMMA EvidenceStep == Typed /\ EvidenceInv /\ [Next]_vars => EvidenceInv'
<1> SUFFICES ASSUME Typed, EvidenceInv, [Next]_vars PROVE EvidenceInv'
  OBVIOUS
<1>g. Gathered
  BY HistoryGrows
<1>t. /\ calls \subseteq Call /\ ErpTypeOK /\ ThreadsEvidenced
      /\ object \in [Invoices -> [Makers -> Status \cup {"absent"}]]
      /\ invoiceRow \in [Invoices -> Status \cup {"absent"}]
      /\ matchRow \in [Invoices -> SUBSET BOOLEAN]
      /\ \A c \in calls : c \in Call /\ c.inv \in Invoices
  BY DEF Typed, TypeOK, ErpTypeOK, EvidenceInv, Call
<1>1. ASSUME NEW r \in Callers, HandlerStep(r) PROVE EvidenceInv'
  BY <1>1, <1>g, SaveStepEvidence, MatchStepEvidence, DecideStepEvidence, PostStepEvidence
  DEF HandlerStep
<1>2. ASSUME NEW i \in Invoices, NEW stored \in BOOLEAN, Ingest(i, stored)
      PROVE  EvidenceInv'
  <2>1. /\ object' = [object EXCEPT ![i]["upload"] = "EXTRACTED"]
        /\ invoiceRow' = [invoiceRow EXCEPT ![i] = IF stored THEN "EXTRACTED" ELSE @]
        /\ UNCHANGED <<matches, matchRow, req, erpVars>>
    BY <1>2 DEF Ingest
  <2>2. ObjectsEvidenced'
    <3>1. ASSUME NEW k \in Invoices, NEW n \in Makers, object'[k][n] = "APPROVED"
          PROVE  object[k][n] = "APPROVED"
      BY <1>t, <2>1, <3>1
    <3>2. QED
      BY <1>g, <3>1, EvidenceStays DEF EvidenceInv, ObjectsEvidenced
  <2>3. RowsEvidenced'
    <3>1. ASSUME NEW k \in Invoices, invoiceRow'[k] = "APPROVED"
          PROVE  invoiceRow[k] = "APPROVED"
      BY <1>t, <2>1, <3>1
    <3>2. QED
      BY <1>g, <3>1, EvidenceStays DEF EvidenceInv, RowsEvidenced
  <2>4. QED
    BY <1>g, <2>1, <2>2, <2>3, EvidenceKept DEF EvidenceInv, erpVars
<1>3. ASSUME NEW r \in Callers, NEW i \in Invoices, NewRequest(r, i)
      PROVE  EvidenceInv'
  <2>1. req \in [Callers -> Request] /\ cache[i] \in Makers \cup {"none"}
    BY DEF Typed, TypeOK
  <2>2. PICK p : p = req'[r]
    OBVIOUS
  <2>3. /\ UNCHANGED <<memory, tables, erpVars>>
        /\ req'[r] \in Request /\ req' = [req EXCEPT ![r] = req'[r]]
        /\ req'[r].row = "EXTRACTED" /\ req'[r].matched = FALSE
        /\ req'[r].pc \in Starts \cup {"select_invoice"}
    BY <1>3, <2>1, EnterMoves
  <2>4. /\ p \in Request /\ req' = [req EXCEPT ![r] = p]
        /\ p.row = "EXTRACTED" /\ p.matched = FALSE
        /\ p.pc \in Starts \cup {"select_invoice"}
    BY <2>2, <2>3
  <2>5. Evidenced(p)
    BY <2>4 DEF Evidenced, Starts
  <2>6. ThreadsEvidenced'
    BY <1>g, <1>t, <2>4, <2>5, EvidenceStays, ThreadsStayEvidenced
  <2>7. QED
    BY <1>g, <2>3, <2>6, QuietEvidenced DEF memory
<1>4. CASE ErpServes
  <2>1. PICK c \in calls : ErpStep(c) /\ UNCHANGED <<memory, tables, req, troubles, watch>>
    BY <1>4 DEF ErpServes
  <2>2. c.inv \in Invoices /\ Authorised(c.inv)
    BY <1>t DEF EvidenceInv, CallsAuthorised
  <2>3. \A d \in calls' : d \in calls \/ d.inv = c.inv
    BY <1>t, <2>1, ErpStepCalls
  <2>4. CallsAuthorised'
    BY <1>g, <1>t, <2>2, <2>3, EvidenceStays DEF EvidenceInv, CallsAuthorised
  <2>5. \A i \in Invoices : minted'[i] = minted[i] \/ i = c.inv
    BY <1>t, <2>1, ErpPaysOne
  <2>6. PaidAuthorised'
    BY <1>g, <2>2, <2>5, EvidenceStays DEF EvidenceInv, PaidAuthorised
  <2>7. QED
    BY <1>g, <2>1, <2>4, <2>6, EvidenceKept DEF EvidenceInv, memory, tables
<1>5. CASE Restart
  <2>1. /\ object' = NoObjects /\ matches' = NoMatches /\ req' = NoRequests
        /\ UNCHANGED <<invoiceRow, matchRow, minted>>
    BY <1>5 DEF Restart, tables
  <2>2. ObjectsEvidenced'
    BY <2>1 DEF ObjectsEvidenced, NoObjects
  <2>3. MatchesEvidenced'
    <3>1. ASSUME NEW k \in Invoices, TRUE \in matches'[k] \cup matchRow'[k]
          PROVE  TRUE \in matches[k] \cup matchRow[k]
      BY <2>1, <3>1 DEF NoMatches
    <3>2. QED
      BY <1>g, <3>1, EvidenceStays DEF EvidenceInv, MatchesEvidenced
  <2>4. ThreadsEvidenced'
    <3>1. ASSUME NEW s \in Callers
          PROVE  req'[s] = IdleRequest
      BY <2>1 DEF NoRequests
    <3>2. QED
      BY <3>1, IdleEvidenced DEF ThreadsEvidenced, Evidenced
  <2>5. CallsAuthorised'
    <3>1. ASSUME NEW d \in calls'
          PROVE  \E c \in calls : d.inv = c.inv
      <4>1. PICK c \in calls : d = [c EXCEPT !.live = FALSE]
        BY <1>5 DEF Restart
      <4>2. QED
        BY <1>t, <4>1 DEF Call
    <3>2. QED
      BY <1>g, <1>t, <3>1, EvidenceStays DEF EvidenceInv, CallsAuthorised
  <2>6. QED
    BY <1>g, <2>1, <2>2, <2>3, <2>4, <2>5, EvidenceKept DEF EvidenceInv
<1>6. CASE UNCHANGED vars
  <2>1. UNCHANGED <<memory, tables, req, erpVars>>
    BY <1>6 DEF vars
  <2>2. QED
    BY <1>g, <2>1, EvidenceKept DEF EvidenceInv, memory, tables, erpVars
<1>7. QED
  BY <1>1, <1>2, <1>3, <1>4, <1>5, <1>6 DEF Next, HandlerStep

PaidSet == {i \in Invoices : minted[i] > 0}

\* A step gathers evidence about one invoice, lets the ERP pay at most one, or
\* does neither.
LEMMA StepLearnsOrPays ==
    ASSUME Typed, [Next]_vars
    PROVE  \/ /\ PaidSet' = PaidSet
              /\ \/ history' = history
                 \/ \E i \in Invoices, e \in SUBSET Events :
                      history' = [history EXCEPT ![i] = @ \cup e]
           \/ /\ history' = history
              /\ \E i \in Invoices : PaidSet' = PaidSet \cup {i}
<1> DEFINE Learns == \/ history' = history
                     \/ \E i \in Invoices, e \in SUBSET Events :
                          history' = [history EXCEPT ![i] = @ \cup e]
<1>1. ASSUME minted' = minted PROVE PaidSet' = PaidSet
  BY <1>1 DEF PaidSet
<1>2. CASE ErpServes
  <2>1. PICK c \in calls : ErpStep(c) /\ UNCHANGED <<memory, tables, req, troubles, watch>>
    BY <1>2 DEF ErpServes
  <2>2. history' = history
    BY <2>1 DEF watch
  <2>3. ErpTypeOK
    BY DEF Typed, TypeOK
  <2>4. CASE minted' = minted
    BY <1>1, <2>2, <2>4
  <2>5. CASE /\ \A i \in Invoices \ {c.inv} : minted'[i] = minted[i]
             /\ c.inv \in Invoices /\ minted'[c.inv] > 0
    <3>1. PaidSet' = PaidSet \cup {c.inv}
      BY <2>5 DEF PaidSet
    <3>2. QED
      BY <2>2, <2>5, <3>1
  <2>6. QED
    BY <2>1, <2>3, <2>4, <2>5, ErpPaysOne
<1>3. ASSUME NEW r \in Callers, SaveStep(r) PROVE minted' = minted /\ Learns
  BY <1>3 DEF SaveStep, SelectInvoice, CacheInvoice, Serialise, Commit, Done, ReadFails,
              WriteFails, watch, erpVars
<1>4. ASSUME NEW r \in Callers, MatchStep(r) PROVE minted' = minted /\ Learns
  <2>1. Inv(r) \in Invoices
    BY InHandler
  <2>2. CASE SaveMatch(r)
    <3> DEFINE e == IF req[r].matched THEN {"clean_match"} ELSE {}
    <3>1. e \in SUBSET Events
      BY DEF Events
    <3>2. history' = [history EXCEPT ![Inv(r)] = @ \cup e] /\ minted' = minted
      BY <2>2 DEF SaveMatch, erpVars
    <3>3. QED
      BY <2>1, <3>1, <3>2
  <2>3. CASE ~SaveMatch(r)
    <3>1. history' = history /\ minted' = minted
      BY <1>4, <2>3 DEF MatchStep, MatchGuard, RunMatch, MatchFails, StoreMatch,
              SetMatchStatus, EvaluateMatch, Finalize, watch, erpVars
    <3>2. QED
      BY <3>1
  <2>4. QED
    BY <2>2, <2>3
<1>5. ASSUME NEW r \in Callers, DecideStep(r) PROVE minted' = minted /\ Learns
  <2>1. Inv(r) \in Invoices
    BY InHandler
  <2>2. CASE RecordDecision(r)
    <3> DEFINE e == {IF req[r].approved THEN "human_approved" ELSE "human_rejected"}
    <3>1. e \in SUBSET Events
      BY DEF Events
    <3>2. history' = [history EXCEPT ![Inv(r)] = @ \cup e] /\ minted' = minted
      BY <2>2 DEF RecordDecision, erpVars
    <3>3. QED
      BY <2>1, <3>1, <3>2
  <2>3. CASE ~RecordDecision(r)
    <3>1. history' = history /\ minted' = minted
      BY <1>5, <2>3 DEF DecideStep, DecideGuard, AnswerDecision, watch, erpVars
    <3>2. QED
      BY <3>1
  <2>4. QED
    BY <2>2, <2>3
<1>6. ASSUME NEW r \in Callers, PostStep(r) PROVE minted' = minted /\ Learns
  BY <1>6 DEF PostStep, ReplayJournal, NoKnownJournal, LatestMatch, NoMatch, CacheMatch,
              PostGuard, SendJournal, ReceiveJournal, PostFails, CallTimesOut, SetPosted,
              SaveJournal, StoreJournal, watch, erpVars
<1>7. ASSUME NEW i \in Invoices, NEW stored \in BOOLEAN, Ingest(i, stored)
      PROVE  minted' = minted /\ Learns
  BY <1>7 DEF Ingest, erpVars
<1>8. ASSUME NEW r \in Callers, NEW i \in Invoices, NewRequest(r, i)
      PROVE  minted' = minted /\ Learns
  <2>1. history' = history /\ minted' = minted
    BY <1>8 DEF NewRequest, StartMatch, StartPost, StartDecision, Enter, erpVars
  <2>2. QED
    BY <2>1
<1>9. CASE Restart
  BY <1>9, <1>1 DEF Restart
<1>10. CASE UNCHANGED vars
  BY <1>10, <1>1 DEF vars, watch, erpVars
<1>11. QED
  BY <1>1, <1>2, <1>3, <1>4, <1>5, <1>6, <1>7, <1>8, <1>9, <1>10 DEF Next

\* The initial states of the workflow are initial states of the abstract payment.
LEMMA ControlInit == Init => Control!Init
<1> SUFFICES ASSUME Init PROVE Control!Init
  OBVIOUS
<1>1. settings.requireApproval \in BOOLEAN
  BY ErpConstants DEF Init, ErpInit
<1>2. history = [i \in Invoices |-> {}]
  BY DEF Init
<1>3. {i \in Invoices : minted[i] > 0} = {}
  BY DEF Init, ErpInit
<1>4. QED
  BY <1>1, <1>2, <1>3 DEF Control!Init

\* Every step is a step of the abstract payment or changes nothing of it.  The
\* authority is read off the invariant of the state after the step: the step that
\* pays changes no evidence.  The invoices are of distinct documents.
LEMMA ControlStep ==
    ASSUME Typed, [Next]_vars, PaidAuthorised'
    PROVE  [Control!Next]_(Control!vars)
<1>1. settings' = settings
  BY HistoryGrows DEF Gathered
<1>2. CASE PaidSet' = PaidSet /\ history' = history
  BY <1>1, <1>2 DEF Control!vars, PaidSet
<1>3. ASSUME NEW i \in Invoices, NEW e \in SUBSET Events, PaidSet' = PaidSet,
             history' = [history EXCEPT ![i] = @ \cup e]
      PROVE  Control!Next
  <2>1. Control!Learn(i, e)
    BY <1>1, <1>3 DEF Control!Learn, PaidSet
  <2>2. e \in SUBSET Control!Evidence
    BY DEF Events, Control!Evidence
  <2>3. QED
    BY <2>1, <2>2 DEF Control!Next
<1>4. ASSUME NEW i \in Invoices, history' = history, PaidSet' = PaidSet \cup {i}
      PROVE  Control!Next
  <2>1. minted'[i] > 0
    BY <1>4 DEF PaidSet
  <2>2. Authorised(i)
    BY <1>1, <1>4, <2>1 DEF PaidAuthorised, Authorised, HumanApproved, CleanMatch
  <2>3. Control!Authorised(i)
    BY <2>2 DEF Authorised, HumanApproved, CleanMatch, Control!Authorised,
                Control!HumanApproved
  <2>4. Control!NoUnreviewedCopy(i)
    BY DEF Control!NoUnreviewedCopy
  <2>5. Control!Pay(i)
    BY <1>1, <1>4, <2>3, <2>4 DEF Control!Pay, PaidSet
  <2>6. QED
    BY <2>5 DEF Control!Next
<1>5. QED
  BY StepLearnsOrPays, <1>2, <1>3, <1>4

\* For any invoices, threads, keys, configurations and number of troubles the
\* workflow over the database implements the abstract payment: no crash, failed or
\* lost write, stale object, or late call of a dead process makes it pay what is
\* not authorised (workflow.py:402-415 over repository.py:316-326, 356-383).
THEOREM PaymentRefines == Spec => PaymentIsControlled
<1>1. EvidenceInv => PaidAuthorised
  BY DEF EvidenceInv
<1>2. Typed /\ [Next]_vars /\ PaidAuthorised' => [Control!Next]_(Control!vars)
  BY ControlStep
<1>3. QED
  BY TypedInit, TypedStep, EvidenceInit, EvidenceStep, <1>1, ControlInit, <1>2, PTL
  DEF Spec, PaymentIsControlled, Control!Spec

---------------------------------------------------------------------------
(* What a handler step does, and to whom.                                  *)

\* A handler step is of one thread and about one invoice: the other threads, and
\* what is kept of the other invoices, stay.
LEMMA StepFrame ==
    ASSUME Typed, NEW r \in Callers, HandlerStep(r)
    PROVE  /\ \A s \in Callers \ {r} : req'[s] = req[s]
           /\ \A k \in Invoices \ {Inv(r)} :
                /\ object'[k] = object[k] /\ cache'[k] = cache[k]
                /\ matches'[k] = matches[k] /\ invoiceRow'[k] = invoiceRow[k]
                /\ matchRow'[k] = matchRow[k] /\ disturbed'[k] = disturbed[k]
           /\ answered' = answered \/
                (req[r].pc = "decided" /\ Finish(r) /\ answered' = answered \cup {Inv(r)})
<1> DEFINE Others ==
        /\ \A s \in Callers \ {r} : req'[s] = req[s]
        /\ \A k \in Invoices \ {Inv(r)} :
             /\ object'[k] = object[k] /\ cache'[k] = cache[k]
             /\ matches'[k] = matches[k] /\ invoiceRow'[k] = invoiceRow[k]
             /\ matchRow'[k] = matchRow[k] /\ disturbed'[k] = disturbed[k]
        /\ answered' = answered \/
             (req[r].pc = "decided" /\ Finish(r) /\ answered' = answered \cup {Inv(r)})
<1> USE DEF memory, tables, watch
<1>t. /\ object \in [Invoices -> [Makers -> Status \cup {"absent"}]]
      /\ cache \in [Invoices -> Makers \cup {"none"}]
      /\ matches \in [Invoices -> SUBSET BOOLEAN]
      /\ matchRow \in [Invoices -> SUBSET BOOLEAN]
      /\ invoiceRow \in [Invoices -> Status \cup {"absent"}]
      /\ disturbed \in [Invoices -> SUBSET Disturbances]
      /\ req \in [Callers -> Request]
  BY DEF Typed, TypeOK
<1>1. CASE SaveStep(r)
  <2>1. CASE SelectInvoice(r)
    BY <1>t, <2>1 DEF SelectInvoice, Goto
  <2>2. CASE CacheInvoice(r)
    BY <1>t, <2>2 DEF CacheInvoice, Resume
  <2>3. CASE Serialise(r) \/ Done(r) \/ ReadFails(r)
    BY <1>t, <2>3 DEF Serialise, Done, ReadFails, Finish
  <2>4. CASE Commit(r)
    BY <1>t, <2>4 DEF Commit, WriteInvoiceRow, Resume
  <2>5. CASE WriteFails(r)
    <3>1. /\ Finish(r) /\ UNCHANGED <<memory, history, answered>>
          /\ disturbed' = [disturbed EXCEPT ![Inv(r)] = @ \cup {"failed_write"}]
      BY <2>5 DEF WriteFails, Trouble
    <3>2. UNCHANGED tables \/ WriteMatchRow(r) \/ WriteInvoiceRow(r) \/ WriteJournalRow(r)
      BY <2>5 DEF WriteFails
    <3>3. \A s \in Callers \ {r} : req'[s] = req[s]
      BY <1>t, <3>1 DEF Finish
    <3>4. \A k \in Invoices \ {Inv(r)} :
            invoiceRow'[k] = invoiceRow[k] /\ matchRow'[k] = matchRow[k]
      BY <1>t, <3>2 DEF WriteMatchRow, WriteInvoiceRow, WriteJournalRow
    <3>5. QED
      BY <1>t, <3>1, <3>3, <3>4
  <2>6. QED
    BY <1>1, <2>1, <2>2, <2>3, <2>4, <2>5 DEF SaveStep
<1>w. ASSUME NEW m, NEW st, NEW next, WriteStatus(r, m, st, next),
             UNCHANGED <<answered, disturbed>>
      PROVE  Others
  BY <1>t, <1>w DEF WriteStatus
<1>2. CASE MatchStep(r)
  <2>1. CASE MatchGuard(r) \/ RunMatch(r) \/ MatchFails(r)
    BY <1>t, <2>1 DEF MatchGuard, RunMatch, MatchFails, Finish, Goto
  <2>2. CASE SaveMatch(r)
    BY <1>t, <2>2 DEF SaveMatch, Goto
  <2>3. CASE StoreMatch(r)
    BY <1>t, <2>3 DEF StoreMatch, WriteMatchRow, Goto
  <2>4. CASE SetMatchStatus(r)
    BY <1>w, <2>4 DEF SetMatchStatus
  <2>5. ASSUME NEW requested \in AgentActions, EvaluateMatch(r, requested) PROVE Others
    BY <1>t, <2>5 DEF EvaluateMatch
  <2>6. CASE Finalize(r)
    <3>1. CASE WriteStatus(r, cache[Inv(r)], "AWAITING_APPROVAL", "done")
      BY <1>w, <2>6, <3>1 DEF Finalize
    <3>2. CASE Finish(r) /\ UNCHANGED <<memory, tables>>
      BY <1>t, <2>6, <3>2 DEF Finalize, Finish
    <3>3. QED
      BY <2>6, <3>1, <3>2 DEF Finalize
  <2>7. QED
    BY <1>2, <2>1, <2>2, <2>3, <2>4, <2>5, <2>6 DEF MatchStep
<1>3. CASE DecideStep(r)
  <2>1. CASE DecideGuard(r)
    BY <1>t, <2>1 DEF DecideGuard
  <2>2. CASE RecordDecision(r)
    BY <1>w, <2>2 DEF RecordDecision
  <2>3. CASE AnswerDecision(r)
    BY <1>t, <2>3 DEF AnswerDecision, Finish, At
  <2>4. QED
    BY <1>3, <2>1, <2>2, <2>3 DEF DecideStep
<1>4. CASE PostStep(r)
  <2>1. ASSUME NEW j \in journals \cup journalRows, ReplayJournal(r, j) PROVE Others
    BY <1>t, <2>1 DEF ReplayJournal, Finish
  <2>2. CASE NoKnownJournal(r) \/ NoMatch(r) \/ PostGuard(r) \/ SendJournal(r)
    BY <1>t, <2>2 DEF NoKnownJournal, NoMatch, PostGuard, SendJournal, Finish, Goto
  <2>3. ASSUME NEW matched \in BOOLEAN, LatestMatch(r, matched) PROVE Others
    BY <1>t, <2>3 DEF LatestMatch
  <2>4. CASE CacheMatch(r)
    BY <1>t, <2>4 DEF CacheMatch, Goto
  <2>5. ASSUME NEW c \in CallOf(r), ReceiveJournal(r, c) \/ PostFails(r, c) PROVE Others
    BY <1>t, <2>5 DEF ReceiveJournal, PostFails, Finish
  <2>6. ASSUME NEW c \in CallOf(r), CallTimesOut(r, c) PROVE Others
    BY <1>t, <2>6 DEF CallTimesOut, Trouble, Finish
  <2>7. CASE SetPosted(r)
    BY <1>w, <2>7 DEF SetPosted
  <2>8. CASE SaveJournal(r) \/ StoreJournal(r)
    BY <1>t, <2>8 DEF SaveJournal, StoreJournal, WriteJournalRow, Finish, Goto
  <2>9. QED
    BY <1>4, <2>1, <2>2, <2>3, <2>4, <2>5, <2>6, <2>7, <2>8 DEF PostStep
<1>5. QED
  BY <1>1, <1>2, <1>3, <1>4 DEF HandlerStep

\* What comes of the disturbances of the thread's own invoice.
LEMMA DisturbedGrows ==
    ASSUME Typed, NEW r \in Callers, HandlerStep(r)
    PROVE  \/ disturbed'[Inv(r)] = disturbed[Inv(r)]
           \/ disturbed'[Inv(r)] = disturbed[Inv(r)] \cup {"failed_write"}
<1>1. CASE Trouble(Inv(r), {}) \/ Trouble(Inv(r), {"failed_write"})
  <2>1. PICK i \in Invoices : i = Inv(r)
    BY InHandler
  <2>2. PICK what \in SUBSET Disturbances :
          Trouble(i, what) /\ what \in {{}, {"failed_write"}}
    BY <1>1, <2>1 DEF Disturbances
  <2>3. disturbed'[i] = disturbed[i] \cup what
    BY <2>2, TroubleTypes
  <2>4. QED
    BY <2>1, <2>2, <2>3
<1>2. CASE UNCHANGED disturbed
  BY <1>2
<1>3. SaveStep(r) => \/ Trouble(Inv(r), {"failed_write"})
                     \/ UNCHANGED disturbed
  BY DEF SaveStep, SelectInvoice, CacheInvoice, Serialise, Commit, Done, ReadFails,
         WriteFails, watch
<1>4. MatchStep(r) \/ DecideStep(r) => UNCHANGED disturbed
  BY DEF MatchStep, MatchGuard, RunMatch, MatchFails, SaveMatch, StoreMatch,
         SetMatchStatus, EvaluateMatch, Finalize, DecideStep, DecideGuard,
         RecordDecision, AnswerDecision, watch
<1>5. PostStep(r) => Trouble(Inv(r), {}) \/ UNCHANGED disturbed
  BY DEF PostStep, ReplayJournal, NoKnownJournal, LatestMatch, NoMatch, CacheMatch,
         PostGuard, SendJournal, ReceiveJournal, PostFails, CallTimesOut, SetPosted,
         SaveJournal, StoreJournal, watch
<1>6. QED
  BY <1>1, <1>2, <1>3, <1>4, <1>5 DEF HandlerStep

\* The ways a handler step of thread r, about invoice i, takes the thread from q
\* to p, with what becomes of the objects of i, of the cached one and of its row.
StatusSame(i) ==
    object'[i] = object[i] /\ cache'[i] = cache[i] /\ invoiceRow'[i] = invoiceRow[i]

Ends(i, q, p) ==
    /\ p = IdleRequest
    /\ object'[i] = object[i] /\ cache'[i] = cache[i]
    /\ \/ invoiceRow'[i] = invoiceRow[i]
       \/ q.pc = "commit" /\ invoiceRow'[i] = q.row

Selects(r, i, q, p) ==
    /\ q.pc = "select_invoice" /\ p.pc = "cache_invoice"
    /\ p.next = q.next /\ p.object = q.object /\ q.object = r
    /\ object'[i] = [object[i] EXCEPT ![r] = invoiceRow[i]]
    /\ cache'[i] = cache[i] /\ invoiceRow'[i] = invoiceRow[i]

Caches(i, q, p) ==
    /\ q.pc = "cache_invoice" /\ p.pc = q.next /\ p.next = "idle" /\ p.object = q.object
    /\ object'[i] = object[i] /\ cache'[i] = q.object /\ invoiceRow'[i] = invoiceRow[i]

Serialises(i, q, p) ==
    /\ q.pc = "serialise" /\ p.pc = "commit"
    /\ p.next = q.next /\ p.object = q.object /\ p.row = object[i][q.object]
    /\ StatusSame(i)

Commits(i, q, p) ==
    /\ q.pc = "commit" /\ p.pc = q.next /\ p.next = "idle" /\ p.object = q.object
    /\ object'[i] = object[i] /\ cache'[i] = cache[i] /\ invoiceRow'[i] = q.row

\* The writes: from where, of which status, to which object, and where to.
Writing(i, q, m, st, next) ==
    \/ /\ q.pc = "set_status" /\ m = q.object /\ st \in {"MATCHED", "EXCEPTION"}
       /\ next = "evaluate_match"
    \/ q.pc = "finalize" /\ m = cache[i] /\ st = "AWAITING_APPROVAL" /\ next = "done"
    \/ /\ q.pc = "decide" /\ m = q.object /\ st \in {"APPROVED", "REJECTED"}
       /\ next = "decided"
    \/ q.pc = "set_posted" /\ m = q.object /\ st = "POSTED" /\ next = "save_journal"

Writes(i, q, p) ==
    \E m \in Makers, st \in Status, next \in AfterSave :
        /\ Writing(i, q, m, st, next)
        /\ p.pc = "serialise" /\ p.next = next /\ p.object = m
        /\ object'[i] = [object[i] EXCEPT ![m] = st]
        /\ cache'[i] = m /\ invoiceRow'[i] = invoiceRow[i]

\* The points of post() between the look-up of the journal and its arrival.
Between == {"latest_match", "cache_match", "post_guard", "erp_call", "await_erp",
            "set_posted"}

GoesOn(i, q, p) ==
    /\ StatusSame(i)
    /\ \/ /\ q.pc = "match_guard" /\ p.pc = "run_match"
          /\ object[i][cache[i]] \notin Settled
       \/ q.pc = "run_match" /\ p.pc = "save_match" /\ p.object = cache[i]
       \/ q.pc = "save_match" /\ p.pc = "store_match" /\ p.object = q.object
       \/ q.pc = "store_match" /\ p.pc = "set_status" /\ p.object = q.object
       \/ q.pc = "evaluate_match" /\ p.pc = "get_journal" /\ p.object = cache[i]
       \/ q.pc = "evaluate_match" /\ p.pc = "finalize" /\ p.object = q.object
       \/ /\ q.pc = "decide_guard" /\ p.pc = "decide" /\ p.object = cache[i]
          /\ object[i][cache[i]] \in Reviewable
       \/ /\ q.pc \in {"get_journal"} \cup Between /\ p.pc \in Between
          /\ p.pc = "cache_match" => q.pc = "latest_match"
          /\ p.object = q.object
       \/ q.pc = "save_journal" /\ p.pc = "store_journal" /\ p.object = q.object

StatusEffect(r, i, q, p) ==
    \/ Ends(i, q, p)
    \/ Selects(r, i, q, p)
    \/ Caches(i, q, p)
    \/ Serialises(i, q, p)
    \/ Commits(i, q, p)
    \/ Writes(i, q, p)
    \/ GoesOn(i, q, p)

LEMMA FinishEnds ==
    ASSUME Typed, NEW r \in Callers, NEW i, Finish(r), UNCHANGED <<object, cache, invoiceRow>>
    PROVE  Ends(i, req[r], req'[r])
BY FinishMoves DEF Ends, Typed, TypeOK

LEMMA SaveStepEffect ==
    ASSUME Typed, NEW r \in Callers, SaveStep(r), NEW i \in Invoices, i = Inv(r)
    PROVE  /\ StatusEffect(r, i, req[r], req'[r])
           /\ req'[r] = IdleRequest \/ req'[r].inv = i
<1> DEFINE q == req[r]
<1>h. /\ q \in Request /\ req \in [Callers -> Request] /\ i = q.inv /\ q.object \in Makers
      /\ Held(r, q) /\ r \in Makers /\ Inv(r) \in Invoices
  BY InHandler DEF Makers
<1>t. /\ object \in [Invoices -> [Makers -> Status \cup {"absent"}]]
      /\ cache \in [Invoices -> Makers \cup {"none"}]
      /\ invoiceRow \in [Invoices -> Status \cup {"absent"}]
  BY DEF Typed, TypeOK
<1>1. CASE SelectInvoice(r)
  <2>1. /\ q.pc = "select_invoice" /\ Goto(r, "cache_invoice") /\ "cache_invoice" \in Steps
        /\ object' = [object EXCEPT ![i][r] = invoiceRow[i]]
        /\ UNCHANGED <<cache, invoiceRow>>
    BY <1>1 DEF SelectInvoice, At, Steps, LoadSteps, tables
  <2>2. /\ req'[r].pc = "cache_invoice" /\ req'[r].next = q.next
        /\ req'[r].object = q.object /\ req'[r].inv = q.inv
    BY <1>h, <2>1, GotoMoves
  <2>3. q.object = r
    BY <1>h, <2>1 DEF Held, LoadSteps
  <2>4. Selects(r, i, q, req'[r])
    BY <1>t, <2>1, <2>2, <2>3 DEF Selects
  <2>5. QED
    BY <1>h, <2>2, <2>4 DEF StatusEffect
<1>2. CASE CacheInvoice(r)
  <2>1. /\ q.pc = "cache_invoice" /\ Resume(r) /\ cache' = [cache EXCEPT ![i] = r]
        /\ UNCHANGED <<object, invoiceRow>>
    BY <1>2 DEF CacheInvoice, At, tables
  <2>2. /\ req'[r].pc = q.next /\ req'[r].next = "idle"
        /\ req'[r].object = q.object /\ req'[r].inv = q.inv
    BY <1>h, <2>1, ResumeMoves
  <2>3. q.object = r
    BY <1>h, <2>1 DEF Held, LoadSteps
  <2>4. Caches(i, q, req'[r])
    BY <1>t, <2>1, <2>2, <2>3 DEF Caches
  <2>5. QED
    BY <1>h, <2>2, <2>4 DEF StatusEffect
<1>3. CASE Serialise(r)
  <2>1. q.pc = "serialise" /\ UNCHANGED <<object, cache, invoiceRow>>
    BY <1>3 DEF Serialise, At, memory, tables
  <2>2. HeldStatus(r) \in Status
    BY <2>1, InHandler DEF LoadSteps
  <2>3. /\ req'[r].pc = "commit" /\ req'[r].next = q.next /\ req'[r].inv = q.inv
        /\ req'[r].object = q.object /\ req'[r].row = HeldStatus(r)
    BY <1>3, <1>h, <2>2, SerialiseMoves
  <2>4. Serialises(i, q, req'[r])
    BY <2>1, <2>3 DEF Serialises, StatusSame, HeldStatus
  <2>5. QED
    BY <1>h, <2>3, <2>4 DEF StatusEffect
<1>4. CASE Commit(r)
  <2>1. /\ q.pc = "commit" /\ Resume(r) /\ UNCHANGED <<object, cache>>
        /\ invoiceRow' = [invoiceRow EXCEPT ![i] = q.row]
    BY <1>4 DEF Commit, WriteInvoiceRow, At, memory
  <2>2. /\ req'[r].pc = q.next /\ req'[r].next = "idle"
        /\ req'[r].object = q.object /\ req'[r].inv = q.inv
    BY <1>h, <2>1, ResumeMoves
  <2>3. Commits(i, q, req'[r])
    BY <1>t, <2>1, <2>2 DEF Commits
  <2>4. QED
    BY <1>h, <2>2, <2>3 DEF StatusEffect
<1>5. CASE Done(r) \/ ReadFails(r)
  <2>1. Finish(r) /\ UNCHANGED <<object, cache, invoiceRow>>
    BY <1>5 DEF Done, ReadFails, memory, tables
  <2>2. QED
    BY <1>h, <2>1, FinishEnds, FinishMoves DEF StatusEffect
<1>6. CASE WriteFails(r)
  <2>1. Finish(r) /\ UNCHANGED <<object, cache>>
    BY <1>6 DEF WriteFails, memory
  <2>2. req'[r] = IdleRequest
    BY <1>h, <2>1, FinishMoves
  <2>3. \/ invoiceRow' = invoiceRow
        \/ q.pc = "commit" /\ invoiceRow' = [invoiceRow EXCEPT ![i] = q.row]
    BY <1>6 DEF WriteFails, tables, WriteMatchRow, WriteInvoiceRow, WriteJournalRow, At
  <2>4. Ends(i, q, req'[r])
    BY <1>t, <2>1, <2>2, <2>3 DEF Ends
  <2>5. QED
    BY <2>2, <2>4 DEF StatusEffect
<1>7. QED
  BY <1>1, <1>2, <1>3, <1>4, <1>5, <1>6 DEF SaveStep

LEMMA WriteEffect ==
    ASSUME Typed, NEW r \in Callers, NEW i \in Invoices, i = Inv(r), NEW m \in Makers,
           NEW st \in Status, NEW next \in AfterSave, WriteStatus(r, m, st, next),
           Writing(i, req[r], m, st, next)
    PROVE  /\ StatusEffect(r, i, req[r], req'[r])
           /\ req'[r] = IdleRequest \/ req'[r].inv = i
<1>1. /\ req \in [Callers -> Request] /\ i = req[r].inv
      /\ object \in [Invoices -> [Makers -> Status \cup {"absent"}]]
      /\ cache \in [Invoices -> Makers \cup {"none"}]
  BY DEF Typed, TypeOK, Inv
<1>2. next \in Steps
  BY DEF AfterSave, Steps, MatchSteps, DecideSteps, PostSteps
<1>3. /\ req'[r].pc = "serialise" /\ req'[r].next = next /\ req'[r].object = m
      /\ req'[r].inv = i
  BY <1>1, <1>2, WriteMoves
<1>4. /\ object' = [object EXCEPT ![i][m] = st] /\ cache' = [cache EXCEPT ![i] = m]
      /\ UNCHANGED invoiceRow
  BY DEF WriteStatus, tables
<1>5. /\ object'[i] = [object[i] EXCEPT ![m] = st] /\ cache'[i] = m
      /\ invoiceRow'[i] = invoiceRow[i]
  BY <1>1, <1>4
<1>6. Writes(i, req[r], req'[r])
  BY <1>3, <1>5 DEF Writes
<1>7. QED
  BY <1>3, <1>6 DEF StatusEffect

LEMMA MatchStepEffect ==
    ASSUME Typed, NEW r \in Callers, MatchStep(r), NEW i \in Invoices, i = Inv(r)
    PROVE  /\ StatusEffect(r, i, req[r], req'[r])
           /\ req'[r] = IdleRequest \/ req'[r].inv = i
<1> DEFINE q == req[r]
           Goal == /\ StatusEffect(r, i, req[r], req'[r])
                   /\ req'[r] = IdleRequest \/ req'[r].inv = i
<1>h. /\ q \in Request /\ req \in [Callers -> Request] /\ i = q.inv /\ q.object \in Makers
  BY InHandler
<1>f. ASSUME Finish(r), UNCHANGED <<object, cache, invoiceRow>> PROVE Goal
  BY <1>h, <1>f, FinishEnds, FinishMoves DEF StatusEffect
<1>1. CASE MatchGuard(r)
  <2>1. /\ q.pc = "match_guard" /\ UNCHANGED <<object, cache, invoiceRow>>
        /\ Finish(r) \/ (Goto(r, "run_match") /\ object[i][cache[i]] \notin Settled)
        /\ "run_match" \in Steps
    BY <1>1 DEF MatchGuard, At, memory, tables, Steps, MatchSteps
  <2>2. CASE Goto(r, "run_match") /\ object[i][cache[i]] \notin Settled
    <3>1. req'[r].pc = "run_match" /\ req'[r].inv = i
      BY <1>h, <2>1, <2>2, GotoMoves
    <3>2. GoesOn(i, q, req'[r])
      BY <2>1, <2>2, <3>1 DEF GoesOn, StatusSame
    <3>3. QED
      BY <3>1, <3>2 DEF StatusEffect
  <2>3. QED
    BY <1>f, <2>1, <2>2
<1>2. CASE RunMatch(r)
  <2>1. q.pc = "run_match" /\ UNCHANGED <<object, cache, invoiceRow>>
    BY <1>2 DEF RunMatch, At, memory, tables
  <2>2. cache[Inv(r)] \in Makers
    BY <2>1, InHandler DEF LoadSteps
  <2>3. req'[r].pc = "save_match" /\ req'[r].inv = i /\ req'[r].object = cache[i]
    BY <1>2, <1>h, <2>2, RunMatchMoves
  <2>4. GoesOn(i, q, req'[r])
    BY <2>1, <2>3 DEF GoesOn, StatusSame
  <2>5. QED
    BY <2>3, <2>4 DEF StatusEffect
<1>3. CASE MatchFails(r)
  BY <1>3, <1>f DEF MatchFails, memory, tables
<1>4. CASE SaveMatch(r)
  <2>1. /\ q.pc = "save_match" /\ Goto(r, "store_match") /\ "store_match" \in Steps
        /\ UNCHANGED <<object, cache, invoiceRow>>
    BY <1>4 DEF SaveMatch, At, tables, Steps, MatchSteps
  <2>2. req'[r].pc = "store_match" /\ req'[r].inv = i /\ req'[r].object = q.object
    BY <1>h, <2>1, GotoMoves
  <2>3. GoesOn(i, q, req'[r])
    BY <2>1, <2>2 DEF GoesOn, StatusSame
  <2>4. QED
    BY <2>2, <2>3 DEF StatusEffect
<1>5. CASE StoreMatch(r)
  <2>1. /\ q.pc = "store_match" /\ Goto(r, "set_status") /\ "set_status" \in Steps
        /\ UNCHANGED <<object, cache, invoiceRow>>
    BY <1>5 DEF StoreMatch, WriteMatchRow, At, memory, Steps, MatchSteps
  <2>2. req'[r].pc = "set_status" /\ req'[r].inv = i /\ req'[r].object = q.object
    BY <1>h, <2>1, GotoMoves
  <2>3. GoesOn(i, q, req'[r])
    BY <2>1, <2>2 DEF GoesOn, StatusSame
  <2>4. QED
    BY <2>2, <2>3 DEF StatusEffect
<1>6. CASE SetMatchStatus(r)
  <2> DEFINE st == IF q.matched THEN "MATCHED" ELSE "EXCEPTION"
  <2>1. WriteStatus(r, q.object, st, "evaluate_match") /\ q.pc = "set_status"
    BY <1>6 DEF SetMatchStatus, At
  <2>2. /\ st \in Status /\ st \in {"MATCHED", "EXCEPTION"}
        /\ "evaluate_match" \in AfterSave
    BY DEF Status, AfterSave
  <2> HIDE DEF st
  <2>3. Writing(i, q, q.object, st, "evaluate_match")
    BY <2>1, <2>2 DEF Writing
  <2>4. QED
    BY <1>h, <2>1, <2>2, <2>3, WriteEffect
<1>7. ASSUME NEW requested \in AgentActions, EvaluateMatch(r, requested) PROVE Goal
  <2>1. q.pc = "evaluate_match" /\ UNCHANGED <<object, cache, invoiceRow>>
    BY <1>7 DEF EvaluateMatch, At, memory, tables
  <2>2. cache[Inv(r)] \in Makers
    BY <2>1, InHandler DEF LoadSteps
  <2>3. /\ req'[r].inv = i
        /\ \/ req'[r].pc = "get_journal" /\ req'[r].object = cache[i]
           \/ req'[r].pc = "finalize" /\ req'[r].object = q.object
    BY <1>7, <1>h, <2>2, EvaluateMoves
  <2>4. GoesOn(i, q, req'[r])
    BY <2>1, <2>3 DEF GoesOn, StatusSame
  <2>5. QED
    BY <2>3, <2>4 DEF StatusEffect
<1>8. CASE Finalize(r)
  <2>1. q.pc = "finalize"
    BY <1>8 DEF Finalize, At
  <2>2. CASE WriteStatus(r, cache[Inv(r)], "AWAITING_APPROVAL", "done")
    <3>1. "AWAITING_APPROVAL" \in Status /\ "done" \in AfterSave
      BY DEF Status, AfterSave
    <3>2. PICK m \in Makers : m = cache[i]
      BY <2>1, InHandler DEF LoadSteps
    <3>3. Writing(i, q, m, "AWAITING_APPROVAL", "done")
      BY <2>1, <3>2 DEF Writing
    <3>4. QED
      BY <2>2, <3>1, <3>2, <3>3, WriteEffect
  <2>3. CASE Finish(r) /\ UNCHANGED <<memory, tables>>
    BY <1>f, <2>3 DEF memory, tables
  <2>4. QED
    BY <1>8, <2>2, <2>3 DEF Finalize
<1>9. QED
  BY <1>1, <1>2, <1>3, <1>4, <1>5, <1>6, <1>7, <1>8 DEF MatchStep

LEMMA DecideStepEffect ==
    ASSUME Typed, NEW r \in Callers, DecideStep(r), NEW i \in Invoices, i = Inv(r)
    PROVE  /\ StatusEffect(r, i, req[r], req'[r])
           /\ req'[r] = IdleRequest \/ req'[r].inv = i
<1> DEFINE q == req[r]
<1>h. /\ q \in Request /\ req \in [Callers -> Request] /\ i = q.inv /\ q.object \in Makers
  BY InHandler
<1>1. CASE DecideGuard(r)
  <2>1. q.pc = "decide_guard" /\ UNCHANGED <<object, cache, invoiceRow>>
    BY <1>1 DEF DecideGuard, At, memory, tables
  <2>2. cache[Inv(r)] \in Makers
    BY <2>1, InHandler DEF LoadSteps
  <2>3. \/ req'[r] = IdleRequest
        \/ /\ object[i][cache[i]] \in Reviewable /\ req'[r].pc = "decide"
           /\ req'[r].inv = i /\ req'[r].object = cache[i]
    BY <1>1, <1>h, <2>2, DecideGuardMoves
  <2>4. Ends(i, q, req'[r]) \/ GoesOn(i, q, req'[r])
    BY <2>1, <2>3 DEF Ends, GoesOn, StatusSame
  <2>5. QED
    BY <2>3, <2>4 DEF StatusEffect
<1>2. CASE RecordDecision(r)
  <2> DEFINE st == IF q.approved THEN "APPROVED" ELSE "REJECTED"
  <2>1. WriteStatus(r, q.object, st, "decided") /\ q.pc = "decide"
    BY <1>2 DEF RecordDecision, At
  <2>2. /\ st \in Status /\ st \in {"APPROVED", "REJECTED"}
        /\ "decided" \in AfterSave
    BY DEF Status, AfterSave
  <2> HIDE DEF st
  <2>3. Writing(i, q, q.object, st, "decided")
    BY <2>1, <2>2 DEF Writing
  <2>4. QED
    BY <1>h, <2>1, <2>2, <2>3, WriteEffect
<1>3. CASE AnswerDecision(r)
  <2>1. Finish(r) /\ UNCHANGED <<object, cache, invoiceRow>>
    BY <1>3 DEF AnswerDecision, memory, tables
  <2>2. QED
    BY <1>h, <2>1, FinishEnds, FinishMoves DEF StatusEffect
<1>4. QED
  BY <1>1, <1>2, <1>3 DEF DecideStep

LEMMA PostStepEffect ==
    ASSUME Typed, NEW r \in Callers, PostStep(r), NEW i \in Invoices, i = Inv(r)
    PROVE  /\ StatusEffect(r, i, req[r], req'[r])
           /\ req'[r] = IdleRequest \/ req'[r].inv = i
<1> DEFINE q == req[r]
           Goal == /\ StatusEffect(r, i, req[r], req'[r])
                   /\ req'[r] = IdleRequest \/ req'[r].inv = i
<1>h. /\ q \in Request /\ req \in [Callers -> Request] /\ i = q.inv /\ q.object \in Makers
      /\ calls \subseteq Call
  BY InHandler DEF Typed, TypeOK, ErpTypeOK
<1> USE DEF memory, tables
<1>f. ASSUME Finish(r), UNCHANGED <<object, cache, invoiceRow>> PROVE Goal
  BY <1>h, <1>f, FinishEnds, FinishMoves DEF StatusEffect
<1>g. ASSUME UNCHANGED <<object, cache, invoiceRow>>,
             req'[r].inv = i, req'[r].object = q.object,
             \/ /\ q.pc \in {"get_journal"} \cup Between /\ req'[r].pc \in Between
                /\ req'[r].pc = "cache_match" => q.pc = "latest_match"
             \/ q.pc = "save_journal" /\ req'[r].pc = "store_journal"
      PROVE  Goal
  <2>1. GoesOn(i, q, req'[r])
    BY <1>g DEF GoesOn, StatusSame
  <2>2. QED
    BY <1>g, <2>1 DEF StatusEffect
<1>1. ASSUME NEW j \in journals \cup journalRows, ReplayJournal(r, j) PROVE Goal
  BY <1>1, <1>f DEF ReplayJournal
<1>2. CASE NoKnownJournal(r)
  <2>1. /\ q.pc = "get_journal" /\ Goto(r, "latest_match") /\ "latest_match" \in Steps
        /\ UNCHANGED <<object, cache, invoiceRow>>
    BY <1>2 DEF NoKnownJournal, At, Steps, PostSteps
  <2>2. /\ req'[r].pc = "latest_match" /\ req'[r].inv = i /\ req'[r].object = q.object
    BY <1>h, <2>1, GotoMoves
  <2>3. QED
    BY <1>g, <2>1, <2>2 DEF Between
<1>3. ASSUME NEW matched \in BOOLEAN, LatestMatch(r, matched) PROVE Goal
  <2>1. /\ q.pc = "latest_match" /\ UNCHANGED <<object, cache, invoiceRow>>
    BY <1>3 DEF LatestMatch, At
  <2>2. /\ req'[r].pc \in {"post_guard", "cache_match"} /\ req'[r].inv = i
        /\ req'[r].object = q.object
    BY <1>h, <1>3, LatestMatchMoves
  <2>3. QED
    BY <1>g, <2>1, <2>2 DEF Between
<1>4. CASE NoMatch(r)
  BY <1>4, <1>f DEF NoMatch
<1>5. CASE CacheMatch(r)
  <2>1. /\ q.pc = "cache_match" /\ Goto(r, "post_guard") /\ "post_guard" \in Steps
        /\ UNCHANGED <<object, cache, invoiceRow>>
    BY <1>5 DEF CacheMatch, At, Steps, PostSteps
  <2>2. /\ req'[r].pc = "post_guard" /\ req'[r].inv = i /\ req'[r].object = q.object
    BY <1>h, <2>1, GotoMoves
  <2>3. QED
    BY <1>g, <2>1, <2>2 DEF Between
<1>6. CASE PostGuard(r)
  <2>1. q.pc = "post_guard" /\ UNCHANGED <<object, cache, invoiceRow>>
    BY <1>6 DEF PostGuard, At
  <2>2. \/ req'[r] = IdleRequest
        \/ req'[r].pc = "erp_call" /\ req'[r].inv = i /\ req'[r].object = q.object
    BY <1>h, <1>6, PostGuardMoves
  <2>3. CASE req'[r] = IdleRequest
    BY <2>1, <2>3 DEF Ends, StatusEffect
  <2>4. QED
    BY <1>g, <2>1, <2>2, <2>3 DEF Between
<1>7. CASE SendJournal(r)
  <2>1. /\ q.pc = "erp_call" /\ Goto(r, "await_erp") /\ "await_erp" \in Steps
        /\ UNCHANGED <<object, cache, invoiceRow>>
    BY <1>7 DEF SendJournal, At, Steps, PostSteps
  <2>2. /\ req'[r].pc = "await_erp" /\ req'[r].inv = i /\ req'[r].object = q.object
    BY <1>h, <2>1, GotoMoves
  <2>3. QED
    BY <1>g, <2>1, <2>2 DEF Between
<1>8. ASSUME NEW c \in CallOf(r), ReceiveJournal(r, c) PROVE Goal
  <2>1. /\ q.pc = "await_erp" /\ c \in Call
        /\ UNCHANGED <<object, cache, invoiceRow>>
    BY <1>h, <1>8 DEF ReceiveJournal, At, CallOf
  <2>2. /\ req'[r].pc = "set_posted" /\ req'[r].inv = i /\ req'[r].object = q.object
    BY <1>h, <1>8, <2>1, ReceiveMoves
  <2>3. QED
    BY <1>g, <2>1, <2>2 DEF Between
<1>9. ASSUME NEW c \in CallOf(r), PostFails(r, c) \/ CallTimesOut(r, c) PROVE Goal
  BY <1>9, <1>f DEF PostFails, CallTimesOut
<1>10. CASE SetPosted(r)
  <2>1. /\ WriteStatus(r, q.object, "POSTED", "save_journal") /\ q.pc = "set_posted"
        /\ "POSTED" \in Status /\ "save_journal" \in AfterSave
    BY <1>10 DEF SetPosted, At, Status, AfterSave
  <2>2. Writing(i, q, q.object, "POSTED", "save_journal")
    BY <2>1 DEF Writing
  <2>3. QED
    BY <1>h, <2>1, <2>2, WriteEffect
<1>11. CASE SaveJournal(r)
  <2>1. /\ q.pc = "save_journal" /\ Goto(r, "store_journal") /\ "store_journal" \in Steps
        /\ UNCHANGED <<object, cache, invoiceRow>>
    BY <1>11 DEF SaveJournal, At, Steps, PostSteps
  <2>2. /\ req'[r].pc = "store_journal" /\ req'[r].inv = i /\ req'[r].object = q.object
    BY <1>h, <2>1, GotoMoves
  <2>3. QED
    BY <1>g, <2>1, <2>2
<1>12. CASE StoreJournal(r)
  BY <1>12, <1>f DEF StoreJournal, WriteJournalRow
<1>13. QED
  BY <1>1, <1>2, <1>3, <1>4, <1>5, <1>6, <1>7, <1>8, <1>9, <1>10, <1>11, <1>12
  DEF PostStep

LEMMA StepEffect ==
    ASSUME Typed, NEW r \in Callers, HandlerStep(r), NEW i \in Invoices, i = Inv(r)
    PROVE  /\ StatusEffect(r, i, req[r], req'[r])
           /\ req'[r] = IdleRequest \/ req'[r].inv = i
BY SaveStepEffect, MatchStepEffect, DecideStepEffect, PostStepEffect DEF HandlerStep

---------------------------------------------------------------------------
(* Without overlap one thread at a time works on an invoice.               *)

\* A thread with these fields works on invoice i.
On(q, i) == q.pc # "idle" /\ q.inv = i

AloneInv ==
    \A i \in Invoices : "overlap" \notin disturbed[i] =>
        \A r, s \in Callers : On(req[r], i) /\ On(req[s], i) => r = s

\* A handler step is not of an idle thread.
LEMMA NotIdle ==
    ASSUME NEW r \in Callers, HandlerStep(r)
    PROVE  req[r].pc # "idle"
<1>1. SaveStep(r) => req[r].pc # "idle"
  BY DEF SaveStep, SelectInvoice, CacheInvoice, Serialise, Commit, Done, ReadFails,
         WriteFails, WriteMatchRow, WriteInvoiceRow, WriteJournalRow, At
<1>2. MatchStep(r) \/ DecideStep(r) => req[r].pc # "idle"
  BY DEF MatchStep, MatchGuard, RunMatch, MatchFails, SaveMatch, StoreMatch,
         WriteMatchRow, SetMatchStatus, EvaluateMatch, Finalize, DecideStep, DecideGuard,
         RecordDecision, AnswerDecision, At
<1>3. PostStep(r) => req[r].pc # "idle"
  BY DEF PostStep, ReplayJournal, NoKnownJournal, LatestMatch, NoMatch, CacheMatch,
         PostGuard, SendJournal, ReceiveJournal, PostFails, CallTimesOut, SetPosted,
         SaveJournal, StoreJournal, WriteJournalRow, At
<1>4. QED
  BY <1>1, <1>2, <1>3 DEF HandlerStep

\* The threads on an invoice after a handler step were on it before.
LEMMA OnBefore ==
    ASSUME Typed, NEW r \in Callers, HandlerStep(r), NEW s \in Callers,
           NEW k \in Invoices, On(req'[s], k)
    PROVE  /\ On(req[s], k)
           /\ s # r => req'[s] = req[s]
           /\ s = r => k = Inv(r) /\ req'[r] # IdleRequest
<1>1. Inv(r) \in Invoices /\ Inv(r) = req[r].inv
  BY InHandler
<1>2. \A t \in Callers \ {r} : req'[t] = req[t]
  BY StepFrame
<1>3. CASE s # r
  BY <1>2, <1>3
<1>4. CASE s = r
  <2>1. req'[r] = IdleRequest \/ req'[r].inv = Inv(r)
    BY <1>1, StepEffect
  <2>2. req[r].pc # "idle"
    BY NotIdle
  <2>3. req'[r].pc # "idle" /\ req'[r].inv = k
    BY <1>4 DEF On
  <2>4. req'[r] # IdleRequest
    BY <2>3, RequestTypes
  <2>5. QED
    BY <1>1, <1>4, <2>1, <2>2, <2>3, <2>4 DEF On
<1>5. QED
  BY <1>3, <1>4

\* A disturbance is not forgotten.
LEMMA DisturbedStays ==
    ASSUME Typed, [Next]_vars, NEW i \in Invoices
    PROVE  disturbed[i] \subseteq disturbed'[i]
<1>1. ASSUME NEW k \in Invoices, NEW what \in SUBSET Disturbances, Trouble(k, what)
      PROVE  disturbed[i] \subseteq disturbed'[i]
  BY <1>1, TroubleTypes
<1>2. ASSUME NEW r \in Callers, HandlerStep(r)
      PROVE  disturbed[i] \subseteq disturbed'[i]
  BY <1>2, StepFrame, DisturbedGrows
<1>3. ASSUME NEW k \in Invoices, NEW stored \in BOOLEAN, Ingest(k, stored)
      PROVE  disturbed[i] \subseteq disturbed'[i]
  <2>1. Trouble(k, {"failed_write"}) \/ UNCHANGED disturbed
    BY <1>3 DEF Ingest
  <2>2. QED
    BY <2>1, <1>1 DEF Disturbances
<1>4. ASSUME NEW r \in Callers, NEW k \in Invoices, NewRequest(r, k)
      PROVE  disturbed[i] \subseteq disturbed'[i]
  <2>1. Trouble(k, {"overlap"}) \/ UNCHANGED disturbed
    BY <1>4 DEF NewRequest, StartMatch, StartPost, StartDecision, Enter
  <2>2. QED
    BY <2>1, <1>1 DEF Disturbances
<1>5. CASE ErpServes \/ Restart \/ UNCHANGED vars
  BY <1>5 DEF ErpServes, Restart, vars, watch
<1>6. QED
  BY <1>2, <1>3, <1>4, <1>5 DEF Next, HandlerStep

\* What a request that starts finds, and whom it joins.
LEMMA StartsAlone ==
    ASSUME Typed, NEW r \in Callers, NEW i \in Invoices, NewRequest(r, i)
    PROVE  /\ req[r].pc = "idle"
           /\ req'[r].inv = i
           /\ \A s \in Callers \ {r} : req'[s] = req[s]
           /\ "overlap" \notin disturbed'[i] =>
                /\ \A s \in Callers : ~On(req[s], i)
                /\ disturbed'[i] = disturbed[i]
<1>1. req \in [Callers -> Request] /\ cache[i] \in Makers \cup {"none"}
  BY DEF Typed, TypeOK
<1>2. /\ At(r, "idle") /\ req' = [req EXCEPT ![r] = req'[r]] /\ req'[r].inv = i
      /\ IF Busy(i) THEN Trouble(i, {"overlap"}) ELSE UNCHANGED <<troubles, disturbed>>
  BY <1>1, EnterMoves
<1>3. CASE Busy(i)
  <2>1. Trouble(i, {"overlap"}) /\ {"overlap"} \in SUBSET Disturbances
    BY <1>2, <1>3 DEF Disturbances
  <2>2. "overlap" \in disturbed'[i]
    BY <2>1, TroubleTypes
  <2>3. QED
    BY <1>1, <1>2, <2>2 DEF At
<1>4. CASE ~Busy(i)
  <2>1. \A s \in Callers : ~On(req[s], i)
    BY <1>4 DEF Busy, At, Inv, On
  <2>2. UNCHANGED disturbed
    BY <1>2, <1>4
  <2>3. QED
    BY <1>1, <1>2, <2>1, <2>2 DEF At
<1>5. QED
  BY <1>3, <1>4

LEMMA AloneStep == Typed /\ AloneInv /\ [Next]_vars => AloneInv'
<1> SUFFICES ASSUME Typed, AloneInv, [Next]_vars, NEW i \in Invoices,
                    "overlap" \notin disturbed'[i],
                    NEW u \in Callers, NEW v \in Callers, On(req'[u], i), On(req'[v], i)
             PROVE  u = v
  BY DEF AloneInv, On
<1>1. "overlap" \notin disturbed[i]
  BY DisturbedStays
<1>2. ASSUME NEW r \in Callers, HandlerStep(r) PROVE u = v
  BY <1>1, <1>2, OnBefore DEF AloneInv
<1>3. ASSUME NEW r \in Callers, NEW k \in Invoices, NewRequest(r, k) PROVE u = v
  <2>1. /\ req[r].pc = "idle" /\ req'[r].inv = k
        /\ \A s \in Callers \ {r} : req'[s] = req[s]
        /\ k = i => \A s \in Callers : ~On(req[s], i)
    BY <1>3, StartsAlone
  <2>2. CASE k = i
    BY <2>1, <2>2
  <2>3. CASE k # i
    <3>1. u # r /\ v # r
      BY <2>1, <2>3 DEF On
    <3>2. QED
      BY <1>1, <2>1, <3>1 DEF AloneInv
  <2>4. QED
    BY <2>2, <2>3
<1>4. CASE Restart
  <2>1. req'[u] = IdleRequest
    BY <1>4 DEF Restart, NoRequests
  <2>2. QED
    BY <2>1, RequestTypes DEF On
<1>5. CASE UNCHANGED req
  BY <1>1, <1>5 DEF AloneInv
<1>6. ErpServes \/ UNCHANGED vars \/ (\E k \in Invoices, st \in BOOLEAN : Ingest(k, st))
        => UNCHANGED req
  BY DEF ErpServes, vars, Ingest
<1>7. QED
  BY <1>2, <1>3, <1>4, <1>5, <1>6 DEF Next, HandlerStep

LEMMA AloneInit == Init => AloneInv
BY RequestTypes DEF Init, NoRequests, AloneInv, On

---------------------------------------------------------------------------
(* A decision the reviewer was told of is stored.                          *)

\* A thread q with a decision to store, where o are the objects of its invoice,
\* c is the cached one and w the row.
Deciding(q, o, c, w) ==
    Where(q) = "decided" =>
        /\ c = q.object
        /\ o[q.object] \in Settled
        /\ q.pc = "commit" => q.row \in Settled
        /\ q.pc = "decided" => w \in Settled

\* A thread on an invoice that is decided: it can only post it, or has not yet
\* seen that it is decided.
Calm(q, o) ==
    /\ Where(q) \in {"match_guard", "decide_guard"} \cup PostSteps
    /\ q.pc # "select_invoice" => o[q.object] \in Settled
    /\ q.pc = "commit" => q.row \in Settled

\* What the decision of an invoice has come to, its threads apart.
Decided(o, c, w) == w \in Settled /\ (c # "none" => o[c] \in Settled)

DecisionAt(i) ==
    /\ \A r \in Callers : On(req[r], i) =>
         Deciding(req[r], object[i], cache[i], invoiceRow[i])
    /\ i \in answered =>
         /\ Decided(object[i], cache[i], invoiceRow[i])
         /\ \A r \in Callers : On(req[r], i) => Calm(req[r], object[i])

DecisionInv == \A i \in Invoices : "overlap" \notin disturbed[i] => DecisionAt(i)

\* A step of the only thread on i.
LEMMA DecidingEffect ==
    ASSUME Typed, NEW r \in Callers, NEW i \in Invoices,
           NEW q \in Request, NEW p \in Request, q = req[r], i = q.inv, q.pc # "idle",
           StatusEffect(r, i, q, p), p # IdleRequest,
           Deciding(q, object[i], cache[i], invoiceRow[i])
    PROVE  Deciding(p, object'[i], cache'[i], invoiceRow'[i])
<1>h. /\ object[i] \in [Makers -> Status \cup {"absent"}] /\ Held(r, q)
      /\ q.object \in Makers
  BY InHandler DEF Inv
<1> USE DEF Deciding, Where, LoadSteps, SaveSteps
<1>1. CASE Selects(r, i, q, p)
  BY <1>h, <1>1 DEF Selects, Held, Starts
<1>2. CASE Caches(i, q, p)
  BY <1>h, <1>2 DEF Caches, Held, Starts
<1>3. CASE Serialises(i, q, p)
  BY <1>3 DEF Serialises, StatusSame
<1>4. CASE Commits(i, q, p)
  BY <1>h, <1>4 DEF Commits, Held, AfterSave
<1>5. CASE Writes(i, q, p)
  <2>1. PICK m \in Makers, st \in Status, next \in AfterSave :
          /\ Writing(i, q, m, st, next)
          /\ p.pc = "serialise" /\ p.next = next /\ p.object = m
          /\ object'[i] = [object[i] EXCEPT ![m] = st]
          /\ cache'[i] = m /\ invoiceRow'[i] = invoiceRow[i]
    BY <1>5 DEF Writes
  <2>2. object'[i][m] = st
    BY <1>h, <2>1
  <2>3. next = "decided" => st \in Settled
    BY <2>1 DEF Writing, Settled
  <2>4. QED
    BY <2>1, <2>2, <2>3
<1>6. CASE GoesOn(i, q, p)
  BY <1>6 DEF GoesOn, Between
<1>7. QED
  BY <1>1, <1>2, <1>3, <1>4, <1>5, <1>6 DEF StatusEffect, Ends

LEMMA CalmEffect ==
    ASSUME Typed, NEW r \in Callers, NEW i \in Invoices,
           NEW q \in Request, NEW p \in Request, q = req[r], i = q.inv, q.pc # "idle",
           StatusEffect(r, i, q, p), p # IdleRequest,
           Decided(object[i], cache[i], invoiceRow[i]), Calm(q, object[i])
    PROVE  Decided(object'[i], cache'[i], invoiceRow'[i]) /\ Calm(p, object'[i])
<1>h. /\ object[i] \in [Makers -> Status \cup {"absent"}] /\ Held(r, q)
      /\ q.object \in Makers /\ r \in Makers
      /\ cache[i] \in Makers \cup {"none"} /\ r # "none"
  BY InHandler, DurableConstants DEF Inv, Makers
<1> USE DEF Calm, Decided, Where, LoadSteps, SaveSteps
<1>1. CASE Selects(r, i, q, p)
  <2>1. object'[i][r] \in Settled
    BY <1>h, <1>1 DEF Selects
  <2>2. cache[i] # "none" => object'[i][cache[i]] \in Settled
    BY <1>h, <1>1 DEF Selects
  <2>3. QED
    BY <1>1, <2>1, <2>2 DEF Selects
<1>2. CASE Caches(i, q, p)
  BY <1>h, <1>2 DEF Caches, Held, Starts, PostSteps
<1>3. CASE Serialises(i, q, p)
  BY <1>3 DEF Serialises, StatusSame
<1>4. CASE Commits(i, q, p)
  BY <1>h, <1>4 DEF Commits, Held, AfterSave, PostSteps
<1>5. CASE Writes(i, q, p)
  <2>1. PICK m \in Makers, st \in Status, next \in AfterSave :
          /\ Writing(i, q, m, st, next)
          /\ p.pc = "serialise" /\ p.next = next /\ p.object = m
          /\ object'[i] = [object[i] EXCEPT ![m] = st]
          /\ cache'[i] = m /\ invoiceRow'[i] = invoiceRow[i]
    BY <1>5 DEF Writes
  <2>2. object'[i][m] = st
    BY <1>h, <2>1
  <2>3. q.pc = "set_posted" /\ next = "save_journal" /\ st \in Settled
    BY <2>1 DEF Writing, Settled, PostSteps
  <2>4. QED
    BY <2>1, <2>2, <2>3 DEF PostSteps
<1>6. CASE GoesOn(i, q, p)
  <2>1. cache[i] # "none" /\ object[i][cache[i]] \in Settled
    BY <1>h, <1>6 DEF GoesOn, Held, Between
  <2>2. q.pc \notin {"match_guard", "decide_guard"}
    BY <1>6, <2>1 DEF GoesOn, Settled, Reviewable, Between
  <2>3. p.pc \in PostSteps /\ p.object = q.object /\ StatusSame(i)
    BY <1>6, <2>2 DEF GoesOn, PostSteps, Between
  <2>4. QED
    BY <1>6, <2>1, <2>3 DEF StatusSame, PostSteps, GoesOn, Between
<1>7. QED
  BY <1>1, <1>2, <1>3, <1>4, <1>5, <1>6 DEF StatusEffect, Ends

\* The thread ends: what it was told of is stored.
LEMMA EndEffect ==
    ASSUME Typed, NEW r \in Callers, NEW i \in Invoices,
           NEW q \in Request, q = req[r], i = q.inv, q.pc # "idle",
           StatusEffect(r, i, q, IdleRequest),
           \/ Decided(object[i], cache[i], invoiceRow[i]) /\ Calm(q, object[i])
           \/ q.pc = "decided" /\ Deciding(q, object[i], cache[i], invoiceRow[i])
    PROVE  Decided(object'[i], cache'[i], invoiceRow'[i])
<1>1. Held(r, q)
  BY InHandler DEF Inv
<1>2. Ends(i, q, IdleRequest)
  BY <1>1, RequestTypes
  DEF StatusEffect, Selects, Caches, Serialises, Commits, Writes, GoesOn, Held, Starts,
      AfterSave, LoadSteps, SaveSteps, Between
<1>3. QED
  BY <1>2 DEF Ends, Decided, Calm, Deciding, Where, LoadSteps, SaveSteps

LEMMA DecisionHandlerStep ==
    ASSUME Typed, AloneInv, DecisionInv, NEW r \in Callers, HandlerStep(r), Typed',
           NEW i \in Invoices, "overlap" \notin disturbed'[i],
           disturbed[i] \subseteq disturbed'[i]
    PROVE  DecisionAt(i)'
<1>1. DecisionAt(i) /\ "overlap" \notin disturbed[i]
  BY DEF DecisionInv
<1>2. Inv(r) \in Invoices /\ Inv(r) = req[r].inv /\ req[r] \in Request
  BY InHandler
<1>3. req[r].pc # "idle"
  BY NotIdle
<1>4. PICK p \in Request : p = req'[r]
  BY DEF Typed, TypeOK
<1>5. CASE i = Inv(r)
  <2>1. PICK q \in Request : q = req[r]
    BY <1>2
  <2>2. StatusEffect(r, i, q, p)
    BY <1>4, <1>5, <2>1, StepEffect
  <2>3. Deciding(q, object[i], cache[i], invoiceRow[i])
    BY <1>1, <1>2, <1>3, <1>5, <2>1 DEF DecisionAt, On
  <2>4. i \in answered => Decided(object[i], cache[i], invoiceRow[i]) /\ Calm(q, object[i])
    BY <1>1, <1>2, <1>3, <1>5, <2>1 DEF DecisionAt, On
  <2>5. i \in answered' => i \in answered \/ (q.pc = "decided" /\ p = IdleRequest)
    <3>1. answered' = answered \/ (req[r].pc = "decided" /\ Finish(r))
      BY StepFrame
    <3>2. Finish(r) => req'[r] = IdleRequest
      BY FinishMoves DEF Typed, TypeOK
    <3>3. QED
      BY <1>4, <2>1, <3>1, <3>2
  <2>6. ASSUME NEW s \in Callers, On(req'[s], i)
        PROVE  s = r /\ p # IdleRequest
    <3>1. On(req[s], i) /\ On(req[r], i) /\ (s = r => req'[r] # IdleRequest)
      BY <1>2, <1>3, <1>5, <2>6, OnBefore DEF On
    <3>2. s = r
      BY <1>1, <3>1 DEF AloneInv
    <3>3. QED
      BY <1>4, <3>1, <3>2
  <2>7. CASE p = IdleRequest
    <3>1. i \in answered' => Decided(object'[i], cache'[i], invoiceRow'[i])
      BY <1>2, <1>3, <1>5, <2>1, <2>2, <2>3, <2>4, <2>5, <2>7, EndEffect
    <3>2. QED
      BY <2>6, <2>7, <3>1 DEF DecisionAt, On
  <2>8. CASE p # IdleRequest
    <3>1. Deciding(p, object'[i], cache'[i], invoiceRow'[i])
      BY <1>2, <1>3, <1>5, <2>1, <2>2, <2>3, <2>8, DecidingEffect
    <3>2. i \in answered' => Decided(object'[i], cache'[i], invoiceRow'[i]) /\ Calm(p, object'[i])
      BY <1>2, <1>3, <1>5, <2>1, <2>2, <2>4, <2>5, <2>8, CalmEffect
    <3>3. \A s \in Callers : On(req'[s], i) => req'[s] = p
      BY <1>4, <2>6
    <3>4. QED
      BY <3>1, <3>2, <3>3 DEF DecisionAt, On, Deciding, Calm, Decided, Where
  <2>9. QED
    BY <2>7, <2>8
<1>6. CASE i # Inv(r)
  <2>1. /\ object'[i] = object[i] /\ cache'[i] = cache[i]
        /\ invoiceRow'[i] = invoiceRow[i]
        /\ i \in answered' => i \in answered
    BY <1>2, <1>6, StepFrame
  <2>2. \A s \in Callers : On(req'[s], i) => On(req[s], i) /\ req'[s] = req[s]
    BY <1>6, OnBefore
  <2>3. QED
    BY <1>1, <2>1, <2>2 DEF DecisionAt, On, Deciding, Calm, Decided, Where
<1>7. QED
  BY <1>5, <1>6

\* A request that starts on i when nobody else is on it.
LEMMA DecisionRequestStep ==
    ASSUME Typed, DecisionInv, NEW r \in Callers, NEW k \in Invoices, NewRequest(r, k),
           Typed', NEW i \in Invoices, "overlap" \notin disturbed'[i],
           disturbed[i] \subseteq disturbed'[i]
    PROVE  DecisionAt(i)'
<1>1. DecisionAt(i)
  BY DEF DecisionInv
<1>2. req \in [Callers -> Request] /\ cache[k] \in Makers \cup {"none"}
  BY DEF Typed, TypeOK
<1>3. /\ req[r].pc = "idle" /\ req'[r].inv = k
      /\ \A s \in Callers \ {r} : req'[s] = req[s]
      /\ k = i => \A s \in Callers : ~On(req[s], i)
  BY StartsAlone
<1>4. PICK p \in Request : p = req'[r]
  BY DEF Typed, TypeOK
<1>5. /\ UNCHANGED <<memory, tables, history, answered, erpVars>>
      /\ req'[r].row = "EXTRACTED"
      /\ IF cache[k] # "none"
         THEN req'[r].pc \in Starts /\ req'[r].object = cache[k]
         ELSE /\ req'[r].pc = "select_invoice" /\ req'[r].object = r
              /\ req'[r].next \in Starts
  BY <1>2, EnterMoves
<1>6. UNCHANGED <<object, cache, invoiceRow, answered>>
  BY <1>5 DEF memory, tables
<1>7. CASE k # i
  <2>1. \A s \in Callers : On(req'[s], i) => On(req[s], i) /\ req'[s] = req[s]
    BY <1>3, <1>7 DEF On
  <2>2. QED
    BY <1>1, <1>6, <2>1 DEF DecisionAt, On, Deciding, Calm, Decided, Where
<1>8. CASE k = i
  <2>1. \A s \in Callers : On(req'[s], i) => req'[s] = p
    BY <1>3, <1>4, <1>8 DEF On
  <2>2. Where(p) \in Starts
    BY <1>4, <1>5 DEF Where, Starts, LoadSteps, SaveSteps
  <2>3. Deciding(p, object[i], cache[i], invoiceRow[i])
    BY <2>2 DEF Deciding, Starts
  <2>4. Decided(object[i], cache[i], invoiceRow[i]) => Calm(p, object[i])
    BY <1>4, <1>5, <1>8, <2>2 DEF Calm, Decided, Starts, PostSteps
  <2>5. QED
    BY <1>1, <1>6, <2>1, <2>3, <2>4 DEF DecisionAt, On, Deciding, Calm, Decided, Where
<1>9. QED
  BY <1>7, <1>8

\* Every step preserves the invariant.
LEMMA DecisionStep ==
    Typed /\ AloneInv /\ DecisionInv /\ [Next]_vars => DecisionInv'
<1> SUFFICES ASSUME Typed, AloneInv, DecisionInv, [Next]_vars, NEW i \in Invoices,
                    "overlap" \notin disturbed'[i]
             PROVE  DecisionAt(i)'
  BY DEF DecisionInv
<1>1. Typed' /\ disturbed[i] \subseteq disturbed'[i]
  BY TypedStep, DisturbedStays
<1>2. DecisionAt(i) /\ "overlap" \notin disturbed[i]
  BY <1>1 DEF DecisionInv
<1>3. ASSUME NEW r \in Callers, HandlerStep(r) PROVE DecisionAt(i)'
  BY <1>1, <1>3, DecisionHandlerStep
<1>4. ASSUME NEW r \in Callers, NEW k \in Invoices, NewRequest(r, k)
      PROVE  DecisionAt(i)'
  BY <1>1, <1>4, DecisionRequestStep
<1>5. ASSUME NEW k \in Invoices, NEW stored \in BOOLEAN, Ingest(k, stored)
      PROVE  DecisionAt(i)'
  <2>1. /\ ~Exists(k) /\ UNCHANGED <<req, answered>>
        /\ object' = [object EXCEPT ![k]["upload"] = "EXTRACTED"]
        /\ cache' = [cache EXCEPT ![k] = "upload"]
        /\ invoiceRow' = [invoiceRow EXCEPT ![k] = IF stored THEN "EXTRACTED" ELSE @]
    BY <1>5 DEF Ingest
  <2>2. CASE k # i
    <3>1. /\ object'[i] = object[i] /\ cache'[i] = cache[i]
          /\ invoiceRow'[i] = invoiceRow[i]
      BY <2>1, <2>2 DEF Typed, TypeOK
    <3>2. QED
      BY <1>2, <2>1, <3>1 DEF DecisionAt, On, Deciding, Calm, Decided, Where
  <2>3. CASE k = i
    <3>1. cache[i] = "none" /\ invoiceRow[i] = "absent"
      BY <2>1, <2>3 DEF Exists
    <3>2. i \notin answered
      BY <1>2, <3>1 DEF DecisionAt, Decided, Settled
    <3>3. ASSUME NEW s \in Callers, On(req[s], i)
          PROVE  FALSE
      <4>1. Held(s, req[s])
        BY DEF Typed, ThreadInv
      <4>2. QED
        BY <3>1, <3>3, <4>1 DEF Held, On
    <3>4. QED
      BY <2>1, <3>2, <3>3 DEF DecisionAt, On
  <2>4. QED
    BY <2>2, <2>3
<1>6. CASE Restart
  <2>1. req' = NoRequests /\ cache' = NoCache /\ UNCHANGED <<invoiceRow, answered>>
    BY <1>6 DEF Restart, tables
  <2>2. \A s \in Callers : ~On(req'[s], i)
    BY <2>1, RequestTypes DEF NoRequests, On
  <2>3. cache'[i] = "none"
    BY <2>1 DEF NoCache
  <2>4. QED
    BY <1>2, <2>1, <2>2, <2>3 DEF DecisionAt, On, Decided
<1>7. CASE UNCHANGED <<memory, tables, req, answered>>
  BY <1>2, <1>7 DEF DecisionAt, On, Deciding, Calm, Decided, Where, memory, tables
<1>8. ErpServes \/ UNCHANGED vars => UNCHANGED <<memory, tables, req, answered>>
  BY DEF ErpServes, vars, watch
<1>9. QED
  BY <1>3, <1>4, <1>5, <1>6, <1>7, <1>8 DEF Next, HandlerStep

LEMMA DecisionInit == Init => DecisionInv
BY RequestTypes DEF Init, NoRequests, DecisionInv, DecisionAt, On

\* For any invoices, keys, threads and number of troubles a decision the reviewer
\* was told of is in the database whatever crashed or failed since, as long as no
\* two requests for the invoice overlapped (workflow.py:380-381,
\* repository.py:277-297).
THEOREM DecisionsAreStored == Spec => []DecisionIsStored
<1>1. Typed /\ DecisionInv => DecisionIsStored
  <2>1. ASSUME DecisionInv, NEW i \in answered, i \in Invoices, "overlap" \notin disturbed[i]
        PROVE  invoiceRow[i] \in Settled
    BY <2>1 DEF DecisionInv, DecisionAt, Decided
  <2>2. QED
    BY <2>1 DEF DecisionIsStored, Typed, TypeOK
<1>2. QED
  BY TypedInit, TypedStep, AloneInit, AloneStep, DecisionInit, DecisionStep, <1>1, PTL
  DEF Spec

---------------------------------------------------------------------------
(* What a handler step does to the journals, the matches and the calls.    *)

\* The points of post() at which a thread holds a journal.
Posting == {"set_posted", "save_journal", "store_journal"}

JournalsSame == journals' = journals /\ journalRows' = journalRows

Replays(i, q, p) ==
    /\ q.pc = "get_journal" /\ p = IdleRequest
    /\ \E j \in journals \cup journalRows :
         (j.key = q.key \/ j.invoice = i) /\ journals' = journals \cup {j}
    /\ journalRows' = journalRows /\ calls' = calls

KnowsNone(i, q, p) ==
    /\ q.pc = "get_journal" /\ p.pc = "latest_match" /\ p.key = q.key
    /\ \A j \in journals \cup journalRows : j.invoice # i
    /\ JournalsSame /\ calls' = calls

Sends(r, i, q, p) ==
    /\ q.pc = "erp_call" /\ p.pc = "await_erp" /\ p.key = q.key
    /\ JournalsSame
    /\ \E c : /\ c.caller = r /\ c.inv = i /\ c.key = q.key /\ c.phase = "sent"
              /\ calls' = calls \cup {c}

Receives(r, q, p) ==
    /\ q.pc = "await_erp" /\ p.pc = "set_posted" /\ p.key = q.key
    /\ JournalsSame
    /\ \E c \in CallOf(r) : /\ c.phase = "answered" /\ p.journal = c.journal
                            /\ calls' = calls \ {c}

GivesUp(r, q, p) ==
    /\ q.pc = "await_erp" /\ p = IdleRequest
    /\ JournalsSame
    /\ \E c \in CallOf(r) :
         \A d \in calls' : d \in calls \ {c} \/ (~d.live /\ d = [c EXCEPT !.live = FALSE])

Saves(q, p) ==
    /\ q.pc = "save_journal" /\ p.pc = "store_journal"
    /\ p.key = q.key /\ p.journal = q.journal
    /\ journals' = journals \cup {q.journal}
    /\ journalRows' = journalRows /\ calls' = calls

\* The write may fail, or have been made and not acknowledged.
Stores(i, q, p) ==
    /\ q.pc = "store_journal" /\ p = IdleRequest
    /\ journals' = journals /\ calls' = calls
    /\ \/ journalRows' = journalRows \cup
            {j \in {q.journal} : \A stored \in journalRows : stored.key # j.key}
       \/ journalRows' = journalRows /\ "failed_write" \in disturbed'[i]

KeepsJournal(i, q, p) ==
    /\ JournalsSame /\ calls' = calls
    /\ q.pc \notin {"await_erp", "store_journal"}
    /\ \/ /\ p = IdleRequest /\ q.pc # "save_journal"
          /\ q.pc \in SaveSteps => "failed_write" \in disturbed'[i]
       \/ q.pc = "evaluate_match" /\ p.pc = "get_journal" /\ p.key = AutoKey[i]
       \/ /\ p.pc \notin {"idle", "await_erp"}
          /\ Where(p) \in PostSteps => Where(q) \in PostSteps /\ p.key = q.key
          /\ Where(p) \in Posting => Where(q) \in Posting /\ p.journal = q.journal
          /\ Where(p) # "store_journal"
          /\ Where(p) \in Between => Where(q) \in Between
          /\ Where(q) = "save_journal" => Where(p) = "save_journal"

JournalEffect(r, i, q, p) ==
    \/ Replays(i, q, p)
    \/ KnowsNone(i, q, p)
    \/ Sends(r, i, q, p)
    \/ Receives(r, q, p)
    \/ GivesUp(r, q, p)
    \/ Saves(q, p)
    \/ Stores(i, q, p)
    \/ KeepsJournal(i, q, p)

LEMMA FinishKeeps ==
    ASSUME Typed, NEW r \in Callers, NEW i, Finish(r),
           UNCHANGED <<journals, journalRows, erpVars>>,
           req[r].pc \notin {"await_erp", "save_journal", "store_journal"},
           req[r].pc \in SaveSteps => "failed_write" \in disturbed'[i]
    PROVE  JournalEffect(r, i, req[r], req'[r])
<1>1. req'[r] = IdleRequest
  BY FinishMoves DEF Typed, TypeOK
<1>2. KeepsJournal(i, req[r], req'[r])
  BY <1>1 DEF KeepsJournal, JournalsSame, erpVars
<1>3. QED
  BY <1>2 DEF JournalEffect

LEMMA SaveStepJournal ==
    ASSUME Typed, NEW r \in Callers, SaveStep(r), NEW i \in Invoices, i = Inv(r)
    PROVE  JournalEffect(r, i, req[r], req'[r])
<1> DEFINE q == req[r]
           Goal == JournalEffect(r, i, req[r], req'[r])
<1>h. /\ q \in Request /\ req \in [Callers -> Request] /\ i = q.inv /\ q.object \in Makers
      /\ Held(r, q)
  BY InHandler
<1> USE DEF memory, tables
<1>1. CASE SelectInvoice(r)
  <2>1. /\ q.pc = "select_invoice" /\ Goto(r, "cache_invoice") /\ "cache_invoice" \in Steps
        /\ UNCHANGED <<journals, journalRows, erpVars>>
    BY <1>1 DEF SelectInvoice, At, Steps, LoadSteps
  <2>2. /\ req'[r].pc = "cache_invoice" /\ req'[r].next = q.next
        /\ req'[r].key = q.key /\ req'[r].journal = q.journal
    BY <1>h, <2>1, GotoMoves
  <2>3. q.next \in Starts
    BY <1>h, <2>1 DEF Held, LoadSteps
  <2>4. KeepsJournal(i, q, req'[r])
    BY <2>1, <2>2, <2>3
    DEF KeepsJournal, JournalsSame, erpVars, Where, LoadSteps, SaveSteps, Starts
  <2>5. QED
    BY <2>4 DEF JournalEffect
<1>r. ASSUME q.pc \in {"cache_invoice", "commit"}, Resume(r),
             UNCHANGED <<journals, journalRows, erpVars>>
      PROVE  Goal
  <2>1. /\ req'[r].pc = q.next /\ req'[r].next = "idle"
        /\ req'[r].key = q.key /\ req'[r].journal = q.journal
    BY <1>h, <1>r, ResumeMoves
  <2>2. q.next \in Starts \cup AfterSave
    BY <1>h, <1>r DEF Held, LoadSteps, SaveSteps
  <2>3. Where(q) = q.next /\ Where(req'[r]) = q.next
    BY <1>r, <2>1, <2>2 DEF Where, LoadSteps, SaveSteps, Starts, AfterSave
  <2>4. KeepsJournal(i, q, req'[r])
    BY <1>r, <2>1, <2>2, <2>3 DEF KeepsJournal, JournalsSame, erpVars, Starts, AfterSave
  <2>5. QED
    BY <2>4 DEF JournalEffect
<1>2. CASE CacheInvoice(r)
  BY <1>2, <1>r DEF CacheInvoice, At
<1>3. CASE Serialise(r)
  <2>1. q.pc = "serialise" /\ UNCHANGED <<journals, journalRows, erpVars>>
    BY <1>3 DEF Serialise, At
  <2>2. HeldStatus(r) \in Status
    BY <2>1, InHandler DEF LoadSteps
  <2>3. /\ req'[r].pc = "commit" /\ req'[r].next = q.next
        /\ req'[r].key = q.key /\ req'[r].journal = q.journal
    BY <1>3, <1>h, <2>2, SerialiseMoves
  <2>4. q.next \in AfterSave
    BY <1>h, <2>1 DEF Held, SaveSteps
  <2>5. KeepsJournal(i, q, req'[r])
    BY <2>1, <2>3, <2>4
    DEF KeepsJournal, JournalsSame, erpVars, Where, LoadSteps, SaveSteps, AfterSave
  <2>6. QED
    BY <2>5 DEF JournalEffect
<1>4. CASE Commit(r)
  BY <1>4, <1>r DEF Commit, WriteInvoiceRow, At
<1>5. CASE Done(r) \/ ReadFails(r)
  BY <1>5, FinishKeeps DEF Done, ReadFails, At, SaveSteps
<1>6. CASE WriteFails(r)
  <2>1. Finish(r) /\ UNCHANGED <<memory, erpVars>> /\ Trouble(i, {"failed_write"})
    BY <1>6 DEF WriteFails
  <2>2. "failed_write" \in disturbed'[i]
    BY <2>1, TroubleTypes DEF Disturbances
  <2>3. req'[r] = IdleRequest
    BY <1>h, <2>1, FinishMoves
  <2>4. CASE WriteJournalRow(r)
    <3>1. Stores(i, q, req'[r])
      BY <2>1, <2>3, <2>4 DEF Stores, WriteJournalRow, At, erpVars
    <3>2. QED
      BY <3>1 DEF JournalEffect
  <2>5. CASE ~WriteJournalRow(r)
    <3>1. /\ q.pc \in {"store_match", "serialise", "commit", "store_journal"}
          /\ journalRows' = journalRows
      BY <1>6, <2>5 DEF WriteFails, WriteMatchRow, WriteInvoiceRow, At
    <3>2. CASE q.pc = "store_journal"
      BY <2>1, <2>2, <2>3, <3>1, <3>2 DEF Stores, JournalEffect, erpVars
    <3>3. CASE q.pc # "store_journal"
      BY <2>1, <2>2, <3>1, <3>3, FinishKeeps
    <3>4. QED
      BY <3>2, <3>3
  <2>6. QED
    BY <2>4, <2>5
<1>7. QED
  BY <1>1, <1>2, <1>3, <1>4, <1>5, <1>6 DEF SaveStep

LEMMA WriteJournal ==
    ASSUME Typed, NEW r \in Callers, NEW i \in Invoices, i = Inv(r), NEW m \in Makers,
           NEW st \in Status, NEW next \in AfterSave, WriteStatus(r, m, st, next),
           Writing(i, req[r], m, st, next), UNCHANGED erpVars
    PROVE  JournalEffect(r, i, req[r], req'[r])
<1>1. req \in [Callers -> Request]
  BY DEF Typed, TypeOK
<1>2. next \in Steps
  BY DEF AfterSave, Steps, MatchSteps, DecideSteps, PostSteps
<1>3. /\ req'[r].pc = "serialise" /\ req'[r].next = next
      /\ req'[r].key = req[r].key /\ req'[r].journal = req[r].journal
  BY <1>1, <1>2, WriteMoves
<1>4. UNCHANGED <<journals, journalRows>>
  BY DEF WriteStatus, tables
<1>5. KeepsJournal(i, req[r], req'[r])
  BY <1>3, <1>4
  DEF KeepsJournal, JournalsSame, erpVars, Where, LoadSteps, SaveSteps, Writing, PostSteps,
      Posting, Between
<1>6. QED
  BY <1>5 DEF JournalEffect
LEMMA MatchStepJournal ==
    ASSUME Typed, NEW r \in Callers, MatchStep(r), NEW i \in Invoices, i = Inv(r)
    PROVE  JournalEffect(r, i, req[r], req'[r])
<1> DEFINE q == req[r]
           Goal == JournalEffect(r, i, req[r], req'[r])
<1>h. /\ q \in Request /\ req \in [Callers -> Request] /\ i = q.inv /\ q.object \in Makers
  BY InHandler
<1> USE DEF memory, tables
  \* From one point of match() to another.
<1>g. ASSUME UNCHANGED <<journals, journalRows, erpVars>>,
             q.pc \in MatchSteps, req'[r].pc \in MatchSteps
      PROVE  Goal
  <2>1. KeepsJournal(i, q, req'[r])
    BY <1>g
    DEF KeepsJournal, JournalsSame, erpVars, Where, LoadSteps, SaveSteps, MatchSteps,
        PostSteps, Posting, Between
  <2>2. QED
    BY <2>1 DEF JournalEffect
<1>f. ASSUME Finish(r), UNCHANGED <<journals, journalRows, erpVars>>, q.pc \in MatchSteps
      PROVE  Goal
  BY <1>f, FinishKeeps DEF MatchSteps, SaveSteps
<1>1. CASE MatchGuard(r)
  <2>1. /\ q.pc \in MatchSteps /\ UNCHANGED <<journals, journalRows, erpVars>>
        /\ Finish(r) \/ Goto(r, "run_match")
        /\ "run_match" \in Steps /\ "run_match" \in MatchSteps
    BY <1>1 DEF MatchGuard, At, Steps, MatchSteps
  <2>2. Goto(r, "run_match") => req'[r].pc = "run_match"
    BY <1>h, <2>1, GotoMoves
  <2>3. QED
    BY <1>f, <1>g, <2>1, <2>2
<1>2. CASE RunMatch(r)
  <2>1. /\ q.pc = "run_match" /\ UNCHANGED <<journals, journalRows, erpVars>>
    BY <1>2 DEF RunMatch, At
  <2>2. cache[Inv(r)] \in Makers
    BY <2>1, InHandler DEF LoadSteps
  <2>3. req'[r].pc = "save_match"
    BY <1>2, <1>h, <2>2, RunMatchMoves
  <2>4. QED
    BY <1>g, <2>1, <2>3 DEF MatchSteps
<1>3. CASE MatchFails(r)
  BY <1>3, <1>f DEF MatchFails, MatchSteps
<1>4. CASE SaveMatch(r)
  <2>1. /\ q.pc = "save_match" /\ Goto(r, "store_match") /\ "store_match" \in Steps
        /\ UNCHANGED <<journals, journalRows, erpVars>>
    BY <1>4 DEF SaveMatch, At, Steps, MatchSteps
  <2>2. req'[r].pc = "store_match"
    BY <1>h, <2>1, GotoMoves
  <2>3. QED
    BY <1>g, <2>1, <2>2 DEF MatchSteps
<1>5. CASE StoreMatch(r)
  <2>1. /\ q.pc = "store_match" /\ Goto(r, "set_status") /\ "set_status" \in Steps
        /\ UNCHANGED <<journals, journalRows, erpVars>>
    BY <1>5 DEF StoreMatch, WriteMatchRow, At, Steps, MatchSteps
  <2>2. req'[r].pc = "set_status"
    BY <1>h, <2>1, GotoMoves
  <2>3. QED
    BY <1>g, <2>1, <2>2 DEF MatchSteps
<1>6. CASE SetMatchStatus(r)
  <2> DEFINE st == IF q.matched THEN "MATCHED" ELSE "EXCEPTION"
  <2>1. /\ WriteStatus(r, q.object, st, "evaluate_match") /\ q.pc = "set_status"
        /\ UNCHANGED erpVars
    BY <1>6 DEF SetMatchStatus, At
  <2>2. /\ st \in Status /\ st \in {"MATCHED", "EXCEPTION"}
        /\ "evaluate_match" \in AfterSave
    BY DEF Status, AfterSave
  <2> HIDE DEF st
  <2>3. Writing(i, q, q.object, st, "evaluate_match")
    BY <2>1, <2>2 DEF Writing
  <2>4. QED
    BY <1>h, <2>1, <2>2, <2>3, WriteJournal
<1>7. ASSUME NEW requested \in AgentActions, EvaluateMatch(r, requested) PROVE Goal
  <2>1. /\ q.pc = "evaluate_match" /\ UNCHANGED <<journals, journalRows, erpVars>>
    BY <1>7 DEF EvaluateMatch, At
  <2>2. cache[Inv(r)] \in Makers
    BY <2>1, InHandler DEF LoadSteps
  <2>3. \/ req'[r].pc = "get_journal" /\ req'[r].key = AutoKey[i]
        \/ req'[r].pc = "finalize"
    BY <1>7, <1>h, <2>2, EvaluateMoves
  <2>4. CASE req'[r].pc = "get_journal" /\ req'[r].key = AutoKey[i]
    <3>1. KeepsJournal(i, q, req'[r])
      BY <2>1, <2>4 DEF KeepsJournal, JournalsSame, erpVars
    <3>2. QED
      BY <3>1 DEF JournalEffect
  <2>5. CASE req'[r].pc = "finalize"
    BY <1>g, <2>1, <2>5 DEF MatchSteps
  <2>6. QED
    BY <2>3, <2>4, <2>5
<1>8. CASE Finalize(r)
  <2>1. q.pc = "finalize" /\ UNCHANGED erpVars
    BY <1>8 DEF Finalize, At
  <2>2. CASE WriteStatus(r, cache[Inv(r)], "AWAITING_APPROVAL", "done")
    <3>1. "AWAITING_APPROVAL" \in Status /\ "done" \in AfterSave
      BY DEF Status, AfterSave
    <3>2. PICK m \in Makers : m = cache[i]
      BY <2>1, InHandler DEF LoadSteps
    <3>3. Writing(i, q, m, "AWAITING_APPROVAL", "done")
      BY <2>1, <3>2 DEF Writing
    <3>4. QED
      BY <2>1, <2>2, <3>1, <3>2, <3>3, WriteJournal
  <2>3. CASE Finish(r) /\ UNCHANGED <<memory, tables>>
    BY <1>f, <2>1, <2>3 DEF MatchSteps
  <2>4. QED
    BY <1>8, <2>2, <2>3 DEF Finalize
<1>9. QED
  BY <1>1, <1>2, <1>3, <1>4, <1>5, <1>6, <1>7, <1>8 DEF MatchStep

LEMMA DecideStepJournal ==
    ASSUME Typed, NEW r \in Callers, DecideStep(r), NEW i \in Invoices, i = Inv(r)
    PROVE  JournalEffect(r, i, req[r], req'[r])
<1> DEFINE q == req[r]
<1>h. /\ q \in Request /\ req \in [Callers -> Request] /\ i = q.inv /\ q.object \in Makers
  BY InHandler
<1>1. CASE DecideGuard(r)
  <2>1. q.pc = "decide_guard" /\ UNCHANGED <<journals, journalRows, erpVars>>
    BY <1>1 DEF DecideGuard, At, memory, tables
  <2>2. cache[Inv(r)] \in Makers
    BY <2>1, InHandler DEF LoadSteps
  <2>3. req'[r] = IdleRequest \/ req'[r].pc = "decide"
    BY <1>1, <1>h, <2>2, DecideGuardMoves
  <2>4. KeepsJournal(i, q, req'[r])
    BY <2>1, <2>3
    DEF KeepsJournal, JournalsSame, erpVars, Where, LoadSteps, SaveSteps, PostSteps,
        Posting, Between
  <2>5. QED
    BY <2>4 DEF JournalEffect
<1>2. CASE RecordDecision(r)
  <2> DEFINE st == IF q.approved THEN "APPROVED" ELSE "REJECTED"
  <2>1. WriteStatus(r, q.object, st, "decided") /\ q.pc = "decide" /\ UNCHANGED erpVars
    BY <1>2 DEF RecordDecision, At
  <2>2. /\ st \in Status /\ st \in {"APPROVED", "REJECTED"}
        /\ "decided" \in AfterSave
    BY DEF Status, AfterSave
  <2> HIDE DEF st
  <2>3. Writing(i, q, q.object, st, "decided")
    BY <2>1, <2>2 DEF Writing
  <2>4. QED
    BY <1>h, <2>1, <2>2, <2>3, WriteJournal
<1>3. CASE AnswerDecision(r)
  <2>1. /\ Finish(r) /\ UNCHANGED <<journals, journalRows, erpVars>>
        /\ q.pc = "decided"
    BY <1>3 DEF AnswerDecision, At, memory, tables
  <2>2. QED
    BY <2>1, FinishKeeps DEF SaveSteps
<1>4. QED
  BY <1>1, <1>2, <1>3 DEF DecideStep
LEMMA PostStepJournal ==
    ASSUME Typed, NEW r \in Callers, PostStep(r), NEW i \in Invoices, i = Inv(r)
    PROVE  JournalEffect(r, i, req[r], req'[r])
<1> DEFINE q == req[r]
           Goal == JournalEffect(r, i, req[r], req'[r])
<1>h. /\ q \in Request /\ req \in [Callers -> Request] /\ i = q.inv /\ q.object \in Makers
      /\ calls \subseteq Call
  BY InHandler DEF Typed, TypeOK, ErpTypeOK
<1> USE DEF memory, tables
  \* From one point of post() before the call to another.
<1>g. ASSUME UNCHANGED <<journals, journalRows, erpVars>>, req'[r].key = q.key,
             q.pc \in {"latest_match", "cache_match", "post_guard"},
             req'[r].pc \in {"cache_match", "post_guard", "erp_call"}
      PROVE  Goal
  <2>1. KeepsJournal(i, q, req'[r])
    BY <1>g
    DEF KeepsJournal, JournalsSame, erpVars, Where, LoadSteps, SaveSteps, PostSteps,
        Posting, Between
  <2>2. QED
    BY <2>1 DEF JournalEffect
<1>1. ASSUME NEW j \in journals \cup journalRows, ReplayJournal(r, j) PROVE Goal
  <2>1. /\ q.pc = "get_journal" /\ Finish(r) /\ journals' = journals \cup {j}
        /\ j.key = q.key \/ j.invoice = i
        /\ journalRows' = journalRows /\ calls' = calls
    BY <1>1 DEF ReplayJournal, At, Known, erpVars
  <2>2. req'[r] = IdleRequest
    BY <1>h, <2>1, FinishMoves
  <2>3. Replays(i, q, req'[r])
    BY <2>1, <2>2 DEF Replays
  <2>4. QED
    BY <2>3 DEF JournalEffect
<1>2. CASE NoKnownJournal(r)
  <2>1. /\ q.pc = "get_journal" /\ Goto(r, "latest_match") /\ "latest_match" \in Steps
        /\ UNCHANGED <<journals, journalRows, erpVars>>
        /\ \A j \in journals \cup journalRows : j.invoice # i
    BY <1>2 DEF NoKnownJournal, At, Known, Steps, PostSteps
  <2>2. req'[r].pc = "latest_match" /\ req'[r].key = q.key
    BY <1>h, <2>1, GotoMoves
  <2>3. KnowsNone(i, q, req'[r])
    BY <2>1, <2>2 DEF KnowsNone, JournalsSame, erpVars
  <2>4. QED
    BY <2>3 DEF JournalEffect
<1>3. ASSUME NEW matched \in BOOLEAN, LatestMatch(r, matched) PROVE Goal
  <2>1. q.pc = "latest_match" /\ UNCHANGED <<journals, journalRows, erpVars>>
    BY <1>3 DEF LatestMatch, At
  <2>2. req'[r].pc \in {"post_guard", "cache_match"} /\ req'[r].key = q.key
    BY <1>h, <1>3, LatestMatchMoves
  <2>3. QED
    BY <1>g, <2>1, <2>2
<1>4. CASE NoMatch(r)
  BY <1>4, FinishKeeps DEF NoMatch, At, SaveSteps
<1>5. CASE CacheMatch(r)
  <2>1. /\ q.pc = "cache_match" /\ Goto(r, "post_guard") /\ "post_guard" \in Steps
        /\ UNCHANGED <<journals, journalRows, erpVars>>
    BY <1>5 DEF CacheMatch, At, Steps, PostSteps
  <2>2. req'[r].pc = "post_guard" /\ req'[r].key = q.key
    BY <1>h, <2>1, GotoMoves
  <2>3. QED
    BY <1>g, <2>1, <2>2
<1>6. CASE PostGuard(r)
  <2>1. q.pc = "post_guard" /\ UNCHANGED <<journals, journalRows, erpVars>>
    BY <1>6 DEF PostGuard, At
  <2>2. req'[r] = IdleRequest \/ (req'[r].pc = "erp_call" /\ req'[r].key = q.key)
    BY <1>h, <1>6, PostGuardMoves
  <2>3. CASE req'[r] = IdleRequest
    BY <2>1, <2>3 DEF KeepsJournal, JournalsSame, erpVars, SaveSteps, JournalEffect
  <2>4. QED
    BY <1>g, <2>1, <2>2, <2>3
<1>7. CASE SendJournal(r)
  <2> DEFINE c == [caller |-> r, inv |-> Inv(r), key |-> req[r].key,
           approved |-> (HeldStatus(r) = "APPROVED"), phase |-> "sent",
           journal |-> NoJournal, live |-> TRUE]
  <2>1. /\ q.pc = "erp_call" /\ Goto(r, "await_erp") /\ "await_erp" \in Steps
        /\ UNCHANGED <<journals, journalRows>> /\ calls' = calls \cup {c}
    BY <1>7 DEF SendJournal, At, Steps, PostSteps
  <2>2. req'[r].pc = "await_erp" /\ req'[r].key = q.key
    BY <1>h, <2>1, GotoMoves
  <2>3. c.caller = r /\ c.inv = i /\ c.key = q.key /\ c.phase = "sent"
    OBVIOUS
  <2> HIDE DEF c
  <2>4. Sends(r, i, q, req'[r])
    BY <2>1, <2>2, <2>3 DEF Sends, JournalsSame
  <2>5. QED
    BY <2>4 DEF JournalEffect
<1>8. ASSUME NEW c \in CallOf(r), ReceiveJournal(r, c) PROVE Goal
  <2>1. /\ q.pc = "await_erp" /\ c \in Call /\ c.phase = "answered"
        /\ calls' = calls \ {c} /\ UNCHANGED <<journals, journalRows>>
    BY <1>h, <1>8 DEF ReceiveJournal, At, CallOf
  <2>2. /\ req'[r].pc = "set_posted" /\ req'[r].key = q.key
        /\ req'[r].journal = c.journal
    BY <1>h, <1>8, <2>1, ReceiveMoves
  <2>3. Receives(r, q, req'[r])
    BY <2>1, <2>2 DEF Receives, JournalsSame
  <2>4. QED
    BY <2>3 DEF JournalEffect
<1>9. ASSUME NEW c \in CallOf(r), PostFails(r, c) \/ CallTimesOut(r, c) PROVE Goal
  <2>1. /\ q.pc = "await_erp" /\ Finish(r) /\ UNCHANGED <<journals, journalRows>>
        /\ \/ calls' = calls \ {c}
           \/ calls' = (calls \ {c}) \cup {[c EXCEPT !.live = FALSE]}
    BY <1>9 DEF PostFails, CallTimesOut, At
  <2>2. req'[r] = IdleRequest
    BY <1>h, <2>1, FinishMoves
  <2>3. c \in Call
    BY <1>h DEF CallOf
  <2>4. ~[c EXCEPT !.live = FALSE].live
    BY <2>3 DEF Call
  <2>5. \A d \in calls' :
          d \in calls \ {c} \/ (~d.live /\ d = [c EXCEPT !.live = FALSE])
    <3> DEFINE e == [c EXCEPT !.live = FALSE]
    <3>1. calls' \subseteq (calls \ {c}) \cup {e} /\ ~e.live
      BY <2>1, <2>4
    <3> HIDE DEF e
    <3>2. \A d \in calls' : d \in calls \ {c} \/ (~d.live /\ d = e)
      BY <3>1
    <3>3. QED
      BY <3>2 DEF e
  <2>6. GivesUp(r, q, req'[r])
    BY <2>1, <2>2, <2>5 DEF GivesUp, JournalsSame
  <2>7. QED
    BY <2>6 DEF JournalEffect
<1>10. CASE SetPosted(r)
  <2>1. /\ WriteStatus(r, q.object, "POSTED", "save_journal") /\ q.pc = "set_posted"
        /\ "POSTED" \in Status /\ "save_journal" \in AfterSave /\ UNCHANGED erpVars
    BY <1>10 DEF SetPosted, At, Status, AfterSave
  <2>2. Writing(i, q, q.object, "POSTED", "save_journal")
    BY <2>1 DEF Writing
  <2>3. QED
    BY <1>h, <2>1, <2>2, WriteJournal
<1>11. CASE SaveJournal(r)
  <2>1. /\ q.pc = "save_journal" /\ Goto(r, "store_journal") /\ "store_journal" \in Steps
        /\ journals' = journals \cup {q.journal} /\ journalRows' = journalRows
        /\ calls' = calls
    BY <1>11 DEF SaveJournal, At, Steps, PostSteps, erpVars
  <2>2. /\ req'[r].pc = "store_journal" /\ req'[r].key = q.key
        /\ req'[r].journal = q.journal
    BY <1>h, <2>1, GotoMoves
  <2>3. Saves(q, req'[r])
    BY <2>1, <2>2 DEF Saves
  <2>4. QED
    BY <2>3 DEF JournalEffect
<1>12. CASE StoreJournal(r)
  <2>1. /\ q.pc = "store_journal" /\ Finish(r) /\ journals' = journals /\ calls' = calls
        /\ journalRows' = journalRows \cup
             {j \in {q.journal} : \A stored \in journalRows : stored.key # j.key}
    BY <1>12 DEF StoreJournal, WriteJournalRow, At, erpVars
  <2>2. req'[r] = IdleRequest
    BY <1>h, <2>1, FinishMoves
  <2>3. Stores(i, q, req'[r])
    BY <2>1, <2>2 DEF Stores
  <2>4. QED
    BY <2>3 DEF JournalEffect
<1>13. QED
  BY <1>1, <1>2, <1>3, <1>4, <1>5, <1>6, <1>7, <1>8, <1>9, <1>10, <1>11, <1>12
  DEF PostStep

LEMMA StepJournal ==
    ASSUME Typed, NEW r \in Callers, HandlerStep(r), NEW i \in Invoices, i = Inv(r)
    PROVE  JournalEffect(r, i, req[r], req'[r])
BY SaveStepJournal, MatchStepJournal, DecideStepJournal, PostStepJournal DEF HandlerStep
---------------------------------------------------------------------------
(* Whose journal it is.                                                    *)

KeysOf(i) == ClientKeys[i] \cup {AutoKey[i]}

\* No key is used for two invoices: an "auto:" key contains the invoice's id, and
\* the clients keep theirs apart.
PrivateKeys ==
    \A i, j \in Invoices : i # j => KeysOf(i) \cap KeysOf(j) = {}

\* A journal of invoice i, posted with one of i's keys.
Own(j, i) == j.invoice = i /\ j.key \in KeysOf(i)

\* A thread posts with a key of its invoice, and holds a journal of its invoice.
Keyed(q) ==
    /\ Where(q) \in PostSteps => q.key \in KeysOf(q.inv)
    /\ Where(q) \in Posting => Own(q.journal, q.inv)

ThreadsKeyed == \A r \in Callers : Keyed(req[r])

\* Whoever waits for a call's answer is the thread that sent it, for the same
\* invoice, and it waits for no other.
CallsAwaited ==
    /\ \A c \in calls : c.live =>
         req[c.caller].pc = "await_erp" /\ req[c.caller].inv = c.inv
    /\ \A c, d \in calls : c.live /\ d.live /\ c.caller = d.caller => c = d

CallsKeyed ==
    \A c \in calls : /\ c.key \in KeysOf(c.inv)
                     /\ c.phase = "answered" => Own(c.journal, c.inv)

ErpKeyed ==
    \A i \in Invoices :
        /\ \A k \in KeysOf(i) : postedByKey[k] # NoJournal => Own(postedByKey[k], i)
        /\ postedByInvoice[i] # NoJournal => Own(postedByInvoice[i], i)

JournalsKeyed == \A j \in journals \cup journalRows : j.key \in KeysOf(j.invoice)

KeyedInv ==
    /\ ThreadsKeyed
    /\ CallsAwaited
    /\ CallsKeyed
    /\ ErpKeyed
    /\ JournalsKeyed

LEMMA IdleKeyed == Keyed(IdleRequest)
BY RequestTypes DEF Keyed, Where, LoadSteps, SaveSteps, PostSteps, Posting

LEMMA KeyedInit == Init => KeyedInv
<1> SUFFICES ASSUME Init PROVE KeyedInv
  OBVIOUS
<1>1. ThreadsKeyed
  BY IdleKeyed DEF Init, NoRequests, ThreadsKeyed
<1>2. \A i \in Invoices : KeysOf(i) \subseteq Keys
  BY DurableConstants DEF KeysOf
<1>3. CallsAwaited /\ CallsKeyed /\ ErpKeyed
  BY <1>2 DEF Init, ErpInit, CallsAwaited, CallsKeyed, ErpKeyed
<1>4. JournalsKeyed
  BY DEF Init, JournalsKeyed
<1>5. QED
  BY <1>1, <1>3, <1>4 DEF KeyedInv

\* A journal that is known under a key of i, or of i itself, is i's own.
LEMMA KeyTellsInvoice ==
    ASSUME PrivateKeys, NEW i \in Invoices, NEW j \in Journal,
           j.key \in KeysOf(j.invoice), j.key \in KeysOf(i) \/ j.invoice = i
    PROVE  Own(j, i)
<1>1. j.invoice \in Invoices
  BY DEF Journal
<1>2. QED
  BY <1>1 DEF PrivateKeys, Own

\* What a handler step makes of its thread.
LEMMA KeyedThread ==
    ASSUME Typed, KeyedInv, NEW r \in Callers, HandlerStep(r)
    PROVE  Keyed(req'[r])
<1> DEFINE q == req[r]
<1>1. PICK i \in Invoices : i = Inv(r) /\ i = q.inv
  BY InHandler
<1>2. PICK p : p = req'[r]
  OBVIOUS
<1>3. JournalEffect(r, i, q, p)
  BY <1>1, <1>2, StepJournal
<1>4. p = IdleRequest \/ p.inv = i
  BY <1>1, <1>2, StepEffect
<1>5. Keyed(q)
  BY DEF KeyedInv, ThreadsKeyed
<1>6. CASE p = IdleRequest
  BY <1>2, <1>6, IdleKeyed
<1> USE DEF Where, LoadSteps, SaveSteps, PostSteps, Posting
<1>7. CASE p.inv = i
  <2>1. CASE KnowsNone(i, q, p) \/ Sends(r, i, q, p) \/ Saves(q, p)
    BY <1>1, <1>2, <1>5, <1>7, <2>1 DEF Keyed, KnowsNone, Sends, Saves
  <2>2. CASE Receives(r, q, p)
    <3>1. PICK c \in CallOf(r) : c.phase = "answered" /\ p.journal = c.journal
      BY <2>2 DEF Receives
    <3>2. c.inv = i /\ Own(c.journal, c.inv)
      BY <1>1, <3>1 DEF CallOf, KeyedInv, CallsAwaited, CallsKeyed
    <3>3. QED
      BY <1>1, <1>2, <1>5, <1>7, <2>2, <3>1, <3>2 DEF Keyed, Receives
  <2>3. CASE p # IdleRequest /\ KeepsJournal(i, q, p)
    BY <1>1, <1>2, <1>5, <1>7, <2>3 DEF Keyed, KeepsJournal, KeysOf
  <2>4. QED
    BY <1>2, <1>3, <1>6, <2>1, <2>2, <2>3 DEF JournalEffect, Replays, GivesUp, Stores
<1>8. QED
  BY <1>4, <1>6, <1>7

\* What it makes of the calls.
LEMMA KeyedCalls ==
    ASSUME Typed, KeyedInv, NEW r \in Callers, HandlerStep(r)
    PROVE  CallsAwaited' /\ CallsKeyed'
<1> DEFINE q == req[r]
<1>1. PICK i \in Invoices : i = Inv(r) /\ i = q.inv
  BY InHandler
<1>2. PICK p : p = req'[r]
  OBVIOUS
<1>3. JournalEffect(r, i, q, p)
  BY <1>1, <1>2, StepJournal
<1>4. p = IdleRequest \/ p.inv = i
  BY <1>1, <1>2, StepEffect
<1>5. /\ \A s \in Callers \ {r} : req'[s] = req[s]
      /\ \A c \in calls : c.caller \in Callers
  BY StepFrame DEF Typed, TypeOK, ErpTypeOK, Call
<1>6. CallsAwaited /\ CallsKeyed /\ Keyed(q)
  BY DEF KeyedInv, ThreadsKeyed
  \* A thread that waits for no answer may move.
<1>7. CASE calls' = calls /\ q.pc # "await_erp"
  BY <1>5, <1>6, <1>7 DEF CallsAwaited, CallsKeyed
  \* A thread that is done with its call may move.
<1>8. ASSUME NEW c \in CallOf(r),
             \A d \in calls' : \/ d \in calls \ {c}
                               \/ ~d.live /\ d = [c EXCEPT !.live = FALSE]
      PROVE  CallsAwaited' /\ CallsKeyed'
  <2>1. c \in calls /\ c.live /\ c.caller = r /\ c \in Call
    BY DEF CallOf, Typed, TypeOK, ErpTypeOK
  <2>2. CallsAwaited'
    BY <1>5, <1>6, <1>8, <2>1 DEF CallsAwaited
  <2>3. PICK e : e = [c EXCEPT !.live = FALSE]
    OBVIOUS
  <2>4. e.key = c.key /\ e.inv = c.inv /\ e.phase = c.phase /\ e.journal = c.journal
    BY <2>1, <2>3 DEF Call
  <2>5. \A d \in calls' : d \in calls \/ d = e
    BY <1>8, <2>3
  <2>6. CallsKeyed'
    BY <1>6, <2>1, <2>4, <2>5 DEF CallsKeyed
  <2>7. QED
    BY <2>2, <2>6
<1>9. CASE Sends(r, i, q, p)
  <2>1. /\ q.pc = "erp_call" /\ p.pc = "await_erp" /\ p.inv = i
        /\ q.key \in KeysOf(i)
    BY <1>1, <1>4, <1>6, <1>9, RequestTypes
    DEF Sends, Keyed, Where, LoadSteps, SaveSteps, PostSteps
  <2>2. PICK c : /\ c.caller = r /\ c.inv = i /\ c.key = q.key /\ c.phase = "sent"
                 /\ calls' = calls \cup {c}
    BY <1>9 DEF Sends
  <2>3. \A d \in calls : d.live => d.caller # r
    BY <1>6, <2>1 DEF CallsAwaited
  <2>4. CallsAwaited'
    BY <1>2, <1>5, <1>6, <2>1, <2>2, <2>3 DEF CallsAwaited
  <2>5. CallsKeyed'
    BY <1>6, <2>1, <2>2 DEF CallsKeyed
  <2>6. QED
    BY <2>4, <2>5
<1>10. CASE Receives(r, q, p) \/ GivesUp(r, q, p)
  BY <1>8, <1>10 DEF Receives, GivesUp
<1>11. QED
  BY <1>3, <1>7, <1>9, <1>10 DEF JournalEffect, Replays, KnowsNone, Saves, Stores,
                                 KeepsJournal
\* The workflow does not touch the ERP's dictionaries.
LEMMA ErpUntouched ==
    ASSUME NEW r \in Callers, HandlerStep(r)
    PROVE  UNCHANGED <<postedByKey, postedByInvoice>>
<1> USE DEF erpVars
<1>1. SaveStep(r) => UNCHANGED <<postedByKey, postedByInvoice>>
  BY DEF SaveStep, SelectInvoice, CacheInvoice, Serialise, Commit, Done, ReadFails,
         WriteFails
<1>2. MatchStep(r) \/ DecideStep(r) => UNCHANGED <<postedByKey, postedByInvoice>>
  BY DEF MatchStep, MatchGuard, RunMatch, MatchFails, SaveMatch, StoreMatch,
         SetMatchStatus, EvaluateMatch, Finalize, DecideStep, DecideGuard,
         RecordDecision, AnswerDecision
<1>3. PostStep(r) => UNCHANGED <<postedByKey, postedByInvoice>>
  BY DEF PostStep, ReplayJournal, NoKnownJournal, LatestMatch, NoMatch, CacheMatch,
         PostGuard, SendJournal, ReceiveJournal, PostFails, CallTimesOut, SetPosted,
         SaveJournal, StoreJournal
<1>4. QED
  BY <1>1, <1>2, <1>3 DEF HandlerStep

\* A journal is added to the cache or the table only by a thread of its own
\* invoice, which read it there or holds it.
LEMMA NewJournals ==
    ASSUME PrivateKeys, Typed, KeyedInv, NEW r \in Callers, HandlerStep(r)
    PROVE  /\ journals \subseteq journals' /\ journalRows \subseteq journalRows'
           /\ \A j \in journals' \cup journalRows' :
                \/ j \in journals \cup journalRows
                \/ Own(j, Inv(r))
           /\ \A j \in journals' : j \in journals \/ j.invoice = Inv(r)
           /\ \A j \in journalRows' : j \in journalRows \/ j.invoice = Inv(r)
<1> DEFINE q == req[r]
<1>1. PICK i \in Invoices : i = Inv(r) /\ i = q.inv
  BY InHandler
<1>2. JournalEffect(r, i, q, req'[r])
  BY <1>1, StepJournal
<1>3. Keyed(q)
  BY DEF KeyedInv, ThreadsKeyed
<1>4. CASE JournalsSame
  BY <1>4 DEF JournalsSame
<1>5. CASE Replays(i, q, req'[r])
  <2>1. PICK j \in journals \cup journalRows :
          (j.key = q.key \/ j.invoice = i) /\ journals' = journals \cup {j}
    BY <1>5 DEF Replays
  <2>2. q.key \in KeysOf(i)
    BY <1>1, <1>3, <1>5 DEF Replays, Keyed, Where, LoadSteps, SaveSteps, PostSteps
  <2>3. j \in Journal /\ j.key \in KeysOf(j.invoice)
    BY DEF Typed, TypeOK, KeyedInv, JournalsKeyed
  <2>4. Own(j, i)
    BY <2>1, <2>2, <2>3, KeyTellsInvoice
  <2>5. QED
    BY <1>1, <1>5, <2>1, <2>4 DEF Replays, Own
<1>6. CASE Saves(q, req'[r]) \/ Stores(i, q, req'[r])
  <2>1. Own(q.journal, i)
    BY <1>1, <1>3, <1>6 DEF Saves, Stores, Keyed, Where, LoadSteps, SaveSteps, Posting
  <2>2. /\ journals \subseteq journals' /\ journals' \subseteq journals \cup {q.journal}
        /\ journalRows \subseteq journalRows'
        /\ journalRows' \subseteq journalRows \cup {q.journal}
    BY <1>6 DEF Saves, Stores
  <2>3. QED
    BY <1>1, <2>1, <2>2 DEF Own
<1>7. QED
  BY <1>2, <1>4, <1>5, <1>6
  DEF JournalEffect, KnowsNone, Sends, Receives, GivesUp, KeepsJournal

LEMMA KeyedHandlerStep ==
    ASSUME PrivateKeys, Typed, KeyedInv, NEW r \in Callers, HandlerStep(r)
    PROVE  KeyedInv'
<1>1. ThreadsKeyed'
  BY KeyedThread, StepFrame DEF KeyedInv, ThreadsKeyed, Keyed, Where, Own
<1>2. CallsAwaited' /\ CallsKeyed'
  BY KeyedCalls
<1>3. ErpKeyed'
  BY ErpUntouched DEF KeyedInv, ErpKeyed
<1>4. JournalsKeyed'
  BY NewJournals DEF KeyedInv, JournalsKeyed, Own
<1>5. QED
  BY <1>1, <1>2, <1>3, <1>4 DEF KeyedInv

\* The ERP moves one call on: what it leaves in the place of c is for the same
\* caller, invoice and key, and only c's own caller may be waiting for it.
LEMMA ErpServesOneCall ==
    ASSUME NEW c \in calls, c \in Call, ErpStep(c)
    PROVE  \A d \in calls' \ (calls \ {c}) :
             /\ d.caller = c.caller /\ d.inv = c.inv /\ d.key = c.key /\ d.live = c.live
             /\ \A e \in calls' \ (calls \ {c}) : e = d
<1>1. ASSUME NEW served, calls' \subseteq (calls \ {c}) \cup {served},
             served.caller = c.caller, served.inv = c.inv, served.key = c.key,
             served.live = c.live
      PROVE  \A d \in calls' \ (calls \ {c}) :
               /\ d.caller = c.caller /\ d.inv = c.inv /\ d.key = c.key
               /\ d.live = c.live
               /\ \A e \in calls' \ (calls \ {c}) : e = d
  BY <1>1
<1>2. ASSUME NEW p, NEW j, Return(c, p, j)
      PROVE  \A d \in calls' \ (calls \ {c}) :
               /\ d.caller = c.caller /\ d.inv = c.inv /\ d.key = c.key
               /\ d.live = c.live
               /\ \A e \in calls' \ (calls \ {c}) : e = d
  <2> DEFINE served == [c EXCEPT !.phase = p, !.journal = j]
  <2>1. /\ served.caller = c.caller /\ served.inv = c.inv /\ served.key = c.key
        /\ served.live = c.live
    BY DEF Call
  <2>2. calls' \subseteq (calls \ {c}) \cup {served}
    BY <1>2 DEF Return
  <2> HIDE DEF served
  <2>3. QED
    BY <1>1, <2>1, <2>2
<1>3. CASE ErpMiss(c)
  <2> DEFINE served == [c EXCEPT !.phase = "create"]
  <2>1. /\ served.caller = c.caller /\ served.inv = c.inv /\ served.key = c.key
        /\ served.live = c.live
    BY DEF Call
  <2>2. calls' \subseteq (calls \ {c}) \cup {served}
    BY <1>3 DEF ErpMiss
  <2> HIDE DEF served
  <2>3. QED
    BY <1>1, <2>1, <2>2
<1>4. QED
  BY <1>2, <1>3 DEF ErpStep, ErpRefuse, ErpReplayByKey, ErpReplayByInvoice, ErpCreate

\* What the ERP files and answers with is a journal of the call's own invoice.
LEMMA KeyedErpStep ==
    ASSUME PrivateKeys, Typed, KeyedInv, ErpServes
    PROVE  KeyedInv'
<1>1. /\ calls \subseteq Call
      /\ postedByKey \in [Keys -> Journal \cup {NoJournal}]
      /\ postedByInvoice \in [Invoices -> Journal \cup {NoJournal}]
  BY DEF Typed, TypeOK, ErpTypeOK
<1>2. PICK c \in calls : ErpStep(c) /\ UNCHANGED <<memory, tables, req>>
  BY DEF ErpServes
<1>3. c \in Call /\ c.inv \in Invoices /\ c.key \in Keys
  BY <1>1 DEF Call
<1>4. ThreadsKeyed' /\ JournalsKeyed'
  BY <1>2 DEF KeyedInv, ThreadsKeyed, JournalsKeyed, Keyed, Where, Own, memory, tables
<1>5. \A d \in calls' \ (calls \ {c}) :
        /\ d.caller = c.caller /\ d.inv = c.inv /\ d.key = c.key /\ d.live = c.live
        /\ \A e \in calls' \ (calls \ {c}) : e = d
  BY <1>2, <1>3, ErpServesOneCall
<1>6. CallsAwaited'
  BY <1>2, <1>5 DEF KeyedInv, CallsAwaited
<1>7. c.key \in KeysOf(c.inv) /\ CallsKeyed /\ ErpKeyed
  BY DEF KeyedInv, CallsKeyed
<1>8. \A i \in Invoices : c.key \in KeysOf(i) => i = c.inv
  BY <1>3, <1>7 DEF PrivateKeys
<1>9. ASSUME NEW p, NEW j, Return(c, p, j), p = "answered" => Own(j, c.inv)
      PROVE  CallsKeyed'
  <2> DEFINE served == [c EXCEPT !.phase = p, !.journal = j]
  <2>1. /\ served.phase = p /\ served.journal = j /\ served.inv = c.inv
        /\ served.key = c.key
    BY <1>3 DEF Call
  <2>2. \A d \in calls' : d \in calls \/ d = served
    BY <1>9 DEF Return
  <2> HIDE DEF served
  <2>3. QED
    BY <1>7, <1>9, <2>1, <2>2 DEF CallsKeyed
<1>10. CallsKeyed' /\ ErpKeyed'
  <2>1. CASE ErpRefuse(c)
    BY <1>7, <1>9, <2>1 DEF ErpRefuse, ErpKeyed
  <2>2. CASE ErpReplayByKey(c)
    BY <1>3, <1>7, <1>9, <2>2 DEF ErpReplayByKey, ErpKeyed
  <2>3. CASE ErpReplayByInvoice(c)
    <3>1. Own(postedByInvoice[c.inv], c.inv)
      BY <1>3, <1>7, <2>3 DEF ErpReplayByInvoice, ErpKeyed
    <3>2. /\ postedByKey' = [postedByKey EXCEPT ![c.key] = postedByInvoice[c.inv]]
          /\ UNCHANGED postedByInvoice
      BY <2>3 DEF ErpReplayByInvoice
    <3>3. ErpKeyed'
      BY <1>1, <1>3, <1>7, <1>8, <3>1, <3>2 DEF ErpKeyed
    <3>4. CallsKeyed'
      BY <1>9, <2>3, <3>1 DEF ErpReplayByInvoice
    <3>5. QED
      BY <3>3, <3>4
  <2>4. CASE ErpMiss(c)
    <3>1. \A d \in calls' :
            d \in calls \/ (d.phase = "create" /\ d.key = c.key /\ d.inv = c.inv)
      BY <1>3, <2>4 DEF ErpMiss, Call
    <3>2. QED
      BY <1>7, <2>4, <3>1 DEF CallsKeyed, ErpKeyed, ErpMiss
  <2>5. CASE ErpCreate(c)
    <3>1. /\ postedByKey' = [postedByKey EXCEPT ![c.key] = NewJournal(c)]
          /\ postedByInvoice' = [postedByInvoice EXCEPT ![c.inv] = NewJournal(c)]
          /\ Return(c, "answered", NewJournal(c))
      BY <2>5 DEF ErpCreate
    <3>2. Own(NewJournal(c), c.inv)
      BY <1>7 DEF Own, NewJournal
    <3>3. ErpKeyed'
      BY <1>1, <1>3, <1>7, <1>8, <3>1, <3>2 DEF ErpKeyed
    <3>4. QED
      BY <1>9, <3>1, <3>2, <3>3
  <2>6. QED
    BY <1>2, <2>1, <2>2, <2>3, <2>4, <2>5 DEF ErpStep
<1>11. QED
  BY <1>4, <1>6, <1>10 DEF KeyedInv
LEMMA KeyedStep ==
    ASSUME PrivateKeys
    PROVE  Typed /\ KeyedInv /\ [Next]_vars => KeyedInv'
<1> SUFFICES ASSUME Typed, KeyedInv, [Next]_vars PROVE KeyedInv'
  OBVIOUS
<1>1. ASSUME NEW r \in Callers, HandlerStep(r) PROVE KeyedInv'
  BY <1>1, KeyedHandlerStep
<1>2. CASE ErpServes
  BY <1>2, KeyedErpStep
<1>3. ASSUME NEW r \in Callers, NEW i \in Invoices, NewRequest(r, i) PROVE KeyedInv'
  <2>1. /\ req \in [Callers -> Request] /\ cache[i] \in Makers \cup {"none"}
        /\ \A c \in calls : c.caller \in Callers
    BY DEF Typed, TypeOK, ErpTypeOK, Call
  <2>2. /\ req[r].pc = "idle" /\ req' = [req EXCEPT ![r] = req'[r]] /\ req'[r].inv = i
        /\ req'[r].pc \in Starts \/
             (req'[r].pc = "select_invoice" /\ req'[r].next \in Starts)
        /\ req'[r].pc = "get_journal" \/ req'[r].next = "get_journal"
             => req'[r].key \in ClientKeys[i]
        /\ UNCHANGED <<memory, tables, erpVars>>
    BY <1>3, <2>1, EnterMoves DEF At
  <2>3. PICK p : p = req'[r]
    OBVIOUS
  <2>4. p.pc = "get_journal" \/ p.next = "get_journal" => p.key \in ClientKeys[i]
    BY <2>2, <2>3
  <2>5. p.inv = i /\ (p.pc \in Starts \/ (p.pc = "select_invoice" /\ p.next \in Starts))
    BY <2>2, <2>3
  <2>6. Keyed(p)
    BY <2>4, <2>5
    DEF Keyed, Where, LoadSteps, SaveSteps, PostSteps, Posting, Starts, KeysOf
  <2>7. \A s \in Callers \ {r} : req'[s] = req[s]
    BY <2>1, <2>2
  <2>8. ThreadsKeyed'
    BY <2>3, <2>6, <2>7 DEF KeyedInv, ThreadsKeyed, Keyed, Where, Own
  <2>9. CallsAwaited'
    BY <2>1, <2>2, <2>7 DEF KeyedInv, CallsAwaited, erpVars
  <2>10. CallsKeyed' /\ ErpKeyed' /\ JournalsKeyed'
    BY <2>2 DEF KeyedInv, CallsKeyed, ErpKeyed, JournalsKeyed, Own, erpVars, memory, tables
  <2>11. QED
    BY <2>8, <2>9, <2>10 DEF KeyedInv
<1>4. CASE Restart
  <2>1. ThreadsKeyed'
    BY <1>4, IdleKeyed DEF Restart, NoRequests, ThreadsKeyed
  <2>2. \A d \in calls' : \E c \in calls :
          /\ d = [c EXCEPT !.live = FALSE] /\ c \in Call
          /\ c.phase \in {"sent", "create"}
    BY <1>4 DEF Restart, Typed, TypeOK, ErpTypeOK
  <2>3. \A d \in calls' : ~d.live
    BY <2>2 DEF Call
  <2>4. \A d \in calls' : \E c \in calls :
          d.key = c.key /\ d.inv = c.inv /\ d.phase # "answered"
    BY <2>2 DEF Call
  <2>5. CallsAwaited' /\ CallsKeyed'
    BY <2>3, <2>4 DEF KeyedInv, CallsAwaited, CallsKeyed
  <2>6. ErpKeyed' /\ JournalsKeyed'
    BY <1>4 DEF Restart, KeyedInv, ErpKeyed, JournalsKeyed, tables
  <2>7. QED
    BY <2>1, <2>5, <2>6 DEF KeyedInv
<1>5. CASE UNCHANGED <<req, journals, journalRows, erpVars>>
  BY <1>5
  DEF KeyedInv, ThreadsKeyed, CallsAwaited, CallsKeyed, ErpKeyed, JournalsKeyed, Keyed,
      Where, Own, erpVars
<1>6. ASSUME NEW i \in Invoices, NEW stored \in BOOLEAN, Ingest(i, stored)
      PROVE  KeyedInv'
  BY <1>5, <1>6 DEF Ingest
<1>7. CASE UNCHANGED vars
  BY <1>5, <1>7 DEF vars, memory, tables
<1>8. QED
  BY <1>1, <1>2, <1>3, <1>4, <1>6, <1>7 DEF Next, HandlerStep
---------------------------------------------------------------------------
(* A stored POSTED has its journal.                                        *)

\* Some copy of invoice i is POSTED: an object, the row, or a parameter on its way.
Posted(i) ==
    \/ \E m \in Makers : object[i][m] = "POSTED"
    \/ invoiceRow[i] = "POSTED"
    \/ \E r \in Callers :
         On(req[r], i) /\ req[r].pc = "commit" /\ req[r].row = "POSTED"

\* The thread is about to save the journal of invoice i.
Recording(q, i) == On(q, i) /\ Where(q) \in {"save_journal", "store_journal"}

HasRow(i) == \E j \in journalRows : j.invoice = i

Recorded(i) == HasRow(i) \/ \E r \in Callers : Recording(req[r], i)

PostedInv ==
    \A i \in Invoices : disturbed[i] \subseteq {"overlap"} /\ Posted(i) => Recorded(i)

LEMMA PostedInit == Init => PostedInv
<1> SUFFICES ASSUME Init, NEW i \in Invoices PROVE ~Posted(i)
  BY DEF PostedInv
<1>1. req = NoRequests /\ object = NoObjects /\ invoiceRow[i] = "absent"
  BY DEF Init
<1>2. QED
  BY <1>1, RequestTypes DEF Posted, NoObjects, NoRequests, On

\* A handler step copies POSTED from one place to another, or is the one that is
\* followed by the saving of the journal.
LEMMA PostedComesFrom ==
    ASSUME Typed, NEW r \in Callers, HandlerStep(r), NEW i \in Invoices, Posted(i)'
    PROVE  Posted(i) \/ Recording(req'[r], i)
<1> DEFINE q == req[r]
<1>1. \A s \in Callers : On(req'[s], i) => On(req[s], i) /\ (s # r => req'[s] = req[s])
  BY OnBefore
<1>2. CASE i # Inv(r)
  <2>1. object'[i] = object[i] /\ invoiceRow'[i] = invoiceRow[i]
    BY <1>2, StepFrame
  <2>2. \A s \in Callers : On(req'[s], i) => s # r
    BY <1>2, OnBefore
  <2>3. QED
    BY <1>1, <2>1, <2>2 DEF Posted
<1>3. CASE i = Inv(r)
  <2>1. PICK p : p = req'[r]
    OBVIOUS
  <2>2. /\ StatusEffect(r, i, q, p) /\ q.object \in Makers
        /\ p = IdleRequest \/ p.inv = i
    BY <1>3, <2>1, StepEffect, InHandler
  <2>3. On(q, i) /\ Held(r, q) /\ object[i] \in [Makers -> Status \cup {"absent"}]
    BY <1>3, NotIdle, InHandler DEF On
  <2>4. ASSUME NEW m \in Makers, NEW st \in Status, NEW next \in AfterSave,
               Writing(i, q, m, st, next), p.pc = "serialise", p.next = next,
               object'[i] = [object[i] EXCEPT ![m] = st],
               invoiceRow'[i] = invoiceRow[i]
        PROVE  Posted(i) \/ Recording(p, i)
    <3>1. CASE st = "POSTED"
      <4>1. next = "save_journal" /\ p.inv = i
        BY <2>2, <2>4, <3>1, RequestTypes DEF Writing
      <4>2. QED
        BY <2>4, <4>1 DEF Recording, On, Where, LoadSteps, SaveSteps
    <3>2. CASE st # "POSTED"
      <4>1. \A n \in Makers : object'[i][n] = "POSTED" => object[i][n] = "POSTED"
        BY <2>3, <2>4, <3>2
      <4>2. ~(p.pc = "commit")
        BY <2>4
      <4>3. QED
        BY <1>1, <2>1, <2>4, <4>1, <4>2 DEF Posted
    <3>3. QED
      BY <3>1, <3>2
    \* The object and the row of i, and the parameter of the thread.
  <2>5. ASSUME \A n \in Makers : object'[i][n] \in {object[i][n], invoiceRow[i]},
               \/ invoiceRow'[i] = invoiceRow[i]
               \/ q.pc = "commit" /\ invoiceRow'[i] = q.row,
               p.pc = "commit" => p.row = object[i][q.object]
        PROVE  Posted(i)
    <3>1. invoiceRow'[i] = "POSTED" => Posted(i)
      BY <2>3, <2>5 DEF Posted
    <3>2. (\E n \in Makers : object'[i][n] = "POSTED") => Posted(i)
      BY <2>5 DEF Posted
    <3>3. (p.pc = "commit" /\ p.row = "POSTED") => Posted(i)
      BY <2>2, <2>5 DEF Posted
    <3>4. QED
      BY <1>1, <2>1, <3>1, <3>2, <3>3 DEF Posted
  <2>6. CASE Ends(i, q, p)
    BY <2>5, <2>6, RequestTypes DEF Ends
  <2>7. CASE Selects(r, i, q, p)
    BY <2>3, <2>5, <2>7 DEF Selects
  <2>8. CASE Caches(i, q, p)
    <3>1. q.pc = "cache_invoice"
      BY <2>8 DEF Caches
    <3>2. q.next # "commit"
      BY <2>3, <3>1 DEF Held, LoadSteps, Starts
    <3>3. QED
      BY <2>5, <2>8, <3>2 DEF Caches
  <2>9. CASE Serialises(i, q, p)
    BY <2>5, <2>9 DEF Serialises, StatusSame
  <2>10. CASE Commits(i, q, p)
    <3>1. q.pc = "commit"
      BY <2>10 DEF Commits
    <3>2. q.next # "commit"
      BY <2>3, <3>1 DEF Held, SaveSteps, AfterSave
    <3>3. QED
      BY <2>5, <2>10, <3>2 DEF Commits
  <2>11. CASE Writes(i, q, p)
    BY <2>1, <2>4, <2>11 DEF Writes
  <2>12. CASE GoesOn(i, q, p)
    <3>1. p.pc # "commit"
      BY <2>12 DEF GoesOn, Between
    <3>2. QED
      BY <2>5, <2>12, <3>1 DEF GoesOn, StatusSame
  <2>13. QED
    BY <2>1, <2>2, <2>6, <2>7, <2>8, <2>9, <2>10, <2>11, <2>12 DEF StatusEffect
<1>4. QED
  BY <1>2, <1>3

\* A thread that is to save a journal goes on to store it, unless a write fails.
LEMMA RecordingEffect ==
    ASSUME PrivateKeys, Typed, KeyedInv, NEW r \in Callers, HandlerStep(r),
           NEW i \in Invoices, Recording(req[r], i), "failed_write" \notin disturbed'[i]
    PROVE  Recording(req'[r], i) \/ HasRow(i)'
<1> DEFINE q == req[r]
<1>1. i = Inv(r) /\ i = q.inv /\ Held(r, q) /\ Keyed(q)
  BY InHandler DEF Recording, On, KeyedInv, ThreadsKeyed
<1>2. PICK p : p = req'[r]
  OBVIOUS
<1>3. JournalEffect(r, i, q, p) /\ (p = IdleRequest \/ p.inv = i)
  BY <1>1, <1>2, StepEffect, StepJournal
<1>4. /\ Where(q) \in {"save_journal", "store_journal"}
      /\ Where(q) = "store_journal" => q.pc = "store_journal"
      /\ Where(q) = "save_journal" => q.pc \in SaveSteps \cup {"save_journal"}
  <2>1. Where(q) \in {"save_journal", "store_journal"}
    BY DEF Recording
  <2>2. /\ q.pc \in LoadSteps => q.next \in Starts
        /\ q.pc \in SaveSteps => q.next \in AfterSave
    BY <1>1 DEF Held, Starts, AfterSave
  <2>3. QED
    BY <2>1, <2>2 DEF Where, Starts, AfterSave
<1>5. CASE Saves(q, p)
  <2>1. p.inv = i
    BY <1>3, <1>5, RequestTypes DEF Saves
  <2>2. QED
    BY <1>2, <1>5, <2>1 DEF Saves, Recording, On, Where, LoadSteps, SaveSteps
<1>6. CASE Stores(i, q, p)
  <2>1. journalRows' = journalRows \cup
          {j \in {q.journal} : \A stored \in journalRows : stored.key # j.key}
    BY <1>6 DEF Stores
  <2>2. Own(q.journal, i)
    BY <1>1, <1>6 DEF Stores, Keyed, Where, LoadSteps, SaveSteps, Posting
  <2>3. CASE q.journal \in journalRows'
    BY <2>2, <2>3 DEF Own, HasRow
  <2>4. CASE q.journal \notin journalRows'
    <3>1. PICK stored \in journalRows : stored.key = q.journal.key
      BY <2>1, <2>4
    <3>2. stored \in Journal /\ stored.key \in KeysOf(stored.invoice)
      BY DEF Typed, TypeOK, KeyedInv, JournalsKeyed
    <3>3. Own(stored, i)
      BY <2>2, <3>1, <3>2, KeyTellsInvoice DEF Own
    <3>4. QED
      BY <2>1, <3>3 DEF Own, HasRow
  <2>5. QED
    BY <2>3, <2>4
<1>7. CASE KeepsJournal(i, q, p)
  <2>1. Where(q) = "save_journal" /\ q.pc \notin {"evaluate_match", "store_journal"}
    <3>1. q.pc \notin {"await_erp", "store_journal"}
      BY <1>7 DEF KeepsJournal
    <3>2. QED
      BY <1>4, <3>1 DEF SaveSteps
  <2>2. p # IdleRequest
    <3>1. p = IdleRequest => p.pc = "idle" /\ Where(p) = "idle"
      BY RequestTypes DEF Where, LoadSteps, SaveSteps
    <3>2. QED
      BY <1>4, <1>7, <2>1, <3>1 DEF KeepsJournal
  <2>3. Where(p) = "save_journal" /\ p.inv = i
    BY <1>3, <1>7, <2>1, <2>2 DEF KeepsJournal
  <2>4. p.pc # "idle"
    BY <2>3 DEF Where, LoadSteps, SaveSteps
  <2>5. QED
    BY <1>2, <2>3, <2>4 DEF Recording, On
<1>8. CASE Replays(i, q, p) \/ KnowsNone(i, q, p) \/ Sends(r, i, q, p)
           \/ Receives(r, q, p) \/ GivesUp(r, q, p)
  BY <1>4, <1>8 DEF Replays, KnowsNone, Sends, Receives, GivesUp, SaveSteps
<1>9. QED
  BY <1>3, <1>5, <1>6, <1>7, <1>8 DEF JournalEffect
LEMMA PostedStep ==
    ASSUME PrivateKeys
    PROVE  Typed /\ KeyedInv /\ PostedInv /\ [Next]_vars => PostedInv'
<1> SUFFICES ASSUME Typed, KeyedInv, PostedInv, [Next]_vars, NEW i \in Invoices,
                    disturbed'[i] \subseteq {"overlap"}, Posted(i)'
             PROVE  Recorded(i)'
  BY DEF PostedInv
<1>1. Posted(i) => Recorded(i)
  BY DisturbedStays DEF PostedInv
<1>2. ASSUME NEW r \in Callers, HandlerStep(r) PROVE Recorded(i)'
  <2>1. CASE Recording(req'[r], i)
    BY <2>1 DEF Recorded, Recording, On, Where
  <2>2. CASE HasRow(i)
    BY <1>2, <2>2, NewJournals DEF HasRow, Recorded
  <2>3. ASSUME NEW s \in Callers, Recording(req[s], i) PROVE Recorded(i)'
    <3>1. CASE s = r
      BY <1>2, <2>1, <2>3, <3>1, RecordingEffect DEF Recorded
    <3>2. CASE s # r
      <4>1. req'[s] = req[s]
        BY <1>2, <3>2, StepFrame
      <4>2. QED
        BY <2>3, <4>1 DEF Recorded, Recording, On, Where
    <3>3. QED
      BY <3>1, <3>2
  <2>4. Posted(i) \/ Recording(req'[r], i)
    BY <1>2, PostedComesFrom
  <2>5. QED
    BY <1>1, <2>1, <2>2, <2>3, <2>4 DEF Recorded
<1>3. ASSUME NEW r \in Callers, NEW k \in Invoices, NewRequest(r, k)
      PROVE  Recorded(i)'
  <2>1. req \in [Callers -> Request] /\ cache[k] \in Makers \cup {"none"}
    BY DEF Typed, TypeOK
  <2>2. /\ req[r].pc = "idle" /\ req' = [req EXCEPT ![r] = req'[r]]
        /\ req'[r].pc \in Starts \cup {"select_invoice"}
        /\ UNCHANGED <<memory, tables>>
    BY <1>3, <2>1, EnterMoves DEF At
  <2>3. \A s \in Callers \ {r} : req'[s] = req[s]
    BY <2>1, <2>2
  <2>4. UNCHANGED <<object, invoiceRow, journalRows>>
    BY <2>2 DEF memory, tables
  <2>5. Posted(i)
    BY <2>2, <2>3, <2>4 DEF Posted, On, Starts
  <2>6. ASSUME NEW s \in Callers, Recording(req[s], i) PROVE Recorded(i)'
    <3>1. s # r
      BY <2>2, <2>6 DEF Recording, On
    <3>2. QED
      BY <2>3, <2>6, <3>1 DEF Recorded, Recording, On, Where
  <2>7. QED
    BY <1>1, <2>4, <2>5, <2>6 DEF Recorded, HasRow
<1>4. CASE Restart
  <2>1. /\ object' = NoObjects /\ req' = NoRequests
        /\ UNCHANGED <<invoiceRow, journalRows>>
        /\ Busy(i) => "crash" \in disturbed'[i]
    BY <1>4 DEF Restart, tables
  <2>2. Posted(i)
    BY <2>1, RequestTypes DEF Posted, NoObjects, NoRequests, On
  <2>3. \A s \in Callers : ~Recording(req[s], i)
    BY <2>1 DEF Busy, At, Inv, Recording, On
  <2>4. QED
    BY <1>1, <2>1, <2>2, <2>3 DEF Recorded, HasRow
<1>5. ASSUME UNCHANGED <<req, journalRows>>,
             \A m \in Makers : object'[i][m] = "POSTED" => object[i][m] = "POSTED",
             invoiceRow'[i] = "POSTED" => invoiceRow[i] = "POSTED"
      PROVE  Recorded(i)'
  BY <1>1, <1>5 DEF Posted, Recorded, HasRow, Recording, On, Where
<1>6. ASSUME NEW k \in Invoices, NEW stored \in BOOLEAN, Ingest(k, stored)
      PROVE  Recorded(i)'
  <2>1. /\ UNCHANGED <<req, journalRows>>
        /\ object' = [object EXCEPT ![k]["upload"] = "EXTRACTED"]
        /\ invoiceRow' = [invoiceRow EXCEPT ![k] = IF stored THEN "EXTRACTED" ELSE @]
    BY <1>6 DEF Ingest
  <2>2. /\ object \in [Invoices -> [Makers -> Status \cup {"absent"}]]
        /\ invoiceRow \in [Invoices -> Status \cup {"absent"}]
    BY DEF Typed, TypeOK
  <2>3. /\ \A m \in Makers : object'[i][m] = "POSTED" => object[i][m] = "POSTED"
        /\ invoiceRow'[i] = "POSTED" => invoiceRow[i] = "POSTED"
    BY <2>1, <2>2
  <2>4. QED
    BY <1>5, <2>1, <2>3
<1>7. CASE ErpServes \/ UNCHANGED vars
  BY <1>5, <1>7 DEF ErpServes, vars, memory, tables
<1>8. QED
  BY <1>2, <1>3, <1>4, <1>6, <1>7 DEF Next, HandlerStep

\* With keys of one's own, an invoice that is stored as POSTED and that nobody works
\* on has its journal stored, unless a write failed or the process died between the
\* two: whatever requests overlapped (workflow.py:430-432, repository.py:371-383).
THEOREM PostedHaveJournals ==
    ASSUME PrivateKeys PROVE Spec => []PostedHasJournal
<1>1. PostedInv => PostedHasJournal
  <2> SUFFICES ASSUME PostedInv, NEW i \in Invoices, invoiceRow[i] = "POSTED",
                      disturbed[i] \subseteq {"overlap"}, ~Busy(i)
               PROVE  \E j \in journalRows : j.invoice = i
    BY DEF PostedHasJournal
  <2>1. Recorded(i)
    BY DEF PostedInv, Posted
  <2>2. QED
    BY <2>1 DEF Recorded, HasRow, Recording, On, Busy, At, Inv
<1>2. Typed /\ KeyedInv /\ [Next]_vars => KeyedInv'
  BY KeyedStep
<1>3. Typed /\ KeyedInv /\ PostedInv /\ [Next]_vars => PostedInv'
  BY PostedStep
<1>4. QED
  BY TypedInit, TypedStep, KeyedInit, PostedInit, <1>1, <1>2, <1>3, PTL DEF Spec
---------------------------------------------------------------------------
(* What a handler step does to the matches.                                *)

MatchesSame(i) == matches'[i] = matches[i] /\ matchRow'[i] = matchRow[i]

SavesMatch(i, q, p) ==
    /\ q.pc = "save_match" /\ p.pc = "store_match" /\ p.matched = q.matched
    /\ matches'[i] = {q.matched} /\ matchRow'[i] = matchRow[i]

\* The write may fail, or have been made and not acknowledged.
StoresMatch(i, q, p) ==
    /\ q.pc = "store_match" /\ matches'[i] = matches[i]
    /\ p.pc \notin {"store_match", "cache_match"}
    /\ \/ matchRow'[i] = {q.matched}
       \/ matchRow'[i] = matchRow[i] /\ "failed_write" \in disturbed'[i]

LoadsMatch(i, q, p) ==
    /\ q.pc = "latest_match" /\ p.pc = "cache_match" /\ p.matched \in matchRow[i]
    /\ matches[i] = {} /\ MatchesSame(i)

CachesMatch(i, q, p) ==
    /\ q.pc = "cache_match" /\ p.pc = "post_guard"
    /\ matches'[i] = {q.matched} /\ matchRow'[i] = matchRow[i]

KeepsMatch(i, q, p) ==
    /\ MatchesSame(i)
    /\ q.pc # "store_match" /\ p.pc \notin {"store_match", "cache_match"}

MatchEffect(i, q, p) ==
    \/ SavesMatch(i, q, p)
    \/ StoresMatch(i, q, p)
    \/ LoadsMatch(i, q, p)
    \/ CachesMatch(i, q, p)
    \/ KeepsMatch(i, q, p)

\* The step is neither the saving of a match nor the look-up of one that is found.
Elsewhere(r) ==
    /\ req[r].pc \notin {"save_match", "store_match"}
    /\ req[r].pc = "latest_match" => Finish(r)

\* Every other step than these five leaves the matches alone.
LEMMA OtherStepsKeep ==
    ASSUME NEW r \in Callers, HandlerStep(r)
    PROVE  \/ SaveMatch(r)
           \/ StoreMatch(r)
           \/ WriteFails(r)
           \/ \E matched \in BOOLEAN : LatestMatch(r, matched)
           \/ CacheMatch(r)
           \/ UNCHANGED <<matches, matchRow>> /\ Elsewhere(r)
<1> USE DEF memory, tables, Elsewhere
<1>1. SaveStep(r) => WriteFails(r) \/ (UNCHANGED <<matches, matchRow>> /\ Elsewhere(r))
  BY DEF SaveStep, SelectInvoice, CacheInvoice, Serialise, Commit, WriteInvoiceRow, Done,
         ReadFails, At
<1>2. MatchStep(r) =>
        \/ SaveMatch(r) \/ StoreMatch(r)
        \/ UNCHANGED <<matches, matchRow>> /\ Elsewhere(r)
  BY DEF MatchStep, MatchGuard, RunMatch, MatchFails, SetMatchStatus, EvaluateMatch,
         Finalize, WriteStatus, At
<1>3. DecideStep(r) => UNCHANGED <<matches, matchRow>> /\ Elsewhere(r)
  BY DEF DecideStep, DecideGuard, RecordDecision, AnswerDecision, WriteStatus, At
<1>4. PostStep(r) =>
        \/ CacheMatch(r) \/ \E matched \in BOOLEAN : LatestMatch(r, matched)
        \/ UNCHANGED <<matches, matchRow>> /\ Elsewhere(r)
  BY DEF PostStep, ReplayJournal, NoKnownJournal, NoMatch, PostGuard, SendJournal,
         ReceiveJournal, PostFails, CallTimesOut, SetPosted, SaveJournal, StoreJournal,
         WriteJournalRow, WriteStatus, At
<1>5. QED
  BY <1>1, <1>2, <1>3, <1>4 DEF HandlerStep

LEMMA StepMatches ==
    ASSUME Typed, NEW r \in Callers, HandlerStep(r), NEW i \in Invoices, i = Inv(r)
    PROVE  MatchEffect(i, req[r], req'[r])
<1> DEFINE q == req[r]
           Goal == MatchEffect(i, req[r], req'[r])
<1>h. /\ q \in Request /\ req \in [Callers -> Request] /\ i = q.inv /\ q.matched \in BOOLEAN
      /\ matches \in [Invoices -> SUBSET BOOLEAN]
      /\ matchRow \in [Invoices -> SUBSET BOOLEAN]
  BY InHandler DEF Typed, TypeOK, Request
<1> USE DEF memory, tables
<1>1. CASE SaveMatch(r)
  <2>1. /\ q.pc = "save_match" /\ Goto(r, "store_match") /\ "store_match" \in Steps
        /\ matches' = [matches EXCEPT ![i] = {q.matched}] /\ matchRow' = matchRow
    BY <1>1 DEF SaveMatch, At, Steps, MatchSteps
  <2>2. req'[r].pc = "store_match" /\ req'[r].matched = q.matched
    BY <1>h, <2>1, GotoMoves
  <2>3. SavesMatch(i, q, req'[r])
    BY <1>h, <2>1, <2>2 DEF SavesMatch
  <2>4. QED
    BY <2>3 DEF MatchEffect
<1>2. CASE StoreMatch(r)
  <2>1. /\ q.pc = "store_match" /\ Goto(r, "set_status") /\ "set_status" \in Steps
        /\ matchRow' = [matchRow EXCEPT ![i] = {q.matched}] /\ matches' = matches
    BY <1>2 DEF StoreMatch, WriteMatchRow, At, Steps, MatchSteps
  <2>2. req'[r].pc = "set_status"
    BY <1>h, <2>1, GotoMoves
  <2>3. StoresMatch(i, q, req'[r])
    BY <1>h, <2>1, <2>2 DEF StoresMatch
  <2>4. QED
    BY <2>3 DEF MatchEffect
<1>3. CASE WriteFails(r)
  <2>1. Finish(r) /\ matches' = matches /\ Trouble(i, {"failed_write"})
    BY <1>3 DEF WriteFails
  <2>2. "failed_write" \in disturbed'[i]
    BY <2>1, TroubleTypes DEF Disturbances
  <2>3. req'[r].pc = "idle"
    BY <1>h, <2>1, FinishMoves, RequestTypes
  <2>4. CASE WriteMatchRow(r)
    <3>1. q.pc = "store_match" /\ matchRow' = [matchRow EXCEPT ![i] = {q.matched}]
      BY <2>4 DEF WriteMatchRow, At
    <3>2. StoresMatch(i, q, req'[r])
      BY <1>h, <2>1, <2>3, <3>1 DEF StoresMatch
    <3>3. QED
      BY <3>2 DEF MatchEffect
  <2>5. CASE ~WriteMatchRow(r)
    <3>1. matchRow' = matchRow
      BY <1>3, <2>5 DEF WriteFails, WriteInvoiceRow, WriteJournalRow
    <3>2. StoresMatch(i, q, req'[r]) \/ KeepsMatch(i, q, req'[r])
      BY <2>1, <2>2, <2>3, <3>1 DEF StoresMatch, KeepsMatch, MatchesSame
    <3>3. QED
      BY <3>2 DEF MatchEffect
  <2>6. QED
    BY <2>4, <2>5
<1>4. ASSUME NEW matched \in BOOLEAN, LatestMatch(r, matched) PROVE Goal
  <2>1. /\ q.pc = "latest_match" /\ UNCHANGED <<matches, matchRow>>
        /\ matched \in IF matches[i] # {} THEN matches[i] ELSE matchRow[i]
    BY <1>4 DEF LatestMatch, At
  <2>2. /\ req'[r].matched = matched
        /\ req'[r].pc = IF matches[i] # {} THEN "post_guard" ELSE "cache_match"
    BY <1>h, <1>4, LatestMatchMoves
  <2>3. LoadsMatch(i, q, req'[r]) \/ KeepsMatch(i, q, req'[r])
    BY <2>1, <2>2 DEF LoadsMatch, KeepsMatch, MatchesSame
  <2>4. QED
    BY <2>3 DEF MatchEffect
<1>5. CASE CacheMatch(r)
  <2>1. /\ q.pc = "cache_match" /\ Goto(r, "post_guard") /\ "post_guard" \in Steps
        /\ matches' = [matches EXCEPT ![i] = {q.matched}] /\ matchRow' = matchRow
    BY <1>5 DEF CacheMatch, At, Steps, PostSteps
  <2>2. req'[r].pc = "post_guard"
    BY <1>h, <2>1, GotoMoves
  <2>3. CachesMatch(i, q, req'[r])
    BY <1>h, <2>1, <2>2 DEF CachesMatch
  <2>4. QED
    BY <2>3 DEF MatchEffect
<1>6. CASE UNCHANGED <<matches, matchRow>> /\ Elsewhere(r)
  <2>1. PICK p : p = req'[r]
    OBVIOUS
  <2>2. StatusEffect(r, i, q, p) /\ Held(r, q)
    BY <2>1, StepEffect, InHandler
  <2>3. p.pc = "store_match" => q.pc = "save_match"
    BY <2>2, RequestTypes
    DEF StatusEffect, Ends, Selects, Caches, Serialises, Commits, Writes, GoesOn, Held,
        LoadSteps, SaveSteps, Starts, AfterSave, Between
  <2>4. p.pc = "cache_match" => q.pc = "latest_match"
    BY <2>2, RequestTypes
    DEF StatusEffect, Ends, Selects, Caches, Serialises, Commits, Writes, GoesOn, Held,
        LoadSteps, SaveSteps, Starts, AfterSave
  <2>5. q.pc = "latest_match" => p.pc = "idle"
    BY <1>h, <1>6, <2>1, FinishMoves, RequestTypes DEF Elsewhere
  <2>6. KeepsMatch(i, q, p)
    BY <1>6, <2>3, <2>4, <2>5 DEF KeepsMatch, MatchesSame, Elsewhere
  <2>7. QED
    BY <2>1, <2>6 DEF MatchEffect
<1>7. QED
  BY <1>1, <1>2, <1>3, <1>4, <1>5, <1>6, OtherStepsKeep
---------------------------------------------------------------------------
(* The cache is what the tables say.                                       *)

\* The cached object of an invoice, if there is one, has the status of its row.
Current(o, c, w) == c # "none" => o[c] = w

\* The objects o, the cached one c and the row w of an invoice while the only
\* thread on it has the fields q: during a save the object is ahead of the row.
StatusSynced(q, o, c, w) ==
    /\ q.pc \notin SaveSteps => Current(o, c, w)
    /\ q.pc \in SaveSteps => c = q.object
    /\ q.pc = "commit" => q.row = o[c]
    /\ q.pc = "cache_invoice" => o[q.object] = w

\* The match m in memory and the row w likewise.
MatchSynced(q, m, w) ==
    /\ q.pc = "store_match" => m = {q.matched}
    /\ q.pc # "store_match" => m \in {{}, w}
    /\ q.pc = "cache_match" => w = {q.matched}

NoneOf(i, js) == \A j \in js : j.invoice # i

\* And the journals: a thread about to post has found none.
JournalSynced(q, i) ==
    /\ \A j \in journals : j.invoice = i =>
         j \in journalRows \/ (q.pc = "store_journal" /\ j = q.journal)
    /\ Where(q) \in Between \cup {"save_journal"} => NoneOf(i, journals \cup journalRows)
    /\ q.pc = "store_journal" => NoneOf(i, journalRows)

\* While nobody works on i it is as an idle thread would leave it.
SyncedFor(q, i) ==
    /\ StatusSynced(q, object[i], cache[i], invoiceRow[i])
    /\ MatchSynced(q, matches[i], matchRow[i])
    /\ JournalSynced(q, i)

SyncAt(i) ==
    /\ (\A r \in Callers : ~On(req[r], i)) => SyncedFor(IdleRequest, i)
    /\ \A r \in Callers : On(req[r], i) => SyncedFor(req[r], i)

OneMatchRow == \A i \in Invoices : matchRow[i] \in {{}, {TRUE}, {FALSE}}

SyncInv ==
    /\ OneMatchRow
    /\ \A i \in Invoices : disturbed[i] \subseteq {"crash"} => SyncAt(i)

LEMMA SyncInit == Init => SyncInv
<1> SUFFICES ASSUME Init, NEW i \in Invoices PROVE matchRow[i] = {} /\ SyncAt(i)
  BY DEF SyncInv, OneMatchRow
<1>1. /\ cache[i] = "none" /\ matches[i] = {} /\ matchRow[i] = {} /\ journals = {}
      /\ journalRows = {} /\ req = NoRequests
  BY DEF Init, NoCache, NoMatches
<1>2. \A r \in Callers : ~On(req[r], i)
  BY <1>1, RequestTypes DEF NoRequests, On
<1>3. SyncedFor(IdleRequest, i)
  BY <1>1, RequestTypes
  DEF SyncedFor, StatusSynced, MatchSynced, JournalSynced, Current, SaveSteps, NoneOf
<1>4. QED
  BY <1>1, <1>2, <1>3 DEF SyncAt

\* A save that ends early ends with a failed write.
LEMMA EndsClean ==
    ASSUME NEW r, NEW i, NEW q, NEW p, JournalEffect(r, i, q, p), p = IdleRequest,
           "failed_write" \notin disturbed'[i]
    PROVE  q.pc \notin SaveSteps
<1>1. p.pc = "idle"
  BY RequestTypes
<1>2. QED
  BY <1>1
  DEF JournalEffect, Replays, KnowsNone, Sends, Receives, GivesUp, Saves, Stores,
      KeepsJournal, SaveSteps

LEMMA StatusSyncedEffect ==
    ASSUME Typed, NEW r \in Callers, NEW i \in Invoices, NEW q \in Request, Held(r, q),
           NEW p, StatusEffect(r, i, q, p), p = IdleRequest => q.pc \notin SaveSteps,
           StatusSynced(q, object[i], cache[i], invoiceRow[i])
    PROVE  StatusSynced(p, object'[i], cache'[i], invoiceRow'[i])
<1>1. /\ object[i] \in [Makers -> Status \cup {"absent"}] /\ q.object \in Makers
      /\ "none" \notin Makers
  BY DurableConstants DEF Typed, TypeOK, Request, Makers
<1> USE DEF StatusSynced, Current, SaveSteps
<1>2. CASE Ends(i, q, p)
  <2>1. p = IdleRequest /\ p.pc = "idle"
    BY <1>2, RequestTypes DEF Ends
  <2>2. QED
    BY <1>2, <2>1 DEF Ends
<1>3. CASE Selects(r, i, q, p)
  BY <1>1, <1>3 DEF Selects
<1>4. CASE Caches(i, q, p)
  <2>1. q.pc = "cache_invoice" /\ p.pc = q.next
    BY <1>4 DEF Caches
  <2>2. q.next \in Starts
    BY <2>1 DEF Held, LoadSteps
  <2>3. QED
    BY <1>4, <2>1, <2>2 DEF Caches, Starts
<1>5. CASE Serialises(i, q, p)
  BY <1>5 DEF Serialises, StatusSame
<1>6. CASE Commits(i, q, p)
  <2>1. q.pc = "commit" /\ p.pc = q.next
    BY <1>6 DEF Commits
  <2>2. q.next \in AfterSave
    BY <2>1 DEF Held
  <2>3. QED
    BY <1>6, <2>1, <2>2 DEF Commits, AfterSave
<1>7. CASE Writes(i, q, p)
  BY <1>7 DEF Writes
<1>8. CASE GoesOn(i, q, p)
  <2>1. p.pc \notin SaveSteps /\ q.pc \notin SaveSteps /\ p.pc # "cache_invoice"
    BY <1>8 DEF GoesOn, Between
  <2>2. QED
    BY <1>8, <2>1 DEF GoesOn, StatusSame
<1>9. QED
  BY <1>2, <1>3, <1>4, <1>5, <1>6, <1>7, <1>8 DEF StatusEffect

LEMMA MatchSyncedEffect ==
    ASSUME NEW i \in Invoices, NEW q \in Request, NEW p, MatchEffect(i, q, p),
           "failed_write" \notin disturbed'[i], matchRow[i] \in {{}, {TRUE}, {FALSE}},
           MatchSynced(q, matches[i], matchRow[i])
    PROVE  MatchSynced(p, matches'[i], matchRow'[i]) /\ matchRow'[i] \in {{}, {TRUE}, {FALSE}}
<1>1. q.matched \in BOOLEAN
  BY DEF Request
<1> USE DEF MatchSynced
<1>2. CASE SavesMatch(i, q, p)
  BY <1>2 DEF SavesMatch
<1>3. CASE StoresMatch(i, q, p)
  BY <1>1, <1>3 DEF StoresMatch
<1>4. CASE LoadsMatch(i, q, p)
  <2>1. matchRow[i] = {p.matched}
    BY <1>4 DEF LoadsMatch
  <2>2. QED
    BY <1>4, <2>1 DEF LoadsMatch, MatchesSame
<1>5. CASE CachesMatch(i, q, p)
  BY <1>5 DEF CachesMatch
<1>6. CASE KeepsMatch(i, q, p)
  BY <1>6 DEF KeepsMatch, MatchesSame
<1>7. QED
  BY <1>2, <1>3, <1>4, <1>5, <1>6 DEF MatchEffect

\* Where a journal is about to be saved or stored.
LEMMA WhereStored ==
    ASSUME NEW r, NEW q, Held(r, q)
    PROVE  Where(q) = "store_journal" <=> q.pc = "store_journal"
<1>1. /\ q.pc \in LoadSteps => q.next \in Starts
      /\ q.pc \in SaveSteps => q.next \in AfterSave
  BY DEF Held
<1>2. QED
  BY <1>1 DEF Where, Starts, AfterSave, LoadSteps, SaveSteps

LEMMA JournalSyncedEffect ==
    ASSUME PrivateKeys, Typed, KeyedInv, NEW r \in Callers, NEW i \in Invoices,
           i = Inv(r), NEW p, JournalEffect(r, i, req[r], p),
           "failed_write" \notin disturbed'[i], JournalSynced(req[r], i)
    PROVE  /\ \A j \in journals' : j.invoice = i =>
                j \in journalRows' \/ (p.pc = "store_journal" /\ j = p.journal)
           /\ Where(p) \in Between \cup {"save_journal"} =>
                NoneOf(i, journals' \cup journalRows')
           /\ p.pc = "store_journal" => NoneOf(i, journalRows')
<1> DEFINE q == req[r]
           Goal ==
             /\ \A j \in journals' : j.invoice = i =>
                  j \in journalRows' \/ (p.pc = "store_journal" /\ j = p.journal)
             /\ Where(p) \in Between \cup {"save_journal"} =>
                  NoneOf(i, journals' \cup journalRows')
             /\ p.pc = "store_journal" => NoneOf(i, journalRows')
<1>1. /\ i = q.inv /\ Held(r, q) /\ Keyed(q)
      /\ Where(q) = "store_journal" <=> q.pc = "store_journal"
  BY InHandler, WhereStored DEF KeyedInv, ThreadsKeyed
<1>2. p = IdleRequest => p.pc = "idle" /\ Where(p) = "idle"
  BY RequestTypes DEF Where, LoadSteps, SaveSteps
<1>3. /\ \A s \in {"store_journal", "latest_match", "await_erp", "set_posted",
                   "get_journal", "erp_call", "save_journal"} :
           (p.pc = s => Where(p) = s) /\ (q.pc = s => Where(q) = s)
  BY DEF Where, LoadSteps, SaveSteps
<1> USE DEF JournalSynced, NoneOf
<1>4. CASE Replays(i, q, p)
  <2>1. \A j \in journals' : j \in journals \cup journalRows
    BY <1>4 DEF Replays
  <2>2. QED
    BY <1>2, <1>4, <2>1 DEF Replays, Between
<1>5. CASE KnowsNone(i, q, p)
  BY <1>3, <1>5 DEF KnowsNone, JournalsSame
<1>6. CASE Sends(r, i, q, p) \/ Receives(r, q, p)
  <2>1. /\ Where(q) \in Between /\ p.pc # "store_journal" /\ q.pc # "store_journal"
        /\ journals' = journals /\ journalRows' = journalRows
    BY <1>3, <1>6 DEF Sends, Receives, JournalsSame, Between
  <2>2. QED
    BY <2>1
<1>7. CASE GivesUp(r, q, p)
  BY <1>2, <1>7 DEF GivesUp, JournalsSame, Between
<1>8. CASE Saves(q, p)
  <2>1. NoneOf(i, journals \cup journalRows) /\ Where(p) = "store_journal"
    BY <1>3, <1>8 DEF Saves
  <2>2. QED
    BY <1>8, <2>1 DEF Saves, Between
<1>9. CASE Stores(i, q, p)
  <2>1. journalRows' = journalRows \cup
          {j \in {q.journal} : \A stored \in journalRows : stored.key # j.key}
    BY <1>9 DEF Stores
  <2>2. Own(q.journal, i)
    BY <1>1, <1>3, <1>9 DEF Stores, Keyed, Posting
  <2>3. ASSUME NEW stored \in journalRows, stored.key = q.journal.key PROVE FALSE
    <3>1. stored \in Journal /\ stored.key \in KeysOf(stored.invoice)
      BY DEF Typed, TypeOK, KeyedInv, JournalsKeyed
    <3>2. Own(stored, i)
      BY <2>2, <2>3, <3>1, KeyTellsInvoice DEF Own
    <3>3. QED
      BY <1>9, <2>3, <3>2 DEF Stores, Own
  <2>4. q.journal \in journalRows' /\ journalRows \subseteq journalRows'
    BY <2>1, <2>3
  <2>5. QED
    BY <1>2, <1>9, <2>4 DEF Stores, Between
<1>10. CASE KeepsJournal(i, q, p)
  <2>1. /\ journals' = journals /\ journalRows' = journalRows
        /\ Where(q) # "store_journal" /\ q.pc # "store_journal"
    BY <1>1, <1>10 DEF KeepsJournal, JournalsSame
  <2>2. /\ Where(p) # "store_journal" /\ p.pc # "store_journal"
        /\ Where(p) \in Between \cup {"save_journal"} =>
             Where(q) \in Between \cup {"save_journal"}
    BY <1>2, <1>3, <1>10, <2>1 DEF KeepsJournal, Between, Posting
  <2>3. QED
    BY <2>1, <2>2
<1>11. QED
  BY <1>4, <1>5, <1>6, <1>7, <1>8, <1>9, <1>10 DEF JournalEffect
\* A handler step on i by the only thread there.
LEMMA SyncOwnStep ==
    ASSUME PrivateKeys, Typed, KeyedInv, SyncInv, NEW r \in Callers, HandlerStep(r),
           NEW i \in Invoices, i = Inv(r), "failed_write" \notin disturbed'[i],
           SyncedFor(req[r], i)
    PROVE  /\ StatusSynced(req'[r], object'[i], cache'[i], invoiceRow'[i])
           /\ MatchSynced(req'[r], matches'[i], matchRow'[i])
           /\ \A j \in journals' : j.invoice = i =>
                j \in journalRows' \/ (req'[r].pc = "store_journal" /\ j = req'[r].journal)
           /\ Where(req'[r]) \in Between \cup {"save_journal"} =>
                NoneOf(i, journals' \cup journalRows')
           /\ req'[r].pc = "store_journal" => NoneOf(i, journalRows')
<1>1. PICK p : p = req'[r]
  OBVIOUS
<1>2. /\ StatusEffect(r, i, req[r], p) /\ JournalEffect(r, i, req[r], p)
      /\ MatchEffect(i, req[r], p)
      /\ req[r] \in Request /\ Held(r, req[r])
  BY <1>1, StepEffect, StepJournal, StepMatches, InHandler
<1>3. p = IdleRequest => req[r].pc \notin SaveSteps
  BY <1>2, EndsClean
<1>4. StatusSynced(p, object'[i], cache'[i], invoiceRow'[i])
  BY <1>2, <1>3, StatusSyncedEffect DEF SyncedFor
<1>5. MatchSynced(p, matches'[i], matchRow'[i])
  BY <1>2, MatchSyncedEffect DEF SyncedFor, SyncInv, OneMatchRow
<1>6. /\ \A j \in journals' : j.invoice = i =>
           j \in journalRows' \/ (p.pc = "store_journal" /\ j = p.journal)
      /\ Where(p) \in Between \cup {"save_journal"} =>
           NoneOf(i, journals' \cup journalRows')
      /\ p.pc = "store_journal" => NoneOf(i, journalRows')
  BY <1>2, JournalSyncedEffect DEF SyncedFor
<1>7. QED
  BY <1>1, <1>4, <1>5, <1>6

LEMMA SyncHandlerStep ==
    ASSUME PrivateKeys, Typed, AloneInv, KeyedInv, SyncInv, NEW r \in Callers,
           HandlerStep(r), NEW i \in Invoices, disturbed'[i] \subseteq {"crash"},
           disturbed[i] \subseteq disturbed'[i]
    PROVE  SyncAt(i)'
<1>1. SyncAt(i) /\ "overlap" \notin disturbed[i]
  BY DEF SyncInv
<1>2. CASE i = Inv(r)
  <2>1. On(req[r], i)
    BY <1>2, NotIdle, InHandler DEF On
  <2>2. SyncedFor(req[r], i)
    BY <1>1, <2>1 DEF SyncAt
  <2>3. PICK p : p = req'[r]
    OBVIOUS
  <2>4. /\ StatusSynced(p, object'[i], cache'[i], invoiceRow'[i])
        /\ MatchSynced(p, matches'[i], matchRow'[i])
        /\ \A j \in journals' : j.invoice = i =>
             j \in journalRows' \/ (p.pc = "store_journal" /\ j = p.journal)
        /\ Where(p) \in Between \cup {"save_journal"} =>
             NoneOf(i, journals' \cup journalRows')
        /\ p.pc = "store_journal" => NoneOf(i, journalRows')
    BY <1>2, <2>2, <2>3, SyncOwnStep
  <2>5. SyncedFor(p, i)'
    BY <2>4
    DEF SyncedFor, StatusSynced, MatchSynced, JournalSynced, Current, Where, NoneOf
  <2>6. \A s \in Callers : On(req'[s], i) => s = r
    BY <1>1, <2>1, OnBefore DEF AloneInv
  <2>7. p = IdleRequest \/ On(p, i)
    <3>1. p = IdleRequest \/ p.inv = i
      BY <1>2, <2>3, StepEffect
    <3>2. JournalEffect(r, i, req[r], p)
      BY <1>2, <2>3, StepJournal
    <3>3. p = IdleRequest \/ p.pc # "idle"
      BY <3>2
      DEF JournalEffect, Replays, KnowsNone, Sends, Receives, GivesUp, Saves, Stores,
          KeepsJournal
    <3>4. QED
      BY <3>1, <3>3 DEF On
  <2>8. QED
    BY <2>3, <2>5, <2>6, <2>7 DEF SyncAt, On
<1>3. CASE i # Inv(r)
  <2>1. /\ object'[i] = object[i] /\ cache'[i] = cache[i]
        /\ matches'[i] = matches[i] /\ invoiceRow'[i] = invoiceRow[i]
        /\ matchRow'[i] = matchRow[i]
    BY <1>3, StepFrame
  <2>2. /\ journalRows \subseteq journalRows'
        /\ \A j \in journals' : j.invoice = i => j \in journals
        /\ \A j \in journalRows' : j.invoice = i => j \in journalRows
    BY <1>3, NewJournals
  <2>3. ASSUME NEW q, SyncedFor(q, i) PROVE SyncedFor(q, i)'
    BY <2>1, <2>2, <2>3
    DEF SyncedFor, StatusSynced, MatchSynced, JournalSynced, Current, Where, NoneOf
  <2>4. \A s \in Callers :
          (On(req'[s], i) => On(req[s], i) /\ req'[s] = req[s])
            /\ (On(req[s], i) => req'[s] = req[s])
    <3>1. Inv(r) = req[r].inv
      BY InHandler
    <3>2. QED
      BY <1>3, <3>1, OnBefore, StepFrame DEF On
  <2>5. QED
    BY <1>1, <2>3, <2>4 DEF SyncAt, On
<1>4. QED
  BY <1>2, <1>3
LEMMA OneRowStep ==
    ASSUME Typed, OneMatchRow, [Next]_vars
    PROVE  OneMatchRow'
<1>1. ASSUME NEW r \in Callers, HandlerStep(r) PROVE OneMatchRow'
  <2>1. PICK i \in Invoices : i = Inv(r)
    BY InHandler
  <2>2. MatchEffect(i, req[r], req'[r]) /\ req[r].matched \in BOOLEAN
    BY <1>1, <2>1, StepMatches, InHandler DEF Request
  <2>3. matchRow'[i] \in {matchRow[i], {req[r].matched}}
    BY <2>2
    DEF MatchEffect, SavesMatch, StoresMatch, LoadsMatch, CachesMatch, KeepsMatch,
        MatchesSame
  <2>4. \A k \in Invoices \ {i} : matchRow'[k] = matchRow[k]
    BY <1>1, <2>1, StepFrame
  <2>5. matchRow'[i] \in {{}, {TRUE}, {FALSE}}
    BY <2>2, <2>3 DEF OneMatchRow
  <2>6. QED
    BY <2>4, <2>5 DEF OneMatchRow
<1>2. ASSUME NEW r \in Callers, NEW i \in Invoices, NewRequest(r, i) PROVE OneMatchRow'
  BY <1>2
  DEF NewRequest, StartMatch, StartPost, StartDecision, Enter, tables, OneMatchRow
<1>3. ASSUME NEW i \in Invoices, NEW stored \in BOOLEAN, Ingest(i, stored)
      PROVE  OneMatchRow'
  BY <1>3 DEF Ingest, OneMatchRow
<1>4. CASE ErpServes \/ Restart \/ UNCHANGED vars
  BY <1>4 DEF ErpServes, Restart, vars, tables, OneMatchRow
<1>5. QED
  BY <1>1, <1>2, <1>3, <1>4 DEF Next, HandlerStep

\* A request that starts on i, or elsewhere.
LEMMA SyncRequestStep ==
    ASSUME Typed, SyncInv, NEW r \in Callers, NEW k \in Invoices, NewRequest(r, k),
           NEW i \in Invoices, disturbed'[i] \subseteq {"crash"},
           disturbed[i] \subseteq disturbed'[i]
    PROVE  SyncAt(i)'
<1>1. SyncAt(i) /\ "overlap" \notin disturbed'[i]
  BY DEF SyncInv
<1>2. req \in [Callers -> Request] /\ cache[k] \in Makers \cup {"none"}
  BY DEF Typed, TypeOK
<1>3. /\ req[r].pc = "idle" /\ req'[r].inv = k
      /\ \A s \in Callers \ {r} : req'[s] = req[s]
      /\ k = i => \A s \in Callers : ~On(req[s], i)
  BY <1>1, StartsAlone
<1>4. /\ UNCHANGED <<memory, tables>>
      /\ req'[r].pc \in Starts \/
           (req'[r].pc = "select_invoice" /\ req'[r].next \in Starts)
  BY <1>2, EnterMoves
<1>5. PICK p : p = req'[r]
  OBVIOUS
<1>6. ASSUME NEW q, SyncedFor(q, i) PROVE SyncedFor(q, i)'
  BY <1>4, <1>6
  DEF SyncedFor, StatusSynced, MatchSynced, JournalSynced, Current, Where, NoneOf, memory,
      tables
<1>7. CASE k # i
  <2>1. \A s \in Callers : (On(req'[s], i) \/ On(req[s], i)) => req'[s] = req[s]
    BY <1>3, <1>7 DEF On
  <2>2. QED
    BY <1>1, <1>6, <2>1 DEF SyncAt, On
<1>8. CASE k = i
  <2>1. SyncedFor(IdleRequest, i)
    BY <1>1, <1>3, <1>8 DEF SyncAt
  <2>2. p.pc \in Starts \cup {"select_invoice"} /\ Where(p) \in Starts
    BY <1>4, <1>5 DEF Where, Starts, LoadSteps, SaveSteps
  <2>3. SyncedFor(p, i)
    BY <2>1, <2>2, RequestTypes
    DEF SyncedFor, StatusSynced, MatchSynced, JournalSynced, Starts, SaveSteps, Between
  <2>4. p.pc # "idle" /\ p.inv = i
    BY <1>3, <1>5, <1>8, <2>2 DEF Starts
  <2>5. \A s \in Callers : On(req'[s], i) => s = r
    BY <1>3, <1>8 DEF On
  <2>6. QED
    BY <1>5, <1>6, <2>3, <2>4, <2>5 DEF SyncAt, On
<1>9. QED
  BY <1>7, <1>8

\* An upload of i: it is stored, since a failed write would be noted.
LEMMA SyncIngestStep ==
    ASSUME Typed, SyncInv, NEW k \in Invoices, NEW stored \in BOOLEAN, Ingest(k, stored),
           NEW i \in Invoices, disturbed'[i] \subseteq {"crash"},
           disturbed[i] \subseteq disturbed'[i]
    PROVE  SyncAt(i)'
<1>1. SyncAt(i)
  BY DEF SyncInv
<1>2. /\ ~Exists(k)
      /\ object' = [object EXCEPT ![k]["upload"] = "EXTRACTED"]
      /\ cache' = [cache EXCEPT ![k] = "upload"]
      /\ invoiceRow' = [invoiceRow EXCEPT ![k] = IF stored THEN "EXTRACTED" ELSE @]
      /\ stored \/ Trouble(k, {"failed_write"})
      /\ UNCHANGED <<matches, journals, matchRow, journalRows, req>>
  BY DEF Ingest
<1>3. /\ object \in [Invoices -> [Makers -> Status \cup {"absent"}]]
      /\ cache \in [Invoices -> Makers \cup {"none"}]
      /\ invoiceRow \in [Invoices -> Status \cup {"absent"}] /\ "upload" \in Makers
  BY DEF Typed, TypeOK, Makers
<1>4. CASE k # i
  <2>1. object'[i] = object[i] /\ cache'[i] = cache[i] /\ invoiceRow'[i] = invoiceRow[i]
    BY <1>2, <1>3, <1>4
  <2>2. ASSUME NEW q, SyncedFor(q, i) PROVE SyncedFor(q, i)'
    BY <1>2, <2>1, <2>2
    DEF SyncedFor, StatusSynced, MatchSynced, JournalSynced, Current, Where, NoneOf
  <2>3. QED
    BY <1>1, <1>2, <2>2 DEF SyncAt, On
<1>5. CASE k = i
  <2>1. cache[i] = "none" /\ invoiceRow[i] = "absent"
    BY <1>2, <1>5 DEF Exists
  <2>2. ASSUME NEW s \in Callers, On(req[s], i) PROVE FALSE
    <3>1. Held(s, req[s])
      BY DEF Typed, ThreadInv
    <3>2. QED
      BY <2>1, <2>2, <3>1 DEF Held, On
  <2>3. SyncedFor(IdleRequest, i)
    BY <1>1, <2>2 DEF SyncAt
  <2>4. stored
    <3>1. Trouble(k, {"failed_write"}) => "failed_write" \in disturbed'[i]
      BY <1>5, TroubleTypes DEF Disturbances
    <3>2. QED
      BY <1>2, <3>1
  <2>5. object'[i][cache'[i]] = invoiceRow'[i]
    BY <1>2, <1>3, <1>5, <2>4
  <2>6. SyncedFor(IdleRequest, i)'
    BY <1>2, <2>3, <2>5, RequestTypes
    DEF SyncedFor, StatusSynced, MatchSynced, JournalSynced, Current, Where, NoneOf,
        SaveSteps
  <2>7. QED
    BY <1>2, <2>2, <2>6 DEF SyncAt, On
<1>6. QED
  BY <1>4, <1>5

LEMMA SyncStep ==
    ASSUME PrivateKeys
    PROVE  Typed /\ AloneInv /\ KeyedInv /\ SyncInv /\ [Next]_vars => SyncInv'
<1> SUFFICES ASSUME Typed, AloneInv, KeyedInv, SyncInv, [Next]_vars, NEW i \in Invoices,
                    disturbed'[i] \subseteq {"crash"}
             PROVE  SyncAt(i)'
  BY OneRowStep DEF SyncInv
<1>1. disturbed[i] \subseteq disturbed'[i]
  BY DisturbedStays
<1>2. SyncAt(i)
  BY <1>1 DEF SyncInv
<1>3. ASSUME NEW r \in Callers, HandlerStep(r) PROVE SyncAt(i)'
  BY <1>1, <1>3, SyncHandlerStep
<1>4. ASSUME NEW r \in Callers, NEW k \in Invoices, NewRequest(r, k) PROVE SyncAt(i)'
  BY <1>1, <1>4, SyncRequestStep
<1>5. ASSUME NEW k \in Invoices, NEW stored \in BOOLEAN, Ingest(k, stored)
      PROVE  SyncAt(i)'
  BY <1>1, <1>5, SyncIngestStep
<1>6. CASE Restart
  <2>1. /\ cache'[i] = "none" /\ matches'[i] = {} /\ journals' = {} /\ req' = NoRequests
    BY <1>6 DEF Restart, NoCache, NoMatches
  <2>2. \A s \in Callers : ~On(req'[s], i)
    BY <2>1, RequestTypes DEF NoRequests, On
  <2>3. SyncedFor(IdleRequest, i)'
    BY <2>1, RequestTypes
    DEF SyncedFor, StatusSynced, MatchSynced, JournalSynced, Current, Where, SaveSteps,
        LoadSteps, Between
  <2>4. QED
    BY <2>2, <2>3 DEF SyncAt, On
<1>7. CASE UNCHANGED <<memory, tables, req>>
  <2>1. ASSUME NEW q, SyncedFor(q, i) PROVE SyncedFor(q, i)'
    BY <1>7, <2>1
    DEF SyncedFor, StatusSynced, MatchSynced, JournalSynced, Current, Where, NoneOf,
        memory, tables
  <2>2. QED
    BY <1>2, <1>7, <2>1 DEF SyncAt, On
<1>8. ErpServes \/ UNCHANGED vars => UNCHANGED <<memory, tables, req>>
  BY DEF ErpServes, vars
<1>9. QED
  BY <1>3, <1>4, <1>5, <1>6, <1>7, <1>8 DEF Next, HandlerStep

\* With keys of one's own, and unless requests overlapped or a write failed, an
\* invoice nobody works on is in memory what it is in the tables, whatever
\* processes died: a restart loses nothing and invents nothing
\* (repository.py:276-298, 316-326, 356-369, 493-507).
THEOREM CachesAreCurrent ==
    ASSUME PrivateKeys PROVE Spec => []CacheIsCurrent
<1>1. SyncInv => CacheIsCurrent
  <2> SUFFICES ASSUME SyncInv, NEW i \in Invoices, disturbed[i] \subseteq {"crash"},
                      ~Busy(i)
               PROVE  /\ cache[i] # "none" => object[i][cache[i]] = invoiceRow[i]
                      /\ matches[i] \in {{}, matchRow[i]}
                      /\ \A j \in journals : j.invoice = i => j \in journalRows
    BY DEF CacheIsCurrent
  <2>1. \A r \in Callers : ~On(req[r], i)
    BY DEF Busy, At, Inv, On
  <2>2. SyncedFor(IdleRequest, i)
    BY <2>1 DEF SyncInv, SyncAt
  <2>3. QED
    BY <2>2, RequestTypes
    DEF SyncedFor, StatusSynced, MatchSynced, JournalSynced, Current, SaveSteps
<1>2. Typed /\ KeyedInv /\ [Next]_vars => KeyedInv'
  BY KeyedStep
<1>3. Typed /\ AloneInv /\ KeyedInv /\ SyncInv /\ [Next]_vars => SyncInv'
  BY SyncStep
<1>4. QED
  BY TypedInit, TypedStep, AloneInit, AloneStep, KeyedInit, SyncInit, <1>1, <1>2, <1>3, PTL
  DEF Spec
=============================================================================
