---------------------------- MODULE ARDurableProofs ----------------------------
(***************************************************************************)
(* Theorems about ARDurable and its AuditLedger, for every number of       *)
(* remittances, references, threads, requests, restarts and failed writes: *)
(* what the audit ledger reports is true, reviews are in it, and a         *)
(* duplicate is found across restarts.                                     *)
(***************************************************************************)
EXTENDS ARDurable, SequenceTheorems, TLAPS

---------------------------------------------------------------------------
(* The chain.                                                              *)

\* Appending to a sequence leaves what it had, and puts the new element last.
LEMMA AppendedLast ==
    ASSUME NEW S, NEW s \in Seq(S), NEW e \in S
    PROVE  /\ Append(s, e) \in Seq(S)
           /\ Append(s, e) # <<>>
           /\ Len(Append(s, e)) = Len(s) + 1
           /\ Last(Append(s, e)) = e
           /\ \A n \in 1 .. Len(s) : Append(s, e)[n] = s[n]
           /\ Append(s, e)[Len(s) + 1] = e
BY AppendProperties DEF Last

\* The range of a sequence, and of one that has grown.
LEMMA AppendedRange ==
    ASSUME NEW S, NEW s \in Seq(S), NEW e \in S
    PROVE  /\ \A x \in Range(s) : x \in S
           /\ Range(Append(s, e)) = Range(s) \cup {e}
<1>1. \A x \in Range(s) : x \in S
  BY DEF Range
<1>2. /\ DOMAIN s = 1 .. Len(s)
      /\ DOMAIN Append(s, e) = 1 .. Len(s) + 1
  BY AppendProperties
<1>3. Len(s) \in Nat
  OBVIOUS
<1>4. \A x \in Range(s) : x \in Range(Append(s, e))
  BY <1>2, <1>3, AppendedLast DEF Range
<1>5. e \in Range(Append(s, e))
  BY <1>2, <1>3, AppendedLast DEF Range
<1>6. \A x \in Range(Append(s, e)) : x \in Range(s) \cup {e}
  BY <1>2, <1>3, AppendedLast DEF Range
<1>7. QED
  BY <1>1, <1>4, <1>5, <1>6

\* A chain to which an event is appended that links to its last one verifies if
\* and only if the chain did.
LEMMA VerifiesAppended ==
    ASSUME NEW s \in Seq(Event), NEW e \in Event, e.previous = LastId(s)
    PROVE  Verifies(Append(s, e)) <=> Verifies(s)
<1>1. /\ Len(s) \in Nat
      /\ Len(Append(s, e)) = Len(s) + 1
      /\ \A n \in 1 .. Len(s) : Append(s, e)[n] = s[n]
      /\ Append(s, e)[Len(s) + 1] = e
  BY AppendedLast
<1>2. e.previous = IF Len(s) + 1 = 1 THEN Genesis ELSE s[Len(s)].id
  BY <1>1, EmptySeq DEF LastId, Last
<1>3. ASSUME Verifies(s) PROVE Verifies(Append(s, e))
  BY <1>1, <1>2, <1>3 DEF Verifies
<1>4. ASSUME Verifies(Append(s, e)) PROVE Verifies(s)
  BY <1>1, <1>4 DEF Verifies
<1>5. QED
  BY <1>3, <1>4

---------------------------------------------------------------------------
(* Threads.                                                                *)

\* An idle thread is typed, and so is one in whose fields something is written.
LEMMA RequestTypes ==
    /\ IdleRequest \in Request
    /\ \A q \in Request :
         /\ \A pc \in Steps : [q EXCEPT !.pc = pc] \in Request
         /\ \A pc \in Steps : [q EXCEPT !.next = pc] \in Request
         /\ \A m \in Remittances \cup {"none"} : [q EXCEPT !.rem = m] \in Request
         /\ \A action \in Actions : [q EXCEPT !.action = action] \in Request
         /\ \A id \in Nat : [q EXCEPT !.event = id] \in Request
         /\ \A found \in BOOLEAN : [q EXCEPT !.duplicate = found] \in Request
         /\ \A raises \in BOOLEAN : [q EXCEPT !.raises = raises] \in Request
         /\ \A review \in Reviews : [q EXCEPT !.review = review] \in Request
<1>1. IdleRequest \in Request
  BY DurableConstants DEF IdleRequest, Request, Steps, Outcomes
<1>2. ASSUME NEW q \in Request PROVE
         /\ \A pc \in Steps : [q EXCEPT !.pc = pc] \in Request
         /\ \A pc \in Steps : [q EXCEPT !.next = pc] \in Request
  BY DEF Request
<1>3. ASSUME NEW q \in Request PROVE
         /\ \A m \in Remittances \cup {"none"} : [q EXCEPT !.rem = m] \in Request
         /\ \A action \in Actions : [q EXCEPT !.action = action] \in Request
  BY DEF Request
<1>4. ASSUME NEW q \in Request PROVE
         /\ \A id \in Nat : [q EXCEPT !.event = id] \in Request
         /\ \A found \in BOOLEAN : [q EXCEPT !.duplicate = found] \in Request
         /\ \A raises \in BOOLEAN : [q EXCEPT !.raises = raises] \in Request
  BY DEF Request
<1>5. ASSUME NEW q \in Request PROVE
         \A review \in Reviews : [q EXCEPT !.review = review] \in Request
  BY DEF Request
<1>6. QED
  BY <1>1, <1>2, <1>3, <1>4, <1>5

\* Where a thread goes when its run is over: to the caller, or to the event of
\* the review it was asked for.
LEMMA AfterRunMoves ==
    ASSUME NEW q \in Request
    PROVE  /\ AfterRun(q) \in Request
           /\ AfterRun(q).rem = q.rem
           /\ AfterRun(q).review = q.review
           /\ \/ AfterRun(q).pc = "answer" /\ q.review = "none"
              \/ /\ AfterRun(q).pc = "append" /\ q.review \in Reviews
                 /\ AfterRun(q).action = q.review
<1>1. CASE q.review = "none"
  <2>1. AfterRun(q) = [q EXCEPT !.pc = "answer"]
    BY <1>1 DEF AfterRun
  <2>2. AfterRun(q) \in Request
    BY <2>1, RequestTypes DEF Steps
  <2>3. QED
    BY <2>1, <2>2, <1>1 DEF Request
<1>2. CASE q.review # "none"
  <2>1. q.review \in Reviews
    BY <1>2 DEF Request
  <2>2. AfterRun(q) = [[q EXCEPT !.pc = "append"] EXCEPT !.action = q.review]
    BY <1>2 DEF AfterRun
  <2>3. AfterRun(q) \in Request
    <3>1. [q EXCEPT !.pc = "append"] \in Request
      BY RequestTypes DEF Steps
    <3>2. q.review \in Actions
      BY <2>1, DurableConstants
    <3>3. QED
      BY <2>2, <3>1, <3>2, RequestTypes
  <2>4. /\ AfterRun(q).rem = q.rem
        /\ AfterRun(q).review = q.review
        /\ AfterRun(q).pc = "append"
        /\ AfterRun(q).action = q.review
    BY <2>2 DEF Request
  <2>5. QED
    BY <2>1, <2>3, <2>4
<1>3. QED
  BY <1>1, <1>2
\* A step of thread r leaves the threads typed and the others alone.
OnlyMoves(r) ==
    /\ req' \in [Callers -> Request]
    /\ \A s \in Callers \ {r} : req'[s] = req[s]

\* It keeps what it has to do with, too.
StaysOn(r) ==
    /\ OnlyMoves(r)
    /\ req'[r].rem = Rem(r)
    /\ req'[r].review = req[r].review

\* A step that replaces the fields of thread r.
LEMMA Replaced ==
    ASSUME req \in [Callers -> Request], NEW r \in Callers, NEW q \in Request,
           req' = [req EXCEPT ![r] = q]
    PROVE  OnlyMoves(r) /\ req'[r] = q
BY DEF OnlyMoves

\* A thread that writes waits for its commit, and goes on as it was told to.
LEMMA WriteMoves ==
    ASSUME req \in [Callers -> Request], NEW r \in Callers,
           NEW m \in Remittances \cup {"none"}, NEW f, NEW q \in Request,
           Write(r, m, f, q)
    PROVE  /\ OnlyMoves(r)
           /\ req'[r].pc = "commit"
           /\ req'[r].rem = m
           /\ req'[r].next = q.next
           /\ req'[r].action = q.action
           /\ req'[r].review = q.review
<1> DEFINE w == [[q EXCEPT !.pc = "commit"] EXCEPT !.rem = m]
<1>1. [q EXCEPT !.pc = "commit"] \in Request
  BY RequestTypes DEF Steps
<1>2. w \in Request
  BY <1>1, RequestTypes
<1>3. /\ w.pc = "commit"
      /\ w.rem = m
      /\ w.next = q.next
      /\ w.action = q.action
      /\ w.review = q.review
  BY DEF Request
<1>4. req' = [req EXCEPT ![r] = w]
  BY DEF Write
<1> HIDE DEF w
<1>5. QED
  BY <1>2, <1>3, <1>4, Replaced

\* The steps of a thread that end its request.
LEMMA EndingMoves ==
    ASSUME req \in [Callers -> Request], NEW r \in Callers,
           \/ RunFails(r) \/ Answer(r)
           \/ \E written \in BOOLEAN : CommitFails(r, written) \/ StoreFails(r, written)
    PROVE  OnlyMoves(r) /\ req'[r] = IdleRequest /\ req'[r].pc = "idle"
<1>1. Finish(r)
  BY DEF RunFails, Answer, CommitFails, StoreFails
<1>2. IdleRequest \in Request /\ IdleRequest.pc = "idle"
  BY RequestTypes DEF IdleRequest
<1>3. QED
  BY <1>1, <1>2, Replaced DEF Finish

\* Where a thread goes after a commit, and with its event.
LEMMA SaveMoves ==
    ASSUME req \in [Callers -> Request], minted \in Nat, NEW r \in Callers
    PROVE  /\ Commit(r) => /\ StaysOn(r)
                           /\ req'[r].pc = req[r].next
                           /\ req'[r].action = req[r].action
           /\ Audit(r) => /\ StaysOn(r)
                          /\ req'[r].pc = "store"
                          /\ req'[r].action = req[r].action
                          /\ req'[r].event = minted + 1
           /\ Store(r) =>
                /\ OnlyMoves(r)
                /\ req'[r].pc # "idle" =>
                     req'[r].rem = Rem(r) /\ req'[r].review = req[r].review
                /\ \/ /\ req[r].action = "remittance_extracted"
                      /\ req'[r].pc = "search_memory"
                   \/ req[r].action = "ar_match_completed" /\ req'[r].pc = "route"
                   \/ /\ req[r].action \in {"cash_application_posted", "cash_application_blocked"}
                      /\ \/ req'[r].pc = "answer" /\ req'[r].review = "none"
                         \/ /\ req'[r].pc = "append"
                            /\ req'[r].review \in Reviews
                            /\ req'[r].action = req'[r].review
                   \/ req[r].raises /\ req'[r].pc = "idle"
                   \/ req[r].action \in Reviews /\ req'[r].pc = "answer"
<1> DEFINE q == req[r]
<1>1. q \in Request /\ q.next \in Steps
  BY DEF Request
<1>2. ASSUME Commit(r)
      PROVE  /\ StaysOn(r)
             /\ req'[r].pc = req[r].next
             /\ req'[r].action = req[r].action
  <2>1. [q EXCEPT !.pc = q.next] \in Request
    BY <1>1, RequestTypes
  <2>2. req' = [req EXCEPT ![r] = [q EXCEPT !.pc = q.next]]
    BY <1>2 DEF Commit, Goto
  <2>3. OnlyMoves(r) /\ req'[r] = [q EXCEPT !.pc = q.next]
    BY <2>1, <2>2, Replaced
  <2>4. QED
    BY <2>3, <1>1 DEF StaysOn, Rem, Request
<1>3. ASSUME Audit(r)
      PROVE  /\ StaysOn(r)
             /\ req'[r].pc = "store"
             /\ req'[r].action = req[r].action
             /\ req'[r].event = minted + 1
  <2> DEFINE w == [[q EXCEPT !.pc = "store"] EXCEPT !.event = minted + 1]
  <2>1. [q EXCEPT !.pc = "store"] \in Request
    BY <1>1, RequestTypes DEF Steps
  <2>2. w \in Request
    <3>1. minted + 1 \in Nat
      OBVIOUS
    <3>2. QED
      BY <2>1, <3>1, RequestTypes
  <2>3. req' = [req EXCEPT ![r] = w]
    BY <1>3 DEF Audit
  <2>4. OnlyMoves(r) /\ req'[r] = w
    BY <2>2, <2>3, Replaced
  <2>5. /\ w.pc = "store" /\ w.action = q.action /\ w.rem = q.rem
        /\ w.review = q.review /\ w.event = minted + 1
    <3>1. ASSUME NEW n \in Nat
          PROVE  /\ [[q EXCEPT !.pc = "store"] EXCEPT !.event = n].pc = "store"
                 /\ [[q EXCEPT !.pc = "store"] EXCEPT !.event = n].action = q.action
                 /\ [[q EXCEPT !.pc = "store"] EXCEPT !.event = n].rem = q.rem
                 /\ [[q EXCEPT !.pc = "store"] EXCEPT !.event = n].review = q.review
                 /\ [[q EXCEPT !.pc = "store"] EXCEPT !.event = n].event = n
      BY <1>1 DEF Request
    <3>2. QED
      BY <3>1
  <2> HIDE DEF w
  <2>6. QED
    BY <2>4, <2>5 DEF StaysOn, Rem
<1>4. ASSUME Store(r)
      PROVE  /\ OnlyMoves(r)
             /\ req'[r].pc # "idle" =>
                  req'[r].rem = Rem(r) /\ req'[r].review = req[r].review
             /\ \/ /\ req[r].action = "remittance_extracted"
                   /\ req'[r].pc = "search_memory"
                \/ req[r].action = "ar_match_completed" /\ req'[r].pc = "route"
                \/ /\ req[r].action \in {"cash_application_posted", "cash_application_blocked"}
                   /\ \/ req'[r].pc = "answer" /\ req'[r].review = "none"
                      \/ /\ req'[r].pc = "append"
                         /\ req'[r].review \in Reviews
                         /\ req'[r].action = req'[r].review
                \/ req[r].raises /\ req'[r].pc = "idle"
                \/ req[r].action \in Reviews /\ req'[r].pc = "answer"
  <2> DEFINE a == AfterEvent(q)
  <2>1. q.action \in Outcomes \cup Reviews
    BY <1>1, DurableConstants DEF Request
  <2>2. /\ a \in Request
        /\ a.pc # "idle" => a.rem = q.rem /\ a.review = q.review
        /\ \/ q.action = "remittance_extracted" /\ a.pc = "search_memory"
           \/ q.action = "ar_match_completed" /\ a.pc = "route"
           \/ /\ q.action \in {"cash_application_posted", "cash_application_blocked"}
              /\ \/ a.pc = "answer" /\ a.review = "none"
                 \/ /\ a.pc = "append"
                    /\ a.review \in Reviews
                    /\ a.action = a.review
           \/ q.raises /\ a.pc = "idle"
           \/ q.action \in Reviews /\ a.pc = "answer"
    <3>1. ASSUME NEW pc \in {"search_memory", "route", "answer"}
          PROVE  /\ [q EXCEPT !.pc = pc] \in Request
                 /\ [q EXCEPT !.pc = pc].pc = pc
                 /\ [q EXCEPT !.pc = pc].rem = q.rem
                 /\ [q EXCEPT !.pc = pc].review = q.review
      <4>1. pc \in Steps
        BY <3>1 DEF Steps
      <4>2. [q EXCEPT !.pc = pc] \in Request
        BY <1>1, <4>1, RequestTypes
      <4>3. QED
        BY <1>1, <4>2 DEF Request
    <3>2. IdleRequest \in Request /\ IdleRequest.pc = "idle"
      BY RequestTypes DEF IdleRequest
    <3>3. CASE q.raises
      <4>1. a = IdleRequest
        BY <3>3 DEF AfterEvent
      <4>2. QED
        BY <4>1, <3>2, <3>3
    <3>4. CASE ~q.raises /\ q.action = "remittance_extracted"
      <4>1. a = [q EXCEPT !.pc = "search_memory"]
        BY <3>4 DEF AfterEvent, Outcomes, Reviews
      <4>2. QED
        BY <4>1, <3>1, <3>4
    <3>5. CASE ~q.raises /\ q.action = "ar_match_completed"
      <4>1. a = [q EXCEPT !.pc = "route"]
        BY <3>5 DEF AfterEvent, Outcomes, Reviews
      <4>2. QED
        BY <4>1, <3>1, <3>5
    <3>6. CASE /\ ~q.raises
               /\ q.action \in {"cash_application_posted", "cash_application_blocked"}
      <4>1. a = AfterRun(q)
        BY <3>6 DEF AfterEvent, Outcomes, Reviews
      <4>2. QED
        BY <4>1, <3>6, <1>1, AfterRunMoves
    <3>7. CASE ~q.raises /\ q.action \in Reviews
      <4>1. a = [q EXCEPT !.pc = "answer"]
        BY <3>7 DEF AfterEvent, Outcomes, Reviews
      <4>2. QED
        BY <4>1, <3>1, <3>7
    <3>8. QED
      BY <2>1, <3>3, <3>4, <3>5, <3>6, <3>7 DEF Outcomes
  <2>3. req' = [req EXCEPT ![r] = [a EXCEPT !.event = 0]]
    BY <1>4 DEF Store
  <2> HIDE DEF a
  <2> DEFINE w == [a EXCEPT !.event = 0]
  <2>4. w \in Request
    BY <2>2, RequestTypes
  <2>5. w.pc = a.pc /\ w.rem = a.rem /\ w.review = a.review /\ w.action = a.action
    BY <2>2 DEF Request
  <2>6. OnlyMoves(r) /\ req'[r] = w
    BY <2>3, <2>4, Replaced
  <2> HIDE DEF w
  <2>7. QED
    BY <2>2, <2>5, <2>6 DEF Rem
<1>5. QED
  BY <1>2, <1>3, <1>4
\* Where a thread goes in a run.
LEMMA RunMoves ==
    ASSUME req \in [Callers -> Request], NEW r \in Callers
    PROVE  /\ SearchMemory(r) => /\ StaysOn(r)
                                 /\ req'[r].pc \in {"save_match", "search_table"}
           /\ SearchTable(r) => StaysOn(r) /\ req'[r].pc = "save_match"
           /\ \A suits \in BOOLEAN : SaveMatch(r, suits) =>
                /\ StaysOn(r)
                /\ req'[r].pc = "commit" /\ req'[r].next = "append"
                /\ req'[r].action = "ar_match_completed"
           /\ RouteToApply(r) => StaysOn(r) /\ req'[r].pc = "apply"
           /\ RouteToReview(r) =>
                /\ StaysOn(r)
                /\ req'[r].pc = "commit"
                /\ \/ req'[r].next = "answer" /\ req'[r].review = "none"
                   \/ /\ req'[r].next = "append" /\ req'[r].review \in Reviews
                      /\ req'[r].action = req'[r].review
           /\ RouteNowhere(r) =>
                /\ StaysOn(r)
                /\ \/ req'[r].pc = "answer" /\ req'[r].review = "none"
                   \/ /\ req'[r].pc = "append" /\ req'[r].review \in Reviews
                      /\ req'[r].action = req'[r].review
           /\ Apply(r) => /\ StaysOn(r)
                          /\ req'[r].pc = "commit" /\ req'[r].next = "append"
                          /\ req'[r].action = "cash_application_posted"
           /\ ApplyRefused(r) => /\ StaysOn(r)
                                 /\ req'[r].pc = "commit" /\ req'[r].next = "append"
                                 /\ req'[r].action = "cash_application_blocked"
           /\ ApplyFails(r) => /\ StaysOn(r)
                               /\ req'[r].pc = "append"
                               /\ req'[r].action = "cash_application_blocked"
<1> DEFINE q == req[r]
<1>1. q \in Request /\ q.rem \in Remittances \cup {"none"}
  BY DEF Request
<1>2. ASSUME NEW pc \in Steps, req' = [req EXCEPT ![r] = [q EXCEPT !.pc = pc]]
      PROVE  StaysOn(r) /\ req'[r].pc = pc
  <2>1. [q EXCEPT !.pc = pc] \in Request
    BY <1>1, RequestTypes
  <2>2. OnlyMoves(r) /\ req'[r] = [q EXCEPT !.pc = pc]
    BY <1>2, <2>1, Replaced
  <2>3. QED
    BY <2>2, <1>1 DEF StaysOn, Rem, Request
<1>3. ASSUME NEW found \in BOOLEAN,
             req' = [req EXCEPT ![r].pc = "save_match", ![r].duplicate = found]
      PROVE  StaysOn(r) /\ req'[r].pc = "save_match"
  <2> DEFINE w == [[q EXCEPT !.pc = "save_match"] EXCEPT !.duplicate = found]
  <2>1. [q EXCEPT !.pc = "save_match"] \in Request
    BY <1>1, RequestTypes DEF Steps
  <2>2. w \in Request
    BY <2>1, RequestTypes
  <2>3. req' = [req EXCEPT ![r] = w]
    BY <1>3
  <2>4. w.pc = "save_match" /\ w.rem = q.rem /\ w.review = q.review
    BY <1>1 DEF Request
  <2>5. OnlyMoves(r) /\ req'[r] = w
    BY <2>2, <2>3, Replaced
  <2> HIDE DEF w
  <2>6. QED
    BY <2>4, <2>5 DEF StaysOn, Rem
<1>4. ASSUME NEW found \in BOOLEAN, Judge(r, found)
      PROVE  StaysOn(r) /\ req'[r].pc = "save_match"
  BY <1>3, <1>4 DEF Judge
  \* A write of what the thread works on.
<1>5. ASSUME NEW f, NEW p \in Request, p.review = q.review, Write(r, q.rem, f, p)
      PROVE  /\ StaysOn(r)
             /\ req'[r].pc = "commit"
             /\ req'[r].next = p.next
             /\ req'[r].action = p.action
  BY <1>1, <1>5, WriteMoves DEF StaysOn, Rem
<1>6. ASSUME NEW action \in Actions
      PROVE  /\ [[q EXCEPT !.next = "append"] EXCEPT !.action = action] \in Request
             /\ [[q EXCEPT !.next = "append"] EXCEPT !.action = action].review = q.review
             /\ [[q EXCEPT !.next = "append"] EXCEPT !.action = action].next = "append"
             /\ [[q EXCEPT !.next = "append"] EXCEPT !.action = action].action = action
  <2>1. [q EXCEPT !.next = "append"] \in Request
    BY <1>1, RequestTypes DEF Steps
  <2>2. [[q EXCEPT !.next = "append"] EXCEPT !.action = action] \in Request
    BY <2>1, RequestTypes
  <2>3. QED
    BY <2>2, <1>1 DEF Request
<1>7. {"ar_match_completed", "cash_application_posted", "cash_application_blocked"}
        \subseteq Actions
  BY DurableConstants DEF Outcomes
<1>8. ASSUME SearchMemory(r)
      PROVE  StaysOn(r) /\ req'[r].pc \in {"save_match", "search_table"}
  <2>1. CASE InMemory(Rem(r))
    BY <1>4, <1>8, <2>1 DEF SearchMemory
  <2>2. CASE ~InMemory(Rem(r))
    <3>1. req' = [req EXCEPT ![r] = [q EXCEPT !.pc = "search_table"]]
      BY <1>8, <2>2 DEF SearchMemory, Goto
    <3>2. QED
      BY <3>1, <1>2 DEF Steps
  <2>3. QED
    BY <2>1, <2>2
<1>9. ASSUME SearchTable(r) PROVE StaysOn(r) /\ req'[r].pc = "save_match"
  BY <1>4, <1>9 DEF SearchTable
<1>10. ASSUME NEW suits \in BOOLEAN, SaveMatch(r, suits)
       PROVE  /\ StaysOn(r)
              /\ req'[r].pc = "commit" /\ req'[r].next = "append"
              /\ req'[r].action = "ar_match_completed"
  <2> DEFINE p == [[q EXCEPT !.next = "append"] EXCEPT !.action = "ar_match_completed"]
             w == [p EXCEPT !.duplicate = FALSE]
  <2>1. /\ p \in Request /\ p.review = q.review /\ p.next = "append"
        /\ p.action = "ar_match_completed"
    BY <1>6, <1>7
  <2>2. PICK f : Write(r, q.rem, f, w)
    BY <1>10 DEF SaveMatch, Rem
  <2> HIDE DEF p
  <2>3. w \in Request
    BY <2>1, RequestTypes
  <2>4. w.review = p.review /\ w.next = p.next /\ w.action = p.action
    BY <2>1 DEF Request
  <2> HIDE DEF w
  <2>5. QED
    BY <2>1, <2>2, <2>3, <2>4, <1>5
<1>11. ASSUME RouteToApply(r) PROVE StaysOn(r) /\ req'[r].pc = "apply"
  <2>1. req' = [req EXCEPT ![r] = [q EXCEPT !.pc = "apply"]]
    BY <1>11 DEF RouteToApply, Goto
  <2>2. QED
    BY <2>1, <1>2 DEF Steps
<1>12. ASSUME RouteToReview(r)
       PROVE  /\ StaysOn(r)
              /\ req'[r].pc = "commit"
              /\ \/ req'[r].next = "answer" /\ req'[r].review = "none"
                 \/ /\ req'[r].next = "append" /\ req'[r].review \in Reviews
                    /\ req'[r].action = req'[r].review
  <2> DEFINE then == AfterRun(q)
             w == [then EXCEPT !.next = then.pc]
  <2>1. /\ then \in Request /\ then.review = q.review
        /\ \/ then.pc = "answer" /\ q.review = "none"
           \/ then.pc = "append" /\ q.review \in Reviews /\ then.action = q.review
    BY <1>1, AfterRunMoves
  <2>2. PICK f : Write(r, q.rem, f, w)
    BY <1>12 DEF RouteToReview, Rem
  <2> HIDE DEF then
  <2>3. then.pc \in Steps
    BY <2>1 DEF Steps
  <2>4. w \in Request
    BY <2>1, <2>3, RequestTypes
  <2>5. w.review = then.review /\ w.next = then.pc /\ w.action = then.action
    BY <2>1 DEF Request
  <2> HIDE DEF w
  <2>6. /\ StaysOn(r)
        /\ req'[r].pc = "commit"
        /\ req'[r].next = then.pc
        /\ req'[r].action = then.action
    BY <2>1, <2>2, <2>4, <2>5, <1>5
  <2>7. QED
    BY <2>1, <2>6 DEF StaysOn
<1>13. ASSUME RouteNowhere(r)
       PROVE  /\ StaysOn(r)
              /\ \/ req'[r].pc = "answer" /\ req'[r].review = "none"
                 \/ /\ req'[r].pc = "append" /\ req'[r].review \in Reviews
                    /\ req'[r].action = req'[r].review
  <2>1. req' = [req EXCEPT ![r] = AfterRun(q)]
    BY <1>13 DEF RouteNowhere
  <2>2. OnlyMoves(r) /\ req'[r] = AfterRun(q)
    BY <2>1, <1>1, AfterRunMoves, Replaced
  <2>3. QED
    BY <2>2, <1>1, AfterRunMoves DEF StaysOn, Rem
<1>14. ASSUME Apply(r)
       PROVE  /\ StaysOn(r)
              /\ req'[r].pc = "commit" /\ req'[r].next = "append"
              /\ req'[r].action = "cash_application_posted"
  <2> DEFINE p == [[q EXCEPT !.next = "append"] EXCEPT !.action = "cash_application_posted"]
  <2>1. PICK f : Write(r, q.rem, f, p)
    BY <1>14 DEF Apply, Rem
  <2>2. /\ p \in Request /\ p.review = q.review /\ p.next = "append"
        /\ p.action = "cash_application_posted"
    BY <1>6, <1>7
  <2> HIDE DEF p
  <2>3. QED
    BY <2>1, <2>2, <1>5
<1>15. ASSUME ApplyRefused(r)
       PROVE  /\ StaysOn(r)
              /\ req'[r].pc = "commit" /\ req'[r].next = "append"
              /\ req'[r].action = "cash_application_blocked"
  <2> DEFINE p == [[q EXCEPT !.next = "append"] EXCEPT !.action = "cash_application_blocked"]
  <2>1. PICK f : Write(r, q.rem, f, p)
    BY <1>15 DEF ApplyRefused, Rem
  <2>2. /\ p \in Request /\ p.review = q.review /\ p.next = "append"
        /\ p.action = "cash_application_blocked"
    BY <1>6, <1>7
  <2> HIDE DEF p
  <2>3. QED
    BY <2>1, <2>2, <1>5
<1>16. ASSUME ApplyFails(r)
       PROVE  /\ StaysOn(r)
              /\ req'[r].pc = "append"
              /\ req'[r].action = "cash_application_blocked"
  <2> DEFINE v == [[q EXCEPT !.pc = "append"] EXCEPT !.raises = TRUE]
             w == [v EXCEPT !.action = "cash_application_blocked"]
  <2>1. [q EXCEPT !.pc = "append"] \in Request
    BY <1>1, RequestTypes DEF Steps
  <2>2. v \in Request
    BY <2>1, RequestTypes
  <2>3. w \in Request
    BY <2>2, <1>7, RequestTypes
  <2>4. req' = [req EXCEPT ![r] = w]
    BY <1>16 DEF ApplyFails
  <2>5. /\ w.pc = "append" /\ w.rem = q.rem /\ w.review = q.review
        /\ w.action = "cash_application_blocked"
    BY <1>1 DEF Request
  <2>6. OnlyMoves(r) /\ req'[r] = w
    BY <2>3, <2>4, Replaced
  <2> HIDE DEF w
  <2>7. QED
    BY <2>5, <2>6 DEF StaysOn, Rem
<1>17. QED
  BY <1>8, <1>9, <1>10, <1>11, <1>12, <1>13, <1>14, <1>15, <1>16

\* Where a new request starts.
LEMMA NewMoves ==
    ASSUME req \in [Callers -> Request], NEW r \in Callers, NEW m \in Remittances
    PROVE  /\ \A x \in References : Ingest(r, m, x) =>
                /\ OnlyMoves(r) /\ req'[r].rem = m /\ req'[r].review = "none"
                /\ req'[r].pc = "commit" /\ req'[r].next = "append"
                /\ req'[r].action = "remittance_extracted"
           /\ \A status \in Status, review \in Reviews : Close(r, m, status, review) =>
                /\ OnlyMoves(r) /\ req'[r].rem = m /\ req'[r].review = review
                /\ req'[r].pc = "commit" /\ req'[r].next = "append"
                /\ req'[r].action = review
           /\ \A x \in References : Correct(r, m, x) =>
                /\ OnlyMoves(r) /\ req'[r].rem = m
                /\ req'[r].pc = "commit" /\ req'[r].next = "search_memory"
           /\ Approve(r, m) =>
                /\ OnlyMoves(r) /\ req'[r].rem = m /\ req'[r].pc = "apply"
<1>1. /\ IdleRequest \in Request
      /\ IdleRequest.action = "remittance_extracted" /\ IdleRequest.review = "none"
  BY RequestTypes DEF IdleRequest
<1>2. ASSUME NEW x \in References, Ingest(r, m, x)
      PROVE  /\ OnlyMoves(r) /\ req'[r].rem = m /\ req'[r].review = "none"
             /\ req'[r].pc = "commit" /\ req'[r].next = "append"
             /\ req'[r].action = "remittance_extracted"
  <2> DEFINE p == [IdleRequest EXCEPT !.next = "append"]
  <2>1. PICK f : Write(r, m, f, p)
    BY <1>2 DEF Ingest
  <2>2. p \in Request
    BY <1>1, RequestTypes DEF Steps
  <2>3. p.next = "append" /\ p.action = "remittance_extracted" /\ p.review = "none"
    BY DEF IdleRequest
  <2> HIDE DEF p
  <2>4. QED
    BY <2>1, <2>2, <2>3, WriteMoves
<1>3. ASSUME NEW status \in Status, NEW review \in Reviews, Close(r, m, status, review)
      PROVE  /\ OnlyMoves(r) /\ req'[r].rem = m /\ req'[r].review = review
             /\ req'[r].pc = "commit" /\ req'[r].next = "append"
             /\ req'[r].action = review
  <2> DEFINE p == [[[IdleRequest EXCEPT !.next = "append"] EXCEPT !.action = review]
                    EXCEPT !.review = review]
  <2>1. PICK f : Write(r, m, f, p)
    BY <1>3 DEF Close
  <2>2. p \in Request
    <3>1. [IdleRequest EXCEPT !.next = "append"] \in Request
      BY <1>1, RequestTypes DEF Steps
    <3>2. review \in Actions
      BY DurableConstants
    <3>3. [[IdleRequest EXCEPT !.next = "append"] EXCEPT !.action = review] \in Request
      BY <3>1, <3>2, RequestTypes
    <3>4. QED
      BY <3>3, RequestTypes
  <2>3. p.next = "append" /\ p.action = review /\ p.review = review
    BY DEF IdleRequest
  <2> HIDE DEF p
  <2>4. QED
    BY <2>1, <2>2, <2>3, WriteMoves
<1>4. ASSUME NEW x \in References, Correct(r, m, x)
      PROVE  /\ OnlyMoves(r) /\ req'[r].rem = m
             /\ req'[r].pc = "commit" /\ req'[r].next = "search_memory"
  <2> DEFINE p == [[IdleRequest EXCEPT !.next = "search_memory"]
                    EXCEPT !.review = "human_retry_with_correction"]
  <2>1. PICK f : Write(r, m, f, p)
    BY <1>4 DEF Correct
  <2>2. p \in Request
    <3>1. [IdleRequest EXCEPT !.next = "search_memory"] \in Request
      BY <1>1, RequestTypes DEF Steps
    <3>2. QED
      BY <3>1, RequestTypes DEF Reviews
  <2>3. p.next = "search_memory"
    BY DEF IdleRequest
  <2> HIDE DEF p
  <2>4. QED
    BY <2>1, <2>2, <2>3, WriteMoves
<1>5. ASSUME Approve(r, m) PROVE OnlyMoves(r) /\ req'[r].rem = m /\ req'[r].pc = "apply"
  <2> DEFINE p == [[[IdleRequest EXCEPT !.pc = "apply"] EXCEPT !.rem = m]
                    EXCEPT !.review = "human_approve_apply"]
  <2>1. req' = [req EXCEPT ![r] = p]
    BY <1>5 DEF Approve
  <2>2. p \in Request
    <3>1. [IdleRequest EXCEPT !.pc = "apply"] \in Request
      BY <1>1, RequestTypes DEF Steps
    <3>2. [[IdleRequest EXCEPT !.pc = "apply"] EXCEPT !.rem = m] \in Request
      BY <3>1, RequestTypes
    <3>3. QED
      BY <3>2, RequestTypes DEF Reviews
  <2>3. p.pc = "apply" /\ p.rem = m
    BY DEF IdleRequest
  <2> HIDE DEF p
  <2>4. QED
    BY <2>1, <2>2, <2>3, Replaced
<1>6. QED
  BY <1>2, <1>3, <1>4, <1>5
---------------------------------------------------------------------------
(* What is written.                                                        *)

\* The fields of a remittance that is known are typed; Fields takes those in
\* memory first.
LEMMA FieldsAreKnown ==
    ASSUME memory \in [Remittances -> SUBSET Remittance],
           payload \in [Remittances -> SUBSET Remittance],
           NEW m \in Remittances
    PROVE  /\ Known(m) \in SUBSET Remittance
           /\ Known(m) # {} => Fields(m) \in Known(m) /\ Fields(m) \in Remittance
           /\ memory[m] # {} => Known(m) = memory[m] /\ Fields(m) \in memory[m]
           /\ memory[m] = {} => Known(m) = payload[m]
BY DEF Known, Fields

\* What a step leaves in memory: what was there, or one record of the remittance
\* it works on.
Saves(m, status, reference) ==
    \E f \in Remittance :
        /\ memory' = [memory EXCEPT ![m] = {f}]
        /\ f.status = status
        /\ f.reference = reference
        /\ UNCHANGED tables

\* What the steps of a run save: a new status, and the same reference.
LEMMA RunWrites ==
    ASSUME memory \in [Remittances -> SUBSET Remittance],
           payload \in [Remittances -> SUBSET Remittance],
           req \in [Callers -> Request],
           NEW r \in Callers, Rem(r) \in Remittances, memory[Rem(r)] # {}
    PROVE  /\ \A suits \in BOOLEAN : SaveMatch(r, suits) =>
                \/ Saves(Rem(r), "MATCHED", Fields(Rem(r)).reference)
                \/ Saves(Rem(r), "EXCEPTION", Fields(Rem(r)).reference)
           /\ RouteToReview(r) =>
                Saves(Rem(r), "AWAITING_APPROVAL", Fields(Rem(r)).reference)
           /\ Apply(r) => Saves(Rem(r), "POSTED", Fields(Rem(r)).reference)
           /\ ApplyRefused(r) => Saves(Rem(r), "EXCEPTION", Fields(Rem(r)).reference)
<1> DEFINE g == Fields(Rem(r))
<1>1. g \in Remittance
  BY FieldsAreKnown
<1> HIDE DEF g
<1>2. ASSUME NEW status \in Status, NEW matched \in BOOLEAN
      PROVE  /\ [g EXCEPT !.matched = matched, !.status = status] \in Remittance
             /\ [g EXCEPT !.matched = matched, !.status = status].status = status
             /\ [g EXCEPT !.matched = matched, !.status = status].reference = g.reference
             /\ [g EXCEPT !.status = status] \in Remittance
             /\ [g EXCEPT !.status = status].status = status
             /\ [g EXCEPT !.status = status].reference = g.reference
  BY <1>1 DEF Remittance
<1>3. ASSUME NEW suits \in BOOLEAN, SaveMatch(r, suits)
      PROVE  \/ Saves(Rem(r), "MATCHED", g.reference)
             \/ Saves(Rem(r), "EXCEPTION", g.reference)
  <2>1. PICK b \in BOOLEAN :
          /\ memory' = [memory EXCEPT ![Rem(r)] =
                          {[g EXCEPT !.matched = b,
                                     !.status = IF b THEN "MATCHED" ELSE "EXCEPTION"]}]
          /\ UNCHANGED tables
    BY <1>3 DEF SaveMatch, Write, g
  <2>2. CASE b = TRUE
    BY <1>2, <2>1, <2>2 DEF Saves, Status
  <2>3. CASE b = FALSE
    BY <1>2, <2>1, <2>3 DEF Saves, Status
  <2>4. QED
    BY <2>2, <2>3
<1>4. ASSUME RouteToReview(r) PROVE Saves(Rem(r), "AWAITING_APPROVAL", g.reference)
  <2>1. /\ memory' = [memory EXCEPT ![Rem(r)] =
                        {[g EXCEPT !.status = "AWAITING_APPROVAL"]}]
        /\ UNCHANGED tables
    BY <1>4 DEF RouteToReview, Write, g
  <2>2. QED
    BY <1>2, <2>1 DEF Saves, Status
<1>5. ASSUME Apply(r) PROVE Saves(Rem(r), "POSTED", g.reference)
  <2>1. /\ memory' = [memory EXCEPT ![Rem(r)] = {[g EXCEPT !.status = "POSTED"]}]
        /\ UNCHANGED tables
    BY <1>5 DEF Apply, Write, g
  <2>2. QED
    BY <1>2, <2>1 DEF Saves, Status
<1>6. ASSUME ApplyRefused(r) PROVE Saves(Rem(r), "EXCEPTION", g.reference)
  <2>1. /\ memory' = [memory EXCEPT ![Rem(r)] = {[g EXCEPT !.status = "EXCEPTION"]}]
        /\ UNCHANGED tables
    BY <1>6 DEF ApplyRefused, Write, g
  <2>2. QED
    BY <1>2, <2>1 DEF Saves, Status
<1>7. QED
  BY <1>3, <1>4, <1>5, <1>6 DEF g

\* What a new request saves: the remittance it ingests or corrects, or the status
\* that closes it.
LEMMA NewWrites ==
    ASSUME memory \in [Remittances -> SUBSET Remittance],
           payload \in [Remittances -> SUBSET Remittance],
           NEW r \in Callers, NEW m \in Remittances
    PROVE  /\ \A x \in References : Ingest(r, m, x) => Saves(m, "EXTRACTED", x)
           /\ \A x \in References : Correct(r, m, x) => Saves(m, "EXTRACTED", x)
           /\ \A status \in Status, review \in Reviews :
                Close(r, m, status, review) => Saves(m, status, Fields(m).reference)
<1> DEFINE g == Fields(m)
<1>1. ASSUME NEW x \in References, Ingest(r, m, x) \/ Correct(r, m, x)
      PROVE  Saves(m, "EXTRACTED", x)
  <2> DEFINE f == [status |-> "EXTRACTED", reference |-> x, matched |-> FALSE]
  <2>1. memory' = [memory EXCEPT ![m] = {f}] /\ UNCHANGED tables
    BY <1>1 DEF Ingest, Correct, Write
  <2>2. f \in Remittance /\ f.status = "EXTRACTED" /\ f.reference = x
    BY DEF Remittance, Status
  <2> HIDE DEF f
  <2>3. QED
    BY <2>1, <2>2 DEF Saves
<1>2. ASSUME NEW status \in Status, NEW review \in Reviews, Close(r, m, status, review)
      PROVE  Saves(m, status, g.reference)
  <2> DEFINE f == [g EXCEPT !.status = status]
  <2>1. Known(m) # {} /\ memory' = [memory EXCEPT ![m] = {f}] /\ UNCHANGED tables
    BY <1>2 DEF Close, Review, Write
  <2>2. g \in Remittance
    BY <2>1, FieldsAreKnown
  <2> HIDE DEF g
  <2>3. f \in Remittance /\ f.status = status /\ f.reference = g.reference
    BY <2>2 DEF Remittance
  <2> HIDE DEF f
  <2>4. QED
    BY <2>1, <2>3 DEF Saves
<1>3. QED
  BY <1>1, <1>2
---------------------------------------------------------------------------
(* Threads are at a step they can take.                                    *)

\* Where a thread stands, or will stand after its commit.
Position(r) == IF At(r, "commit") THEN req[r].next ELSE req[r].pc

\* A busy thread works on a cached remittance; the event it appends for a
\* reviewer is that of the review.
ThreadInv ==
    \A r \in Callers :
        /\ ~At(r, "idle") => Rem(r) \in Remittances /\ memory[Rem(r)] # {}
        /\ At(r, "commit") => req[r].next \in {"append", "search_memory", "answer"}
        /\ Position(r) \in {"append", "store"} /\ req[r].action \in Reviews =>
              req[r].action = req[r].review
        /\ At(r, "commit") /\ req[r].next = "answer" => req[r].review = "none"

\* The state of the remittances is typed.
StateTyped ==
    /\ memory \in [Remittances -> SUBSET Remittance]
    /\ payload \in [Remittances -> SUBSET Remittance]
    /\ column \in [Remittances -> SUBSET References]
    /\ req \in [Callers -> Request]

\* A step that saves a remittance keeps what is cached.
LEMMA SavesKeep ==
    ASSUME memory \in [Remittances -> SUBSET Remittance],
           NEW m \in Remittances, NEW status, NEW reference, Saves(m, status, reference)
    PROVE  /\ memory' \in [Remittances -> SUBSET Remittance]
           /\ memory'[m] # {}
           /\ \A n \in Remittances : memory[n] # {} => memory'[n] # {}
           /\ \A n \in Remittances \ {m} : memory'[n] = memory[n]
BY DEF Saves

\* A thread's step leaves memory typed and empties no entry.
LEMMA MemoryKept ==
    ASSUME StateTyped, ThreadInv, NEW r \in Callers, RunStep(r) \/ Failure(r)
    PROVE  /\ memory' \in [Remittances -> SUBSET Remittance]
           /\ \A n \in Remittances : memory[n] # {} => memory'[n] # {}
           /\ \A n \in Remittances : memory'[n] # memory[n] =>
                n = Rem(r) \/ (memory[n] = {} /\ memory'[n] = payload[n])
           /\ req[r].pc # "idle"
<1> USE DEF StateTyped
<1>1. CASE UNCHANGED memory /\ req[r].pc # "idle"
  BY <1>1
<1>2. CASE (\E suits \in BOOLEAN : SaveMatch(r, suits)) \/ RouteToReview(r) \/ Apply(r)
            \/ ApplyRefused(r)
  <2>1. req[r].pc # "idle"
    BY <1>2 DEF SaveMatch, RouteToReview, Apply, ApplyRefused, At
  <2>2. Rem(r) \in Remittances /\ memory[Rem(r)] # {}
    BY <2>1 DEF ThreadInv, At
  <2>3. \E status, reference : Saves(Rem(r), status, reference)
    BY <1>2, <2>2, RunWrites
  <2>4. QED
    BY <2>1, <2>2, <2>3, SavesKeep
<1>3. CASE SearchTable(r)
  <2>1. ASSUME NEW n \in Remittances, memory' = [memory EXCEPT ![n] = Known(n)]
        PROVE  /\ memory' \in [Remittances -> SUBSET Remittance]
               /\ \A k \in Remittances : memory[k] # {} => memory'[k] # {}
               /\ \A k \in Remittances : memory'[k] # memory[k] =>
                    memory[k] = {} /\ memory'[k] = payload[k]
    BY <2>1 DEF Known
  <2>2. \/ UNCHANGED memory
        \/ \E n \in Remittances : memory' = [memory EXCEPT ![n] = Known(n)]
    BY <1>3 DEF SearchTable, InTable
  <2>3. req[r].pc # "idle"
    BY <1>3 DEF SearchTable, At
  <2>4. QED
    BY <2>1, <2>2, <2>3
<1>4. \/ UNCHANGED memory /\ req[r].pc # "idle"
      \/ (\E suits \in BOOLEAN : SaveMatch(r, suits)) \/ RouteToReview(r) \/ Apply(r)
         \/ ApplyRefused(r)
      \/ SearchTable(r)
  <2>1. ASSUME Commit(r) \/ Audit(r) \/ Store(r) \/ SearchMemory(r) \/ RouteToApply(r)
                 \/ RouteNowhere(r) \/ ApplyFails(r) \/ RunFails(r) \/ Answer(r)
        PROVE  UNCHANGED memory /\ req[r].pc # "idle"
    BY <2>1 DEF Commit, Audit, Store, SearchMemory, RouteToApply, RouteNowhere,
                ApplyFails, RunFails, Answer, At
  <2>2. ASSUME Failure(r) PROVE UNCHANGED memory /\ req[r].pc # "idle"
    BY <2>2 DEF Failure, CommitFails, StoreFails, At
  <2>3. QED
    BY <2>1, <2>2 DEF RunStep
<1>5. QED
  BY <1>1, <1>2, <1>3, <1>4

\* So does a new request, which starts on an idle thread and caches what it is
\* about.
LEMMA MemoryTaken ==
    ASSUME StateTyped, NEW r \in Callers, NEW m \in Remittances,
           ReviewStep(r, m) \/ \E x \in References : Ingest(r, m, x)
    PROVE  /\ memory' \in [Remittances -> SUBSET Remittance]
           /\ \A n \in Remittances : memory[n] # {} => memory'[n] # {}
           /\ \A n \in Remittances \ {m} : memory'[n] = memory[n]
           /\ memory'[m] # {}
           /\ UNCHANGED tables
           /\ req[r].pc = "idle"
<1> USE DEF StateTyped
<1>1. req[r].pc = "idle"
  BY DEF ReviewStep, Ingest, Close, Correct, Approve, Review, NewRequest, At
<1>2. ASSUME \E status, reference : Saves(m, status, reference)
      PROVE  /\ memory' \in [Remittances -> SUBSET Remittance]
             /\ \A n \in Remittances : memory[n] # {} => memory'[n] # {}
             /\ \A n \in Remittances \ {m} : memory'[n] = memory[n]
             /\ memory'[m] # {}
             /\ UNCHANGED tables
  BY <1>2, SavesKeep DEF Saves
<1>3. CASE \E x \in References : Ingest(r, m, x) \/ Correct(r, m, x)
  BY <1>1, <1>2, <1>3, NewWrites
<1>4. CASE \/ Close(r, m, "REJECTED", "human_reject")
           \/ Close(r, m, "RESOLVED", "human_mark_manually_resolved")
  BY <1>1, <1>2, <1>4, NewWrites DEF Status, Reviews
<1>5. CASE Approve(r, m)
  <2>1. /\ memory' = [memory EXCEPT ![m] = Known(m)]
        /\ Known(m) # {}
        /\ UNCHANGED tables
    BY <1>5 DEF Approve, Review
  <2>2. QED
    BY <1>1, <2>1, FieldsAreKnown
<1>6. QED
  BY <1>3, <1>4, <1>5 DEF ReviewStep

LEMMA ThreadStep == StateTyped /\ minted \in Nat /\ ThreadInv /\ [Next]_vars => ThreadInv'
<1> SUFFICES ASSUME StateTyped, minted \in Nat, ThreadInv, [Next]_vars PROVE ThreadInv'
  OBVIOUS
<1> DEFINE Good(s) ==
      /\ req'[s].pc # "idle" => req'[s].rem \in Remittances /\ memory'[req'[s].rem] # {}
      /\ req'[s].pc = "commit" => req'[s].next \in {"append", "search_memory", "answer"}
      /\ /\ \/ req'[s].pc = "commit" /\ req'[s].next \in {"append", "store"}
            \/ req'[s].pc \in {"append", "store"}
         /\ req'[s].action \in Reviews
         => req'[s].action = req'[s].review
      /\ req'[s].pc = "commit" /\ req'[s].next = "answer" => req'[s].review = "none"
<1>1. ASSUME \A s \in Callers : Good(s) PROVE ThreadInv'
  BY <1>1 DEF ThreadInv, Position, At, Rem
<1>2. ASSUME NEW s \in Callers, req'[s] = req[s],
             \A n \in Remittances : memory[n] # {} => memory'[n] # {}
      PROVE  Good(s)
  BY <1>2 DEF ThreadInv, Position, At, Rem
<1>3. \A action \in Outcomes : action \notin Reviews
  BY DEF Outcomes, Reviews
<1>4. ASSUME NEW r \in Callers, RunStep(r) \/ Failure(r) PROVE ThreadInv'
  <2>1. /\ \A n \in Remittances : memory[n] # {} => memory'[n] # {}
        /\ req[r].pc # "idle"
    BY <1>4, MemoryKept
  <2>2. Rem(r) \in Remittances /\ memory'[req[r].rem] # {}
    BY <2>1 DEF ThreadInv, At, Rem
  <2>3. OnlyMoves(r) /\ Good(r)
    <3>1. CASE \/ RunFails(r) \/ Answer(r) \/ Failure(r)
      BY <3>1, EndingMoves DEF Failure, StateTyped
    <3>2. CASE Commit(r)
      BY <2>2, <3>2, SaveMoves DEF StateTyped, StaysOn, ThreadInv, Position, At, Rem, Commit
    <3>3. CASE Audit(r)
      BY <2>2, <3>3, SaveMoves DEF StateTyped, StaysOn, ThreadInv, Position, At, Rem, Audit
    <3>4. CASE Store(r)
      <4>1. req'[r].pc # "commit" /\ req'[r].pc # "store"
        BY <3>4, SaveMoves DEF StateTyped
      <4>2. req'[r].pc = "append" => req'[r].action = req'[r].review
        BY <3>4, SaveMoves DEF StateTyped
      <4>3. OnlyMoves(r) /\ (req'[r].pc # "idle" => req'[r].rem = Rem(r))
        BY <3>4, SaveMoves DEF StateTyped
      <4>4. QED
        BY <2>2, <4>1, <4>2, <4>3 DEF Rem
    <3>5. CASE SearchMemory(r) \/ SearchTable(r) \/ RouteToApply(r) \/ RouteNowhere(r)
      BY <2>2, <3>5, RunMoves DEF StateTyped, StaysOn, Rem
    <3>6. CASE \E suits \in BOOLEAN : SaveMatch(r, suits)
      BY <2>2, <3>6, RunMoves DEF StateTyped, StaysOn, Rem, Reviews
    <3>7. CASE RouteToReview(r)
      BY <2>2, <3>7, RunMoves DEF StateTyped, StaysOn, Rem
    <3>8. CASE Apply(r) \/ ApplyRefused(r) \/ ApplyFails(r)
      BY <2>2, <3>8, RunMoves DEF StateTyped, StaysOn, Rem, Reviews
    <3>9. QED
      BY <1>4, <3>1, <3>2, <3>3, <3>4, <3>5, <3>6, <3>7, <3>8 DEF RunStep
  <2> HIDE DEF Good
  <2>4. \A s \in Callers : Good(s)
    BY <1>2, <2>1, <2>3 DEF OnlyMoves
  <2>5. QED
    BY <1>1, <2>4
<1>5. ASSUME NEW r \in Callers, NEW m \in Remittances,
             ReviewStep(r, m) \/ \E x \in References : Ingest(r, m, x)
      PROVE  ThreadInv'
  <2>1. /\ \A n \in Remittances : memory[n] # {} => memory'[n] # {}
        /\ memory'[m] # {}
    BY <1>5, MemoryTaken
  <2>2. OnlyMoves(r) /\ Good(r)
    <3>1. CASE \E x \in References : Ingest(r, m, x)
      BY <2>1, <3>1, NewMoves DEF StateTyped, Reviews
    <3>2. CASE \/ Close(r, m, "REJECTED", "human_reject")
               \/ Close(r, m, "RESOLVED", "human_mark_manually_resolved")
      BY <2>1, <3>2, NewMoves DEF StateTyped, Status, Reviews
    <3>3. CASE \E x \in References : Correct(r, m, x)
      BY <2>1, <3>3, NewMoves DEF StateTyped
    <3>4. CASE Approve(r, m)
      BY <2>1, <3>4, NewMoves DEF StateTyped
    <3>5. QED
      BY <1>5, <3>1, <3>2, <3>3, <3>4 DEF ReviewStep
  <2> HIDE DEF Good
  <2>3. \A s \in Callers : Good(s)
    BY <1>2, <2>1, <2>2 DEF OnlyMoves
  <2>4. QED
    BY <1>1, <2>3
<1>6. CASE Restart
  <2>1. \A s \in Callers : req'[s] = IdleRequest
    BY <1>6 DEF Restart, NoRequests
  <2>2. \A s \in Callers : Good(s)
    BY <2>1 DEF IdleRequest
  <2>3. QED
    BY <1>1, <2>2
<1>7. CASE UNCHANGED vars
  BY <1>7 DEF vars, ThreadInv, Position, At, Rem
<1>8. QED
  BY <1>4, <1>5, <1>6, <1>7 DEF Next
---------------------------------------------------------------------------
(* The ledger: one thread at a time files an event, which is the last one in *)
(* memory and the next one of the table.                                     *)

Filed(r) ==
    /\ events # <<>>
    /\ Last(events).id = req[r].event
    /\ Last(events).about = Rem(r)
    /\ Last(events).action = req[r].action
    /\ \A n \in 1 .. Len(events) : events[n].id = req[r].event => n = Len(events)
    /\ ~lost => /\ events = Append(stored, Last(events))
                /\ Last(events).previous = LastId(stored)

ChainInv ==
    /\ \A n \in 1 .. Len(events) : events[n].id <= minted
    /\ \A n \in 1 .. Len(stored) : stored[n].id <= minted
    /\ startupValid <=> Verifies(events)
    /\ writer = "none" /\ ~lost => stored = events

FilingInv ==
    \A r \in Callers : /\ At(r, "store") <=> writer = r
                       /\ At(r, "store") => Filed(r)

LedgerInv == ChainInv /\ FilingInv

\* Initially the ledger is empty.
LEMMA LedgerStart == Init => LedgerTypeOK /\ LedgerInv
<1> SUFFICES ASSUME Init PROVE LedgerTypeOK /\ LedgerInv
  OBVIOUS
<1>1. /\ events = <<>> /\ stored = <<>> /\ startupValid = TRUE
      /\ writer = "none" /\ minted = 0 /\ lost = FALSE
      /\ \A r \in Callers : req[r] = IdleRequest
  BY DEF Init, LedgerInit, NoRequests
<1>2. <<>> \in Seq(Event) /\ Len(<<>>) = 0
  OBVIOUS
<1>3. LedgerTypeOK
  BY <1>1, <1>2 DEF LedgerTypeOK
<1>4. ChainInv
  BY <1>1, <1>2 DEF ChainInv, Verifies
<1>5. FilingInv
  BY <1>1, DurableConstants DEF FilingInv, At, IdleRequest
<1>6. QED
  BY <1>3, <1>4, <1>5 DEF LedgerInv

\* What a thread stores is the event it filed.
LEMMA OwnEventIsLast ==
    ASSUME LedgerTypeOK, NEW r \in Callers, Filed(r)
    PROVE  /\ OwnEvent(r) = Last(events)
           /\ Last(events) \in Event
           /\ Len(events) \in 1 .. Len(events)
           /\ Last(events) = events[Len(events)]
<1>1. events \in Seq(Event) /\ events # <<>>
  BY DEF LedgerTypeOK, Filed
<1>2. Len(events) \in 1 .. Len(events) /\ DOMAIN events = 1 .. Len(events)
  BY <1>1, EmptySeq
<1>3. Last(events) = events[Len(events)] /\ Last(events) \in Range(events)
  BY <1>2 DEF Last, Range
<1>4. Last(events).id = req[r].event
  BY DEF Filed
<1>5. \A e \in Range(events) : e.id = req[r].event => e = Last(events)
  BY <1>2, <1>3 DEF Range, Filed
<1>6. OwnEvent(r) = Last(events)
  BY <1>3, <1>4, <1>5 DEF OwnEvent
<1>7. Last(events) \in Event
  BY <1>1, <1>2, <1>3
<1>8. QED
  BY <1>2, <1>3, <1>6, <1>7

\* A step that leaves the ledger alone starts and ends with no event to store.
LEMMA QuietStep ==
    ASSUME LedgerTypeOK, LedgerInv, NEW r \in Callers, OnlyMoves(r), UNCHANGED ledgerVars,
           req[r].pc # "store", req'[r].pc # "store"
    PROVE  LedgerTypeOK' /\ LedgerInv'
<1> USE DEF ledgerVars
<1>1. LedgerTypeOK'
  BY DEF LedgerTypeOK
<1>2. ChainInv'
  BY DEF LedgerInv, ChainInv, Verifies
<1>3. writer # r
  BY DEF LedgerInv, FilingInv, At
<1>4. ASSUME NEW s \in Callers
      PROVE  /\ req'[s].pc = "store" <=> writer' = s
             /\ req'[s].pc = "store" => Filed(s)'
  BY <1>3 DEF OnlyMoves, LedgerInv, FilingInv, Filed, At, Rem, LastId
<1>5. FilingInv'
  BY <1>4 DEF FilingInv, At
<1>6. QED
  BY <1>1, <1>2, <1>5 DEF LedgerInv

\* The steps of a thread that leave the ledger alone.
LEMMA QuietSteps ==
    ASSUME StateTyped, minted \in Nat, ThreadInv,
           NEW r \in Callers, RunStep(r) \/ Failure(r)
    PROVE  \/ Audit(r) \/ Store(r) \/ \E written \in BOOLEAN : StoreFails(r, written)
           \/ /\ OnlyMoves(r) /\ UNCHANGED ledgerVars
              /\ req[r].pc # "store" /\ req'[r].pc # "store"
<1> USE DEF StateTyped
<1>1. CASE Commit(r)
  <2>1. req[r].pc = "commit" /\ UNCHANGED ledgerVars
    BY <1>1 DEF Commit, At
  <2>2. req[r].next # "store"
    BY <2>1 DEF ThreadInv, At
  <2>3. QED
    BY <1>1, <2>1, <2>2, SaveMoves DEF StaysOn
<1>2. CASE \/ RunFails(r) \/ Answer(r)
           \/ \E written \in BOOLEAN : CommitFails(r, written)
  BY <1>2, EndingMoves DEF RunFails, Answer, CommitFails, At
<1>3. CASE SearchMemory(r) \/ SearchTable(r) \/ RouteToApply(r)
           \/ RouteNowhere(r) \/ ApplyFails(r)
  BY <1>3, RunMoves DEF SearchMemory, SearchTable, RouteToApply, RouteNowhere,
                        ApplyFails, At, StaysOn
<1>4. CASE (\E suits \in BOOLEAN : SaveMatch(r, suits)) \/ RouteToReview(r) \/ Apply(r)
            \/ ApplyRefused(r)
  BY <1>4, RunMoves DEF SaveMatch, RouteToReview, Apply, ApplyRefused, At, StaysOn
<1>5. QED
  BY <1>1, <1>2, <1>3, <1>4 DEF RunStep, Failure

\* An event is filed when no other is waiting for its row: it links to the last
\* one in memory, which, if none was lost, is the last one of the table.
LEMMA AuditFiles ==
    ASSUME LedgerTypeOK, LedgerInv, StateTyped, ThreadInv, NEW r \in Callers, Audit(r)
    PROVE  LedgerTypeOK' /\ LedgerInv'
<1>1. /\ events \in Seq(Event) /\ stored \in Seq(Event) /\ minted \in Nat
      /\ startupValid \in BOOLEAN /\ lost \in BOOLEAN
  BY DEF LedgerTypeOK
<1>2. PICK m : m = Rem(r)
  OBVIOUS
<1>3. PICK action : action = req[r].action
  OBVIOUS
<1> DEFINE e == [id |-> minted + 1, previous |-> LastId(events),
                 about |-> m, action |-> action]
<1>4. /\ writer = "none" /\ writer' = r /\ minted' = minted + 1
      /\ events' = Append(events, e)
      /\ UNCHANGED <<stored, startupValid, lost>>
  BY <1>2, <1>3 DEF Audit, AppendEvent
<1>5. m \in Subjects /\ action \in Actions
  BY <1>2, <1>3, DurableConstants DEF Audit, At, ThreadInv, StateTyped, Request
<1>6. LastId(events) \in Nat
  <2>1. CASE events = <<>>
    BY <2>1 DEF LastId, Genesis
  <2>2. CASE events # <<>>
    <3>1. Len(events) \in 1 .. Len(events)
      BY <1>1, <2>2, EmptySeq
    <3>2. Last(events) \in Event
      BY <1>1, <3>1 DEF Last
    <3>3. QED
      BY <2>2, <3>2 DEF LastId, Event
  <2>3. QED
    BY <2>1, <2>2
<1>7. e \in Event
  <2>1. minted + 1 \in Nat
    BY <1>1
  <2>2. QED
    BY <1>5, <1>6, <2>1 DEF Event
<1>8. /\ e.id = minted + 1 /\ e.previous = LastId(events)
      /\ e.about = m /\ e.action = action
  OBVIOUS
<1> HIDE DEF e
<1>9. /\ events' \in Seq(Event) /\ events' # <<>>
      /\ Len(events') = Len(events) + 1
      /\ Last(events') = e
      /\ \A n \in 1 .. Len(events) : events'[n] = events[n]
      /\ events'[Len(events) + 1] = e
  BY <1>1, <1>4, <1>7, AppendedLast
<1>10. LedgerTypeOK'
  <2>1. minted' \in Nat
    BY <1>1, <1>4
  <2>2. writer' \in Appenders \cup {"none"}
    BY <1>4, DurableConstants
  <2>3. QED
    BY <1>1, <1>4, <1>9, <2>1, <2>2 DEF LedgerTypeOK
<1>11. ~lost => stored = events
  BY <1>4 DEF LedgerInv, ChainInv
<1>12. ChainInv'
  <2>1. \A n \in 1 .. Len(events') : events'[n].id <= minted'
    <3>0. \A n \in 1 .. Len(events) : events[n] \in Event
      BY <1>1
    <3>1. \A n \in 1 .. Len(events) : events[n].id <= minted /\ events[n].id \in Nat
      BY <3>0 DEF LedgerInv, ChainInv, Event
    <3>2. \A n \in 1 .. Len(events) : events'[n].id <= minted + 1
      BY <1>1, <1>9, <3>1
    <3>3. e.id <= minted + 1
      BY <1>1, <1>8
    <3>4. QED
      BY <1>1, <1>4, <1>9, <3>2, <3>3
  <2>2. \A n \in 1 .. Len(stored') : stored'[n].id <= minted'
    <3>1. \A n \in 1 .. Len(stored) : stored[n].id <= minted /\ stored[n] \in Event
      BY <1>1 DEF LedgerInv, ChainInv
    <3>2. \A n \in 1 .. Len(stored) : stored[n].id <= minted + 1
      BY <1>1, <3>1 DEF Event
    <3>3. QED
      BY <1>4, <3>2
  <2>3. startupValid' <=> Verifies(events')
    BY <1>1, <1>4, <1>7, <1>8, VerifiesAppended DEF LedgerInv, ChainInv
  <2>4. writer' # "none"
    BY <1>4, DurableConstants
  <2>5. QED
    BY <2>1, <2>2, <2>3, <2>4 DEF ChainInv
<1>13. /\ OnlyMoves(r) /\ req'[r].pc = "store" /\ req'[r].event = minted + 1
       /\ req'[r].rem = m /\ req'[r].action = action
  BY <1>1, <1>2, <1>3, SaveMoves DEF StateTyped, StaysOn
<1>14. FilingInv'
  <2>1. \A s \in Callers \ {r} : req'[s].pc # "store"
    BY <1>4, <1>13, DurableConstants DEF OnlyMoves, LedgerInv, FilingInv, At
  <2>2. \A n \in 1 .. Len(events') : events'[n].id = minted + 1 => n = Len(events')
    <3>0. \A n \in 1 .. Len(events) : events[n] \in Event
      BY <1>1
    <3>1. \A n \in 1 .. Len(events) : events[n].id <= minted /\ events[n].id \in Nat
      BY <3>0 DEF LedgerInv, ChainInv, Event
    <3>2. \A n \in 1 .. Len(events) : events'[n].id # minted + 1
      BY <1>1, <1>9, <3>1
    <3>3. QED
      BY <1>1, <1>9, <3>2
  <2>3. ~lost' => /\ events' = Append(stored', Last(events'))
                  /\ Last(events').previous = LastId(stored')
    BY <1>4, <1>8, <1>9, <1>11
  <2>4. Filed(r)'
    BY <1>8, <1>9, <1>13, <2>2, <2>3 DEF Filed, Rem
  <2>5. QED
    BY <1>4, <1>13, <2>1, <2>4 DEF FilingInv, At
<1>15. QED
  BY <1>10, <1>12, <1>14 DEF LedgerInv

\* The event is stored, or not: the lock is free, and, if none was lost, the
\* table holds what is in memory.
LEMMA StoreFiles ==
    ASSUME LedgerTypeOK, LedgerInv, StateTyped, NEW r \in Callers,
           Store(r) \/ \E written \in BOOLEAN : StoreFails(r, written)
    PROVE  LedgerTypeOK' /\ LedgerInv'
<1>1. /\ events \in Seq(Event) /\ stored \in Seq(Event) /\ minted \in Nat
      /\ startupValid \in BOOLEAN /\ lost \in BOOLEAN
  BY DEF LedgerTypeOK
<1>2. At(r, "store") /\ writer = r /\ Filed(r)
  BY DEF Store, StoreFails, LedgerInv, FilingInv
<1>3. PICK e \in Event : e = Last(events) /\ e = OwnEvent(r) /\ e.id <= minted
  BY <1>2, OwnEventIsLast DEF LedgerInv, ChainInv
<1>4. /\ writer' = "none"
      /\ \/ stored' = Append(stored, e) /\ (lost' => lost)
         \/ stored' = stored /\ lost' = TRUE
      /\ lost' \in BOOLEAN
      /\ UNCHANGED <<events, startupValid, minted>>
      /\ lost => lost'
  <2>1. CASE Store(r)
    BY <1>1, <1>3, <2>1 DEF Store, StoreEvent
  <2>2. ASSUME NEW written \in BOOLEAN, StoreFails(r, written)
        PROVE  /\ writer' = "none"
               /\ \/ stored' = Append(stored, e) /\ (lost' => lost)
                  \/ stored' = stored /\ lost' = TRUE
               /\ lost' \in BOOLEAN
               /\ UNCHANGED <<events, startupValid, minted>>
               /\ lost => lost'
    <3>1. StoreEventFails(e, written)
      BY <1>3, <2>2 DEF StoreFails
    <3>2. CASE written = TRUE
      BY <1>1, <3>1, <3>2 DEF StoreEventFails
    <3>3. CASE written = FALSE
      BY <1>1, <3>1, <3>3 DEF StoreEventFails
    <3>4. QED
      BY <3>2, <3>3
  <2>3. QED
    BY <2>1, <2>2
<1>5. /\ Append(stored, e) \in Seq(Event)
      /\ Len(Append(stored, e)) = Len(stored) + 1
      /\ \A n \in 1 .. Len(stored) : Append(stored, e)[n] = stored[n]
      /\ Append(stored, e)[Len(stored) + 1] = e
  BY <1>1, AppendedLast
<1>6. LedgerTypeOK'
  BY <1>1, <1>4, <1>5 DEF LedgerTypeOK
<1>7. ChainInv'
  <2>1. \A n \in 1 .. Len(stored) : stored[n].id <= minted
    BY DEF LedgerInv, ChainInv
  <2>2. \A n \in 1 .. Len(Append(stored, e)) : Append(stored, e)[n].id <= minted
    BY <1>1, <1>3, <1>5, <2>1
  <2>3. \A n \in 1 .. Len(stored') : stored'[n].id <= minted
    BY <1>4, <2>1, <2>2
  <2>4. /\ \A n \in 1 .. Len(events) : events[n].id <= minted
        /\ startupValid <=> Verifies(events)
    BY DEF LedgerInv, ChainInv
  <2>5. ~lost' => stored' = events
    BY <1>2, <1>3, <1>4 DEF Filed
  <2>6. QED
    BY <1>4, <2>3, <2>4, <2>5 DEF ChainInv
<1>8. OnlyMoves(r) /\ req'[r].pc # "store"
  <2>1. CASE Store(r)
    BY <1>1, <2>1, SaveMoves DEF StateTyped
  <2>2. CASE \E written \in BOOLEAN : StoreFails(r, written)
    BY <2>2, EndingMoves DEF StateTyped
  <2>3. QED
    BY <2>1, <2>2
<1>9. FilingInv'
  <2>1. \A s \in Callers : req'[s].pc # "store"
    BY <1>2, <1>8 DEF OnlyMoves, LedgerInv, FilingInv, At
  <2>2. QED
    BY <1>4, <2>1, DurableConstants DEF FilingInv, At
<1>10. QED
  BY <1>6, <1>7, <1>9 DEF LedgerInv

LEMMA LedgerStep ==
    LedgerTypeOK /\ StateTyped /\ ThreadInv /\ LedgerInv /\ [Next]_vars
      => LedgerTypeOK' /\ LedgerInv'
<1> SUFFICES ASSUME LedgerTypeOK, StateTyped, ThreadInv, LedgerInv, [Next]_vars
             PROVE  LedgerTypeOK' /\ LedgerInv'
  OBVIOUS
<1>1. ASSUME NEW r \in Callers, RunStep(r) \/ Failure(r)
      PROVE  LedgerTypeOK' /\ LedgerInv'
  <2>1. minted \in Nat
    BY DEF LedgerTypeOK
  <2>2. QED
    BY <1>1, <2>1, QuietSteps, QuietStep, AuditFiles, StoreFiles
<1>2. ASSUME NEW r \in Callers, NEW m \in Remittances,
             ReviewStep(r, m) \/ \E x \in References : Ingest(r, m, x)
      PROVE  LedgerTypeOK' /\ LedgerInv'
  <2>1. UNCHANGED ledgerVars
    BY <1>2 DEF ReviewStep, Ingest, Close, Correct, Approve
  <2>2. req[r].pc = "idle"
    BY <1>2, MemoryTaken
  <2>3. OnlyMoves(r) /\ req'[r].pc # "store"
    <3>1. CASE \E x \in References : Ingest(r, m, x)
      BY <3>1, NewMoves DEF StateTyped
    <3>2. CASE \/ Close(r, m, "REJECTED", "human_reject")
               \/ Close(r, m, "RESOLVED", "human_mark_manually_resolved")
      BY <3>2, NewMoves DEF StateTyped, Status, Reviews
    <3>3. CASE (\E x \in References : Correct(r, m, x)) \/ Approve(r, m)
      BY <3>3, NewMoves DEF StateTyped
    <3>4. QED
      BY <1>2, <3>1, <3>2, <3>3 DEF ReviewStep
  <2>4. QED
    BY <2>1, <2>2, <2>3, QuietStep
<1>3. CASE Restart
  <2>1. /\ events' = stored /\ stored' = stored /\ minted' = minted
        /\ startupValid' = Verifies(stored) /\ writer' = "none" /\ lost' = FALSE
        /\ \A s \in Callers : req'[s] = IdleRequest
    BY <1>3 DEF Restart, LoadEvents, NoRequests
  <2>2. Verifies(stored) \in BOOLEAN
    BY DEF Verifies
  <2>3. LedgerTypeOK'
    BY <2>1, <2>2 DEF LedgerTypeOK
  <2>4. ChainInv'
    BY <2>1 DEF LedgerInv, ChainInv
  <2>5. FilingInv'
    BY <2>1, DurableConstants DEF FilingInv, At, IdleRequest
  <2>6. QED
    BY <2>3, <2>4, <2>5 DEF LedgerInv
<1>4. CASE UNCHANGED vars
  <2>1. UNCHANGED ledgerVars /\ UNCHANGED req
    BY <1>4 DEF vars
  <2>2. LedgerTypeOK'
    BY <2>1 DEF ledgerVars, LedgerTypeOK
  <2>3. ChainInv'
    BY <2>1 DEF ledgerVars, LedgerInv, ChainInv, Verifies
  <2>4. FilingInv'
    BY <2>1 DEF ledgerVars, LedgerInv, FilingInv, Filed, At, Rem, LastId
  <2>5. QED
    BY <2>2, <2>3, <2>4 DEF LedgerInv
<1>5. QED
  BY <1>1, <1>2, <1>3, <1>4 DEF Next
---------------------------------------------------------------------------
(* Type correctness, and what the ledger reports.                          *)

\* Every step of a thread moves that thread alone.
LEMMA OneThreadMoves ==
    ASSUME StateTyped, minted \in Nat, NEW r \in Callers
    PROVE  /\ RunStep(r) \/ Failure(r) => OnlyMoves(r)
           /\ \A m \in Remittances :
                ReviewStep(r, m) \/ (\E x \in References : Ingest(r, m, x)) => OnlyMoves(r)
<1> USE DEF StateTyped
<1>1. ASSUME RunStep(r) \/ Failure(r) PROVE OnlyMoves(r)
  <2>1. CASE Commit(r) \/ Audit(r) \/ Store(r)
    BY <2>1, SaveMoves DEF StaysOn
  <2>2. CASE RunFails(r) \/ Answer(r) \/ Failure(r)
    BY <2>2, EndingMoves DEF Failure
  <2>3. CASE SearchMemory(r) \/ SearchTable(r) \/ RouteToApply(r)
             \/ RouteNowhere(r) \/ ApplyFails(r)
    BY <2>3, RunMoves DEF StaysOn
  <2>4. CASE (\E suits \in BOOLEAN : SaveMatch(r, suits)) \/ RouteToReview(r) \/ Apply(r)
              \/ ApplyRefused(r)
    BY <2>4, RunMoves DEF StaysOn
  <2>5. QED
    BY <1>1, <2>1, <2>2, <2>3, <2>4 DEF RunStep
<1>2. ASSUME NEW m \in Remittances,
             ReviewStep(r, m) \/ \E x \in References : Ingest(r, m, x)
      PROVE  OnlyMoves(r)
  <2>1. CASE \/ Close(r, m, "REJECTED", "human_reject")
             \/ Close(r, m, "RESOLVED", "human_mark_manually_resolved")
    BY <2>1, NewMoves DEF Status, Reviews
  <2>2. CASE (\E x \in References : Ingest(r, m, x) \/ Correct(r, m, x)) \/ Approve(r, m)
    BY <2>2, NewMoves
  <2>3. QED
    BY <1>2, <2>1, <2>2 DEF ReviewStep
<1>3. QED
  BY <1>1, <1>2

\* A row is a remittance of memory, with the reference it was inserted with.
LEMMA UpsertTyped ==
    ASSUME StateTyped, NEW m \in Remittances, Upsert(m)
    PROVE  /\ payload' \in [Remittances -> SUBSET Remittance]
           /\ column' \in [Remittances -> SUBSET References]
<1>1. {f.reference : f \in memory[m]} \in SUBSET References
  BY DEF StateTyped, Remittance
<1>2. QED
  BY <1>1 DEF StateTyped, Upsert

\* The inductive invariant: the state is typed, every thread is at a step it can
\* take, and every event that is filed has its place in the ledger.
Typed == TypeOK /\ ThreadInv /\ LedgerInv

LEMMA TypedInit == Init => Typed
<1> SUFFICES ASSUME Init PROVE Typed
  OBVIOUS
<1>1. TypeOK
  <2>1. /\ memory \in [Remittances -> SUBSET Remittance]
        /\ payload \in [Remittances -> SUBSET Remittance]
        /\ column \in [Remittances -> SUBSET References]
    BY DEF Init, Nothing
  <2>2. req \in [Callers -> Request]
    BY RequestTypes DEF Init, NoRequests
  <2>3. requests \in 0 .. MaxRequests /\ troubles \in 0 .. MaxTroubles
    BY DurableConstants DEF Init
  <2>4. QED
    BY <2>1, <2>2, <2>3, LedgerStart DEF Init, TypeOK
<1>2. ThreadInv
  BY DEF Init, NoRequests, IdleRequest, ThreadInv, Position, At, Rem
<1>3. QED
  BY <1>1, <1>2, LedgerStart DEF Typed

LEMMA TypeStep == Typed /\ [Next]_vars => TypeOK'
<1> SUFFICES ASSUME Typed, [Next]_vars PROVE TypeOK'
  OBVIOUS
<1> DEFINE RestTyped ==
      /\ payload' \in [Remittances -> SUBSET Remittance]
      /\ column' \in [Remittances -> SUBSET References]
      /\ requests' \in 0 .. MaxRequests
      /\ troubles' \in 0 .. MaxTroubles
      /\ answered' \subseteq Remittances \X Reviews
      /\ cleared' \subseteq Remittances
      /\ corrected' \subseteq Remittances
      /\ reloaded' \subseteq Remittances
      /\ disturbed' \subseteq Remittances
<1>1. /\ StateTyped /\ LedgerTypeOK /\ ThreadInv /\ LedgerInv /\ minted \in Nat
      /\ LedgerTypeOK'
  BY LedgerStep DEF Typed, TypeOK, StateTyped, LedgerTypeOK
<1>2. ASSUME memory' \in [Remittances -> SUBSET Remittance],
             req' \in [Callers -> Request], RestTyped
      PROVE  TypeOK'
  BY <1>1, <1>2 DEF TypeOK
<1>3. /\ payload \in [Remittances -> SUBSET Remittance]
      /\ column \in [Remittances -> SUBSET References]
      /\ requests \in 0 .. MaxRequests
      /\ troubles \in 0 .. MaxTroubles
      /\ answered \subseteq Remittances \X Reviews
      /\ cleared \subseteq Remittances
      /\ corrected \subseteq Remittances
      /\ reloaded \subseteq Remittances
      /\ disturbed \subseteq Remittances
  BY DEF Typed, TypeOK
<1>4. ASSUME requests < MaxRequests, requests' = requests + 1
      PROVE  requests' \in 0 .. MaxRequests
  BY <1>3, <1>4, DurableConstants
<1>5. ASSUME troubles < MaxTroubles, troubles' = troubles + 1
      PROVE  troubles' \in 0 .. MaxTroubles
  BY <1>3, <1>5, DurableConstants
<1>6. ASSUME NEW r \in Callers, RunStep(r) \/ Failure(r) PROVE TypeOK'
  <2>1. memory' \in [Remittances -> SUBSET Remittance] /\ Rem(r) \in Remittances
    BY <1>1, <1>6, MemoryKept DEF ThreadInv, At
  <2>2. req' \in [Callers -> Request]
    BY <1>1, <1>6, OneThreadMoves DEF OnlyMoves
  <2>3. RestTyped
    <3>1. CASE Commit(r)
      BY <1>1, <1>3, <2>1, <3>1, UpsertTyped DEF Commit, bounds, watch
    <3>2. ASSUME NEW written \in BOOLEAN, CommitFails(r, written) PROVE RestTyped
      <4>1. /\ payload' \in [Remittances -> SUBSET Remittance]
            /\ column' \in [Remittances -> SUBSET References]
        BY <1>1, <1>3, <2>1, <3>2, UpsertTyped DEF CommitFails, tables
      <4>2. troubles' \in 0 .. MaxTroubles /\ disturbed' \subseteq Remittances
        BY <1>3, <1>5, <2>1, <3>2 DEF CommitFails, Trouble
      <4>3. QED
        BY <1>3, <3>2, <4>1, <4>2 DEF CommitFails
    <3>3. ASSUME NEW written \in BOOLEAN, StoreFails(r, written) PROVE RestTyped
      <4>1. troubles' \in 0 .. MaxTroubles /\ disturbed' \subseteq Remittances
        BY <1>3, <1>5, <2>1, <3>3 DEF StoreFails, Trouble
      <4>2. QED
        BY <1>3, <3>3, <4>1 DEF StoreFails, tables
    <3>4. CASE SearchMemory(r) \/ SearchTable(r)
      BY <1>3, <2>1, <3>4 DEF SearchMemory, SearchTable, Judge, tables, bounds, watch
    <3>5. CASE \/ Audit(r) \/ Store(r) \/ RouteToApply(r) \/ RouteNowhere(r)
               \/ ApplyFails(r) \/ RunFails(r)
      BY <1>3, <3>5 DEF Audit, Store, RouteToApply, RouteNowhere, ApplyFails, RunFails,
                        tables, bounds, watch
    <3>6. CASE (\E suits \in BOOLEAN : SaveMatch(r, suits)) \/ RouteToReview(r) \/ Apply(r)
                \/ ApplyRefused(r)
      BY <1>3, <3>6 DEF SaveMatch, RouteToReview, Apply, ApplyRefused, Write, tables, bounds, watch
    <3>7. CASE Answer(r)
      BY <1>3, <3>7 DEF Answer, tables, bounds
    <3>8. QED
      BY <1>6, <3>1, <3>2, <3>3, <3>4, <3>5, <3>6, <3>7 DEF RunStep, Failure
  <2> HIDE DEF RestTyped
  <2>4. QED
    BY <1>2, <2>1, <2>2, <2>3
<1>7. ASSUME NEW r \in Callers, NEW m \in Remittances,
             ReviewStep(r, m) \/ \E x \in References : Ingest(r, m, x)
      PROVE  TypeOK'
  <2>1. memory' \in [Remittances -> SUBSET Remittance] /\ UNCHANGED tables
    BY <1>1, <1>7, MemoryTaken
  <2>2. req' \in [Callers -> Request]
    BY <1>1, <1>7, OneThreadMoves DEF OnlyMoves
  <2>3. /\ requests < MaxRequests /\ requests' = requests + 1
        /\ UNCHANGED <<troubles, answered, reloaded, disturbed>>
        /\ corrected' \subseteq Remittances /\ cleared' \subseteq Remittances
    <3>1. CASE \E x \in References : Ingest(r, m, x)
      BY <1>3, <3>1 DEF Ingest, NewRequest, watch
    <3>2. CASE \/ Close(r, m, "REJECTED", "human_reject")
               \/ Close(r, m, "RESOLVED", "human_mark_manually_resolved")
      BY <1>3, <3>2 DEF Close, Review, NewRequest, watch
    <3>3. CASE \E x \in References : Correct(r, m, x)
      BY <1>3, <3>3 DEF Correct, Review, NewRequest
    <3>4. CASE Approve(r, m)
      BY <1>3, <3>4 DEF Approve, Review, NewRequest, watch
    <3>5. QED
      BY <1>7, <3>1, <3>2, <3>3, <3>4 DEF ReviewStep
  <2>4. RestTyped
    BY <1>3, <1>4, <2>1, <2>3 DEF tables
  <2> HIDE DEF RestTyped
  <2>5. QED
    BY <1>2, <2>1, <2>2, <2>4
<1>8. CASE Restart
  <2>1. memory' \in [Remittances -> SUBSET Remittance]
    BY <1>8 DEF Restart, Nothing
  <2>2. req' \in [Callers -> Request]
    BY <1>8, RequestTypes DEF Restart, NoRequests
  <2>3. troubles' \in 0 .. MaxTroubles
    BY <1>5, <1>8 DEF Restart
  <2>4. RestTyped
    BY <1>3, <1>8, <2>3 DEF Restart, tables
  <2> HIDE DEF RestTyped
  <2>5. QED
    BY <1>2, <2>1, <2>2, <2>4
<1>9. CASE UNCHANGED vars
  BY <1>1, <1>9 DEF vars, tables, bounds, watch, Typed, TypeOK
<1>10. QED
  BY <1>6, <1>7, <1>8, <1>9 DEF Next

LEMMA TypedStep == Typed /\ [Next]_vars => Typed'
<1> SUFFICES ASSUME Typed, [Next]_vars PROVE Typed'
  OBVIOUS
<1>1. StateTyped /\ LedgerTypeOK /\ minted \in Nat
  BY DEF Typed, TypeOK, StateTyped, LedgerTypeOK
<1>2. QED
  BY <1>1, TypeStep, ThreadStep, LedgerStep DEF Typed

\* The types of the state, in every run: in particular every thread that stores an
\* event finds it in memory, and every one that writes finds what it works on.
THEOREM TypeCorrect == Spec => []TypeOK
<1>1. Typed => TypeOK
  BY DEF Typed
<1>2. QED
  BY TypedInit, TypedStep, <1>1, PTL DEF Spec

\* What is reported of the chain, at startup or later, is what a recomputation
\* would find, in memory and, as long as no event was lost, in the table.
THEOREM IntegrityReported == Spec => []IntegrityReportsAreTrue
<1>1. ASSUME Typed PROVE IntegrityReportsAreTrue
  <2>1. startupValid <=> Verifies(events)
    BY <1>1 DEF Typed, LedgerInv, ChainInv
  <2>2. LedgerTypeOK /\ stored \in Seq(Event) /\ writer \in Callers \cup {"none"}
    BY <1>1, DurableConstants DEF Typed, TypeOK, LedgerTypeOK
  <2>3. CASE writer = "none"
    BY <1>1, <2>1, <2>3 DEF Typed, LedgerInv, ChainInv, IntegrityReportsAreTrue
  <2>4. CASE writer # "none"
    <3>1. PICK r \in Callers : Filed(r)
      BY <1>1, <2>2, <2>4 DEF Typed, LedgerInv, FilingInv
    <3>2. Last(events) \in Event
      BY <2>2, <3>1, OwnEventIsLast
    <3>3. ~lost => (Verifies(events) <=> Verifies(stored))
      BY <2>2, <3>1, <3>2, VerifiesAppended DEF Filed
    <3>4. QED
      BY <2>1, <3>3 DEF IntegrityReportsAreTrue
  <2>5. QED
    BY <2>3, <2>4
<1>2. Typed => IntegrityReportsAreTrue
  BY <1>1
<1>3. QED
  BY TypedInit, TypedStep, <1>2, PTL DEF Spec
---------------------------------------------------------------------------
(* Reviews are audited.                                                    *)

\* Someone who is about to be told of success has the event of the review in the
\* table, and so has everyone who was told.
AnswerInv ==
    /\ \A r \in Callers :
         At(r, "answer") /\ req[r].review # "none" => Stored(Rem(r), req[r].review)
    /\ \A a \in answered : Stored(a[1], a[2])

\* A thread has this review of the remittance to commit, to append or to store.
Closing(m, review) ==
    \E r \in Callers :
        Rem(r) = m /\ Position(r) \in {"append", "store"} /\ req[r].action = review

\* A status that only a review sets has its event in the table, or on its way.
ClosedInv ==
    \A m \in Remittances \ disturbed : \A f \in memory[m] \cup payload[m] :
        /\ f.status = "REJECTED" =>
              Stored(m, "human_reject") \/ Closing(m, "human_reject")
        /\ f.status = "RESOLVED" =>
              \/ Stored(m, "human_mark_manually_resolved")
              \/ Closing(m, "human_mark_manually_resolved")

LEMMA TypedParts ==
    Typed => /\ StateTyped /\ LedgerTypeOK /\ ThreadInv /\ LedgerInv /\ minted \in Nat
             /\ stored \in Seq(Event)
BY DEF Typed, TypeOK, StateTyped, LedgerTypeOK

\* The table only grows, by the event of the thread that stores it.
LEMMA StoredGrows ==
    ASSUME Typed
    PROVE  /\ [Next]_vars => \A m, action : Stored(m, action) => Stored(m, action)'
           /\ \A r \in Callers : \A m, action :
                Store(r) /\ m = Rem(r) /\ action = req[r].action => Stored(m, action)'
<1>1. ASSUME NEW r \in Callers, Store(r)
      PROVE  /\ \A m, action : Stored(m, action) => Stored(m, action)'
             /\ \E e \in Range(stored') : e.about = Rem(r) /\ e.action = req[r].action
  <2>1. Filed(r)
    BY <1>1, TypedParts DEF LedgerInv, FilingInv, Store
  <2>2. PICK e \in Event : e = OwnEvent(r) /\ e = Last(events)
    BY <2>1, TypedParts, OwnEventIsLast
  <2>3. stored' = Append(stored, e)
    BY <1>1, <2>2 DEF Store, StoreEvent
  <2>4. Range(stored') = Range(stored) \cup {e}
    BY <2>3, TypedParts, AppendedRange
  <2>5. QED
    BY <2>1, <2>2, <2>4 DEF Stored, Filed
<1>2. ASSUME NEW r \in Callers, NEW written \in BOOLEAN, StoreFails(r, written)
      PROVE  \A m, action : Stored(m, action) => Stored(m, action)'
  <2>1. Filed(r)
    BY <1>2, TypedParts DEF LedgerInv, FilingInv, StoreFails
  <2>2. PICK e \in Event : e = OwnEvent(r)
    BY <2>1, TypedParts, OwnEventIsLast
  <2>3. stored' = stored \/ stored' = Append(stored, e)
    BY <1>2, <2>2 DEF StoreFails, StoreEventFails
  <2>4. Range(Append(stored, e)) = Range(stored) \cup {e}
    BY TypedParts, AppendedRange
  <2>5. \A x \in Range(stored) : x \in Range(stored')
    BY <2>3, <2>4
  <2>6. QED
    BY <2>5 DEF Stored
<1>3. ASSUME stored' = stored
      PROVE  \A m, action : Stored(m, action) => Stored(m, action)'
  BY <1>3 DEF Stored
<1>4. ASSUME [Next]_vars
      PROVE  \/ stored' = stored
             \/ \E r \in Callers : Store(r) \/ \E written \in BOOLEAN : StoreFails(r, written)
  <2>1. ASSUME NEW r \in Callers, RunStep(r) \/ Failure(r)
        PROVE  \/ Audit(r) \/ Store(r) \/ \E written \in BOOLEAN : StoreFails(r, written)
               \/ stored' = stored
    BY <2>1, TypedParts, QuietSteps DEF ledgerVars
  <2>2. ASSUME NEW r \in Callers, Audit(r) PROVE stored' = stored
    BY <2>2 DEF Audit, AppendEvent
  <2>3. ASSUME NEW r \in Callers, NEW m \in Remittances,
               ReviewStep(r, m) \/ \E x \in References : Ingest(r, m, x)
        PROVE  stored' = stored
    BY <2>3 DEF ReviewStep, Ingest, Close, Correct, Approve, ledgerVars
  <2>4. ASSUME Restart \/ UNCHANGED vars PROVE stored' = stored
    BY <2>4 DEF Restart, LoadEvents, vars, ledgerVars
  <2>5. QED
    BY <1>4, <2>1, <2>2, <2>3, <2>4 DEF Next
<1>5. ASSUME NEW r \in Callers, NEW m, NEW action,
             Store(r), m = Rem(r), action = req[r].action
      PROVE  Stored(m, action)'
  <2>1. \E e \in Range(stored') : e.about = m /\ e.action = action
    BY <1>1, <1>5
  <2>2. QED
    BY <2>1 DEF Stored
<1>6. QED
  BY <1>1, <1>2, <1>3, <1>4, <1>5
\* A thread comes to its answer with no review to report, or with one whose event
\* it has just stored.
LEMMA AnswerStep == Typed /\ AnswerInv /\ [Next]_vars => AnswerInv'
<1> SUFFICES ASSUME Typed, AnswerInv, [Next]_vars PROVE AnswerInv'
  OBVIOUS
<1>1. StateTyped /\ ThreadInv /\ minted \in Nat
  BY TypedParts
<1>2. \A m, action : Stored(m, action) => Stored(m, action)'
  BY StoredGrows
<1> DEFINE Good(s) == \A m, review :
      req'[s].pc = "answer" /\ review # "none" /\ m = req'[s].rem /\ review = req'[s].review
        => Stored(m, review)'
<1>3. ASSUME \A s \in Callers : Good(s), answered' = answered PROVE AnswerInv'
  <2>1. \A s \in Callers : req'[s].pc = "answer" /\ req'[s].review # "none" =>
          \E e \in Range(stored') : e.about = req'[s].rem /\ e.action = req'[s].review
    BY <1>3 DEF Stored
  <2>2. \A a \in answered : \E e \in Range(stored') : e.about = a[1] /\ e.action = a[2]
    BY <1>2 DEF AnswerInv, Stored
  <2>3. QED
    BY <1>3, <2>1, <2>2 DEF AnswerInv, Stored, At, Rem
<1>4. ASSUME NEW s \in Callers, req'[s] = req[s] PROVE Good(s)
  BY <1>2, <1>4 DEF AnswerInv, At, Rem
<1>5. ASSUME NEW r \in Callers, RunStep(r) \/ Failure(r), ~Answer(r) PROVE AnswerInv'
  <2>1. answered' = answered
    BY <1>5 DEF RunStep, Failure, Commit, CommitFails, Audit, Store, StoreFails,
                SearchMemory, SearchTable, Judge, SaveMatch, RouteToApply, RouteToReview,
                RouteNowhere, Apply, ApplyRefused, ApplyFails, RunFails, watch
  <2>2. Good(r)
    <3>1. CASE Commit(r)
      BY <1>1, <3>1, SaveMoves DEF StateTyped, StaysOn, Commit, ThreadInv, At
    <3>2. CASE Audit(r)
      BY <1>1, <3>2, SaveMoves DEF StateTyped
    <3>3. CASE Store(r)
      <4>1. \A m, action : m = Rem(r) /\ action = req[r].action => Stored(m, action)'
        BY <3>3, StoredGrows
      <4>2. req[r].action \in Reviews => req[r].action = req[r].review
        BY <1>1, <3>3 DEF ThreadInv, Position, Store, At
      <4>3. \/ req'[r].pc # "answer"
            \/ req'[r].review = "none"
            \/ /\ req'[r].rem = Rem(r) /\ req'[r].review = req[r].review
               /\ req[r].action \in Reviews
        BY <1>1, <3>3, SaveMoves DEF StateTyped
      <4>4. QED
        BY <4>1, <4>2, <4>3
    <3>4. CASE RunFails(r) \/ Failure(r)
      BY <1>1, <3>4, EndingMoves DEF Failure, StateTyped
    <3>5. CASE SearchMemory(r) \/ SearchTable(r) \/ RouteToApply(r) \/ ApplyFails(r)
      BY <1>1, <3>5, RunMoves DEF StateTyped
    <3>6. CASE (\E suits \in BOOLEAN : SaveMatch(r, suits)) \/ RouteToReview(r) \/ Apply(r)
                \/ ApplyRefused(r)
      BY <1>1, <3>6, RunMoves DEF StateTyped
    <3>7. CASE RouteNowhere(r)
      BY <1>1, <3>7, RunMoves DEF StateTyped
    <3>8. QED
      BY <1>5, <3>1, <3>2, <3>3, <3>4, <3>5, <3>6, <3>7 DEF RunStep
  <2>3. \A s \in Callers \ {r} : req'[s] = req[s]
    BY <1>1, <1>5, OneThreadMoves DEF OnlyMoves
  <2> HIDE DEF Good
  <2>4. QED
    BY <1>3, <1>4, <2>1, <2>2, <2>3
<1>6. ASSUME NEW r \in Callers, Answer(r) PROVE AnswerInv'
  <2>1. OnlyMoves(r) /\ req'[r].pc = "idle"
    BY <1>1, <1>6, EndingMoves DEF StateTyped
  <2>2. \A s \in Callers : Good(s)
    BY <1>4, <2>1 DEF OnlyMoves
  <2>3. stored' = stored
    BY <1>6 DEF Answer, ledgerVars
  <2>4. ASSUME NEW a \in answered' PROVE Stored(a[1], a[2])
    <3>1. a \in answered \/ (a = <<Rem(r), req[r].review>> /\ req[r].review \in Reviews)
      BY <1>6 DEF Answer
    <3>2. a = <<Rem(r), req[r].review>> => a[1] = Rem(r) /\ a[2] = req[r].review
      OBVIOUS
    <3>3. "none" \notin Reviews
      BY DEF Reviews
    <3>4. QED
      BY <1>6, <3>1, <3>2, <3>3 DEF AnswerInv, Answer
  <2>5. \A s \in Callers : req'[s].pc = "answer" /\ req'[s].review # "none" =>
          \E e \in Range(stored') : e.about = req'[s].rem /\ e.action = req'[s].review
    BY <2>2 DEF Stored
  <2>6. \A a \in answered' : \E e \in Range(stored') : e.about = a[1] /\ e.action = a[2]
    BY <2>3, <2>4 DEF Stored
  <2>7. QED
    BY <2>5, <2>6 DEF AnswerInv, Stored, At, Rem
<1>7. ASSUME NEW r \in Callers, NEW m \in Remittances,
             ReviewStep(r, m) \/ \E x \in References : Ingest(r, m, x)
      PROVE  AnswerInv'
  <2>1. answered' = answered
    BY <1>7 DEF ReviewStep, Ingest, Close, Correct, Approve, watch
  <2>2. Good(r)
    <3>1. CASE \E x \in References : Ingest(r, m, x)
      BY <1>1, <3>1, NewMoves DEF StateTyped
    <3>2. CASE \/ Close(r, m, "REJECTED", "human_reject")
               \/ Close(r, m, "RESOLVED", "human_mark_manually_resolved")
      BY <1>1, <3>2, NewMoves DEF StateTyped, Status, Reviews
    <3>3. CASE (\E x \in References : Correct(r, m, x)) \/ Approve(r, m)
      BY <1>1, <3>3, NewMoves DEF StateTyped
    <3>4. QED
      BY <1>7, <3>1, <3>2, <3>3 DEF ReviewStep
  <2>3. \A s \in Callers \ {r} : req'[s] = req[s]
    BY <1>1, <1>7, OneThreadMoves DEF OnlyMoves
  <2> HIDE DEF Good
  <2>4. QED
    BY <1>3, <1>4, <2>1, <2>2, <2>3
<1>8. CASE Restart
  <2>1. answered' = answered /\ \A s \in Callers : req'[s].pc = "idle"
    BY <1>8 DEF Restart, NoRequests, IdleRequest
  <2>2. \A s \in Callers : Good(s)
    BY <2>1
  <2> HIDE DEF Good
  <2>3. QED
    BY <1>3, <2>1, <2>2
<1>9. CASE UNCHANGED vars
  <2>1. answered' = answered /\ req' = req
    BY <1>9 DEF vars, watch
  <2> HIDE DEF Good
  <2>2. QED
    BY <1>3, <1>4, <2>1
<1>10. QED
  BY <1>5, <1>6, <1>7, <1>8, <1>9 DEF Next

\* A review that a thread has to commit, to append or to store is still with it
\* after a step, or stored, or a crash or a failed write has met the remittance.
LEMMA ClosingStep ==
    ASSUME Typed, [Next]_vars, NEW m \in Remittances, NEW action
    PROVE  /\ Closing(m, action) => Stored(m, action)' \/ Closing(m, action)' \/ m \in disturbed'
           /\ disturbed \subseteq disturbed'
<1> DEFINE Waits(s) ==
      /\ req'[s].rem = m /\ req'[s].action = action
      /\ \/ req'[s].pc = "commit" /\ req'[s].next \in {"append", "store"}
         \/ req'[s].pc \in {"append", "store"}
<1>1. StateTyped /\ ThreadInv /\ minted \in Nat
  BY TypedParts
<1>2. (\E s \in Callers : Waits(s)) => Closing(m, action)'
  BY DEF Closing, Position, At, Rem
<1>3. ASSUME NEW s \in Callers, Rem(s) = m, Position(s) \in {"append", "store"},
             req[s].action = action, req'[s] = req[s]
      PROVE  Waits(s)
  BY <1>3 DEF Position, At, Rem
<1>4. ASSUME NEW r \in Callers, OnlyMoves(r)
      PROVE  Closing(m, action) =>
               \/ Closing(m, action)'
               \/ /\ Rem(r) = m /\ Position(r) \in {"append", "store"}
                  /\ req[r].action = action
  BY <1>2, <1>3, <1>4 DEF Closing, OnlyMoves
<1>5. ASSUME NEW r \in Callers, RunStep(r) \/ Failure(r)
      PROVE  /\ Rem(r) = m /\ Position(r) \in {"append", "store"} /\ req[r].action = action
                  => Stored(m, action)' \/ Closing(m, action)' \/ m \in disturbed'
             /\ disturbed \subseteq disturbed'
  <2>1. CASE Commit(r)
    <3>1. Position(r) \in {"append", "store"} /\ Rem(r) = m /\ req[r].action = action
             => Waits(r)
      BY <1>1, <2>1, SaveMoves DEF StateTyped, StaysOn, Position, Commit, At
    <3>2. QED
      BY <1>2, <2>1, <3>1 DEF Commit, watch
  <2>2. CASE Audit(r)
    <3>1. Rem(r) = m /\ req[r].action = action => Waits(r)
      BY <1>1, <2>2, SaveMoves DEF StateTyped, StaysOn
    <3>2. QED
      BY <1>2, <2>2, <3>1 DEF Audit, watch
  <2>3. CASE Store(r)
    BY <2>3, StoredGrows DEF Store, watch
  <2>4. CASE Failure(r)
    BY <2>4 DEF Failure, CommitFails, StoreFails, Trouble
  <2>5. CASE \/ SearchMemory(r) \/ SearchTable(r) \/ RouteToApply(r) \/ RouteNowhere(r)
             \/ ApplyFails(r) \/ RunFails(r) \/ Answer(r)
    BY <2>5 DEF SearchMemory, SearchTable, RouteToApply, RouteNowhere, ApplyFails,
                RunFails, Answer, Judge, Position, At, watch
  <2>6. CASE (\E suits \in BOOLEAN : SaveMatch(r, suits)) \/ RouteToReview(r) \/ Apply(r)
              \/ ApplyRefused(r)
    BY <2>6 DEF SaveMatch, RouteToReview, Apply, ApplyRefused, Position, At, watch
  <2>7. QED
    BY <1>5, <2>1, <2>2, <2>3, <2>4, <2>5, <2>6 DEF RunStep
<1>6. ASSUME NEW r \in Callers, RunStep(r) \/ Failure(r)
      PROVE  /\ Closing(m, action) =>
                  Stored(m, action)' \/ Closing(m, action)' \/ m \in disturbed'
             /\ disturbed \subseteq disturbed'
  BY <1>1, <1>4, <1>5, <1>6, OneThreadMoves
<1>7. ASSUME NEW r \in Callers, NEW n \in Remittances,
             ReviewStep(r, n) \/ \E x \in References : Ingest(r, n, x)
      PROVE  /\ Closing(m, action) => Closing(m, action)'
             /\ disturbed \subseteq disturbed'
  <2>1. disturbed' = disturbed
    BY <1>7 DEF ReviewStep, Ingest, Close, Correct, Approve, watch
  <2>2. Position(r) \notin {"append", "store"}
    BY <1>1, <1>7, MemoryTaken DEF Position, At
  <2>3. QED
    BY <1>1, <1>4, <1>7, <2>1, <2>2, OneThreadMoves
<1>8. CASE Restart
  <2>1. Closing(m, action) => Busy(m)
    BY DEF Closing, Busy, Position, At
  <2>2. QED
    BY <1>8, <2>1 DEF Restart
<1>9. CASE UNCHANGED vars
  BY <1>2, <1>3, <1>9 DEF vars, watch, Closing
<1>10. QED
  BY <1>6, <1>7, <1>8, <1>9 DEF Next
\* What an upsert writes was in memory or in the table.
LEMMA UpsertMoves ==
    ASSUME StateTyped, NEW m \in Remittances, Upsert(m)
    PROVE  /\ payload'[m] = memory[m]
           /\ \A n \in Remittances \ {m} : payload'[n] = payload[n] /\ column'[n] = column[n]
           /\ column[m] # {} => column'[m] = column[m]
           /\ column[m] = {} => column'[m] = {f.reference : f \in memory[m]}
BY DEF StateTyped, Upsert

\* No step of a run sets a status that is a reviewer's to set.
LEMMA RunFields ==
    ASSUME Typed, NEW r \in Callers, RunStep(r) \/ Failure(r),
           NEW m \in Remittances, NEW f \in memory'[m] \cup payload'[m]
    PROVE  f \in memory[m] \cup payload[m] \/ f.status \notin {"REJECTED", "RESOLVED"}
<1>1. StateTyped /\ ThreadInv /\ Rem(r) \in Remittances /\ memory[Rem(r)] # {}
  BY TypedParts, MemoryKept DEF ThreadInv, At
<1>2. CASE UNCHANGED memory /\ (UNCHANGED tables \/ Upsert(Rem(r)))
  BY <1>1, <1>2, UpsertMoves DEF tables
<1>3. CASE (\E suits \in BOOLEAN : SaveMatch(r, suits)) \/ RouteToReview(r) \/ Apply(r)
            \/ ApplyRefused(r)
  <2>1. PICK status \in {"MATCHED", "EXCEPTION", "AWAITING_APPROVAL", "POSTED"} :
          Saves(Rem(r), status, Fields(Rem(r)).reference)
    BY <1>1, <1>3, RunWrites DEF StateTyped
  <2>2. QED
    BY <1>1, <2>1 DEF Saves, StateTyped, tables
<1>4. CASE SearchTable(r)
  <2>1. \A n \in Remittances : memory'[n] # memory[n] => memory'[n] = payload[n]
    <3>1. ASSUME NEW n \in Remittances, memory' = [memory EXCEPT ![n] = Known(n)]
          PROVE  \A k \in Remittances : memory'[k] # memory[k] => memory'[k] = payload[k]
      BY <1>1, <3>1 DEF Known, StateTyped
    <3>2. QED
      BY <1>4, <3>1 DEF SearchTable, InTable
  <2>2. QED
    BY <1>4, <2>1 DEF SearchTable, tables
<1>5. \/ UNCHANGED memory /\ (UNCHANGED tables \/ Upsert(Rem(r)))
      \/ (\E suits \in BOOLEAN : SaveMatch(r, suits)) \/ RouteToReview(r) \/ Apply(r)
         \/ ApplyRefused(r)
      \/ SearchTable(r)
  <2>1. ASSUME Commit(r) \/ Audit(r) \/ Store(r) \/ SearchMemory(r) \/ RouteToApply(r)
                 \/ RouteNowhere(r) \/ ApplyFails(r) \/ RunFails(r) \/ Answer(r)
        PROVE  UNCHANGED memory /\ (UNCHANGED tables \/ Upsert(Rem(r)))
    BY <2>1 DEF Commit, Audit, Store, SearchMemory, RouteToApply, RouteNowhere,
                ApplyFails, RunFails, Answer
  <2>2. ASSUME Failure(r)
        PROVE  UNCHANGED memory /\ (UNCHANGED tables \/ Upsert(Rem(r)))
    BY <2>2 DEF Failure, CommitFails, StoreFails
  <2>3. QED
    BY <2>1, <2>2 DEF RunStep
<1>6. QED
  BY <1>2, <1>3, <1>4, <1>5

\* A reviewer who closes a remittance has its event to append.
LEMMA NewFields ==
    ASSUME Typed, NEW r \in Callers, NEW n \in Remittances,
           ReviewStep(r, n) \/ \E x \in References : Ingest(r, n, x),
           NEW m \in Remittances, NEW f \in memory'[m] \cup payload'[m]
    PROVE  \/ f \in memory[m] \cup payload[m]
           \/ f.status \notin {"REJECTED", "RESOLVED"}
           \/ f.status = "REJECTED" /\ Closing(m, "human_reject")'
           \/ f.status = "RESOLVED" /\ Closing(m, "human_mark_manually_resolved")'
<1>1. StateTyped
  BY TypedParts
<1>2. /\ UNCHANGED tables
      /\ \A k \in Remittances \ {n} : memory'[k] = memory[k]
  BY <1>1, MemoryTaken
<1>3. CASE f \in payload'[m] \/ m # n
  BY <1>2, <1>3 DEF tables
<1>4. CASE f \in memory'[n] /\ m = n
  <2>1. CASE \E x \in References : Ingest(r, n, x) \/ Correct(r, n, x)
    <3>1. \E x \in References : Saves(n, "EXTRACTED", x)
      BY <1>1, <2>1, NewWrites DEF StateTyped
    <3>2. QED
      BY <1>1, <1>4, <3>1 DEF Saves, StateTyped
  <2>2. ASSUME NEW status \in {"REJECTED", "RESOLVED"}, NEW review \in Reviews,
               Close(r, n, status, review)
        PROVE  f.status = status /\ Closing(n, review)'
    <3>1. status \in Status
      BY DEF Status
    <3>2. Saves(n, status, Fields(n).reference)
      BY <1>1, <2>2, <3>1, NewWrites DEF StateTyped
    <3>3. f.status = status
      BY <1>1, <1>4, <3>2 DEF Saves, StateTyped
    <3>4. /\ req'[r].rem = n /\ req'[r].pc = "commit"
          /\ req'[r].next = "append" /\ req'[r].action = review
      BY <1>1, <2>2, <3>1, NewMoves DEF StateTyped
    <3>5. QED
      BY <3>3, <3>4 DEF Closing, Position, At, Rem
  <2>3. CASE Approve(r, n)
    <3>1. memory'[n] = Known(n)
      BY <1>1, <2>3 DEF Approve, StateTyped
    <3>2. QED
      BY <1>4, <3>1 DEF Known
  <2>4. "human_reject" \in Reviews /\ "human_mark_manually_resolved" \in Reviews
    BY DEF Reviews
  <2>5. QED
    BY <1>4, <2>1, <2>2, <2>3, <2>4 DEF ReviewStep
<1>5. QED
  BY <1>3, <1>4

LEMMA ClosedStep == Typed /\ ClosedInv /\ [Next]_vars => ClosedInv'
<1> SUFFICES ASSUME Typed, ClosedInv, [Next]_vars PROVE ClosedInv'
  OBVIOUS
<1> DEFINE Rejected(m) == Stored(m, "human_reject") \/ Closing(m, "human_reject")
           Resolved(m) == \/ Stored(m, "human_mark_manually_resolved")
                          \/ Closing(m, "human_mark_manually_resolved")
<1>1. ASSUME NEW m \in Remittances, m \notin disturbed'
      PROVE  m \notin disturbed /\ (Rejected(m) => Rejected(m)') /\ (Resolved(m) => Resolved(m)')
  BY <1>1, ClosingStep, StoredGrows
<1>2. ASSUME NEW m \in Remittances, NEW f \in memory'[m] \cup payload'[m],
             m \notin disturbed', f \in memory[m] \cup payload[m]
      PROVE  /\ f.status = "REJECTED" => Rejected(m)'
             /\ f.status = "RESOLVED" => Resolved(m)'
  <2>1. /\ f.status = "REJECTED" => Rejected(m)
        /\ f.status = "RESOLVED" => Resolved(m)
    BY <1>1, <1>2 DEF ClosedInv
  <2>2. QED
    BY <1>1, <1>2, <2>1
<1>3. ASSUME NEW m \in Remittances, NEW f \in memory'[m] \cup payload'[m],
             m \notin disturbed'
      PROVE  /\ f.status = "REJECTED" => Rejected(m)'
             /\ f.status = "RESOLVED" => Resolved(m)'
  <2>1. CASE f \in memory[m] \cup payload[m]
    BY <1>2, <1>3, <2>1
  <2>2. ASSUME NEW r \in Callers, RunStep(r) \/ Failure(r), f \notin memory[m] \cup payload[m]
        PROVE  f.status \notin {"REJECTED", "RESOLVED"}
    BY <2>2, RunFields
  <2>3. ASSUME NEW r \in Callers, NEW n \in Remittances,
               ReviewStep(r, n) \/ \E x \in References : Ingest(r, n, x),
               f \notin memory[m] \cup payload[m]
        PROVE  /\ f.status = "REJECTED" => Rejected(m)'
               /\ f.status = "RESOLVED" => Resolved(m)'
    BY <2>3, NewFields
  <2>4. CASE Restart
    BY <1>2, <1>3, <2>4 DEF Restart, Nothing, tables
  <2>5. CASE UNCHANGED vars
    BY <1>2, <1>3, <2>5 DEF vars, tables
  <2>6. QED
    BY <2>1, <2>2, <2>3, <2>4, <2>5 DEF Next
<1>4. QED
  BY <1>3 DEF ClosedInv

\* Reviews whose caller was told of success, and statuses that only a review sets,
\* have their event in the table, unless a failed write or a restart met them.
THEOREM ReviewsAreAudited == Spec => []ReviewIsAudited
<1> DEFINE IInv == Typed /\ AnswerInv /\ ClosedInv
<1>1. Init => IInv
  <2>1. Init => AnswerInv
    BY DEF Init, NoRequests, IdleRequest, AnswerInv, At
  <2>2. Init => ClosedInv
    BY DEF Init, Nothing, ClosedInv
  <2>3. QED
    BY <2>1, <2>2, TypedInit
<1>2. IInv /\ [Next]_vars => IInv'
  BY TypedStep, AnswerStep, ClosedStep
<1>3. ASSUME IInv PROVE ReviewIsAudited
  <2>1. ASSUME NEW m \in Remittances, NEW action, Closing(m, action) PROVE Busy(m)
    BY <2>1 DEF Closing, Busy, Position, At
  <2>2. QED
    BY <1>3, <2>1 DEF AnswerInv, ClosedInv, ReviewIsAudited
<1>4. IInv => ReviewIsAudited
  BY <1>3
<1> HIDE DEF IInv
<1>5. QED
  BY <1>1, <1>2, <1>4, PTL DEF Spec
---------------------------------------------------------------------------
(* One request at a time for each remittance, and one row.                 *)

\* A request that is not over, and whose remittance has not been routed away: it
\* has a match, or an application, ahead of it.
Works(q) ==
    LET position == IF q.pc = "commit" THEN q.next ELSE q.pc IN
    \/ position \in {"search_memory", "search_table", "save_match", "route", "apply"}
    \/ /\ position \in {"append", "store"}
       /\ q.action \in {"remittance_extracted", "ar_match_completed"}

BusyInv ==
    /\ \A r, s \in Callers : ~At(r, "idle") /\ ~At(s, "idle") /\ Rem(r) = Rem(s) => r = s
    /\ \A r \in Callers, m \in Remittances : Rem(r) = m /\ Works(req[r]) =>
         /\ Fields(m).status # "REJECTED"
         /\ ~At(r, "commit") => payload[m] # {}

\* Memory and table hold one record of a remittance, and agree on the reference
\* until a correction; one without a row has not been matched.
Row(m) ==
    /\ \A f, g \in memory[m] : f = g
    /\ \A f, g \in payload[m] : f = g
    /\ payload[m] = {} => column[m] = {} /\ \A f \in memory[m] : f.status = "EXTRACTED"
    /\ m \notin corrected =>
         /\ \A f \in memory[m], g \in payload[m] : f.reference = g.reference
         /\ \A g \in payload[m] : column[m] = {g.reference}
    /\ m \in corrected \ reloaded => memory[m] # {}
    /\ m \in cleared => payload[m] # {}

RowInv == (\A m \in Remittances : Row(m)) /\ reloaded \subseteq corrected

\* Where a thread comes from.
LEMMA WorkingMoves ==
    ASSUME Typed, NEW r \in Callers, RunStep(r) \/ Failure(r)
    PROVE  /\ req[r].pc # "idle"
           /\ req'[r].pc # "idle" => req'[r].rem = Rem(r)
           /\ Works(req'[r]) => /\ Works(req[r])
                                /\ req'[r].pc # "commit" => req[r].pc # "commit" \/ Commit(r)
<1>1. StateTyped /\ ThreadInv /\ minted \in Nat
  BY TypedParts
<1>2. req[r].pc # "idle"
  BY <1>1, MemoryKept
<1>3. CASE Commit(r)
  BY <1>1, <1>2, <1>3, SaveMoves DEF StateTyped, StaysOn, Commit, At, Works, ThreadInv
<1>4. CASE Audit(r)
  BY <1>1, <1>2, <1>4, SaveMoves DEF StateTyped, StaysOn, Audit, At, Works
<1>5. CASE Store(r)
  <2>1. req[r].pc = "store"
    BY <1>5 DEF Store, At
  <2>2. /\ req'[r].pc # "idle" => req'[r].rem = Rem(r)
        /\ \/ req[r].action = "remittance_extracted"
           \/ req[r].action = "ar_match_completed"
           \/ req'[r].pc \in {"answer", "idle"}
           \/ req'[r].pc = "append" /\ req'[r].action \in Reviews
    BY <1>1, <1>5, SaveMoves DEF StateTyped
  <2>3. QED
    BY <1>2, <2>1, <2>2 DEF Works, Reviews
<1>6. CASE RunFails(r) \/ Answer(r) \/ Failure(r)
  BY <1>1, <1>2, <1>6, EndingMoves DEF StateTyped, Failure, Works
<1>7. CASE SearchMemory(r) \/ SearchTable(r) \/ RouteToApply(r)
  BY <1>1, <1>2, <1>7, RunMoves
  DEF StateTyped, StaysOn, SearchMemory, SearchTable, RouteToApply, At, Works
<1>8. CASE RouteNowhere(r) \/ ApplyFails(r)
  BY <1>1, <1>2, <1>8, RunMoves DEF StateTyped, StaysOn, Works, Reviews
<1>9. CASE \E suits \in BOOLEAN : SaveMatch(r, suits)
  BY <1>1, <1>2, <1>9, RunMoves DEF StateTyped, StaysOn, SaveMatch, At, Works
<1>10. CASE RouteToReview(r) \/ Apply(r) \/ ApplyRefused(r)
  BY <1>1, <1>2, <1>10, RunMoves DEF StateTyped, StaysOn, Works, Reviews
<1>11. QED
  BY <1>3, <1>4, <1>5, <1>6, <1>7, <1>8, <1>9, <1>10 DEF RunStep

\* What a step of a run leaves of memory and the table: it saves the remittance
\* it works on in memory, or commits it, or loads another one.
LEMMA RunKnown ==
    ASSUME Typed, NEW r \in Callers, RunStep(r) \/ Failure(r), NEW k, k = Rem(r)
    PROVE  /\ k \in Remittances /\ memory[k] # {}
           /\ \A m \in Remittances \ {k} :
                /\ memory'[m] = memory[m] \/ (memory[m] = {} /\ memory'[m] = payload[m])
                /\ payload'[m] = payload[m] /\ column'[m] = column[m]
           /\ \/ UNCHANGED tables /\ memory'[k] = memory[k]
              \/ Upsert(k) /\ UNCHANGED memory
              \/ /\ req[r].pc \in {"save_match", "route", "apply"}
                 /\ \E status \in {"MATCHED", "EXCEPTION", "AWAITING_APPROVAL", "POSTED"} :
                      Saves(k, status, Fields(k).reference)
<1>1. StateTyped /\ ThreadInv /\ minted \in Nat
  BY TypedParts
<1>2. /\ k \in Remittances /\ memory[k] # {}
      /\ \A m \in Remittances \ {k} :
           memory'[m] = memory[m] \/ (memory[m] = {} /\ memory'[m] = payload[m])
      /\ memory'[k] # memory[k] => Rem(r) = k
  BY <1>1, MemoryKept DEF ThreadInv, At
<1>3. CASE UNCHANGED memory /\ (UNCHANGED tables \/ Upsert(k))
  BY <1>1, <1>2, <1>3, UpsertMoves DEF tables
<1>4. CASE (\E suits \in BOOLEAN : SaveMatch(r, suits)) \/ RouteToReview(r) \/ Apply(r)
            \/ ApplyRefused(r)
  <2>1. PICK status \in {"MATCHED", "EXCEPTION", "AWAITING_APPROVAL", "POSTED"} :
          Saves(Rem(r), status, Fields(Rem(r)).reference)
    BY <1>1, <1>2, <1>4, RunWrites DEF StateTyped
  <2>2. req[r].pc \in {"save_match", "route", "apply"}
    BY <1>4 DEF SaveMatch, RouteToReview, Apply, ApplyRefused, At
  <2>3. UNCHANGED tables
    BY <2>1 DEF Saves
  <2>4. QED
    BY <1>2, <2>1, <2>2, <2>3 DEF tables
<1>5. CASE SearchTable(r)
  <2>1. UNCHANGED tables /\ memory'[k] = memory[k]
    BY <1>1, <1>2, <1>5 DEF SearchTable, InTable, StateTyped
  <2>2. QED
    BY <1>2, <2>1 DEF tables
<1>6. \/ UNCHANGED memory /\ (UNCHANGED tables \/ Upsert(k))
      \/ (\E suits \in BOOLEAN : SaveMatch(r, suits)) \/ RouteToReview(r) \/ Apply(r)
         \/ ApplyRefused(r)
      \/ SearchTable(r)
  <2>1. ASSUME Commit(r) \/ Audit(r) \/ Store(r) \/ SearchMemory(r) \/ RouteToApply(r)
                 \/ RouteNowhere(r) \/ ApplyFails(r) \/ RunFails(r) \/ Answer(r)
        PROVE  UNCHANGED memory /\ (UNCHANGED tables \/ Upsert(k))
    BY <2>1 DEF Commit, Audit, Store, SearchMemory, RouteToApply, RouteNowhere,
                ApplyFails, RunFails, Answer
  <2>2. ASSUME Failure(r) PROVE UNCHANGED memory /\ (UNCHANGED tables \/ Upsert(k))
    BY <2>2 DEF Failure, CommitFails, StoreFails
  <2>3. QED
    BY <2>1, <2>2 DEF RunStep
<1>7. QED
  BY <1>3, <1>4, <1>5, <1>6

\* What a new request leaves of them: it ingests a remittance nobody knows, or
\* works on one that nobody is busy with.
LEMMA NewKnown ==
    ASSUME Typed, NEW r \in Callers, NEW m \in Remittances,
           ReviewStep(r, m) \/ \E x \in References : Ingest(r, m, x)
    PROVE  /\ req[r].pc = "idle"
           /\ OnlyMoves(r) /\ req'[r].rem = m /\ ~Busy(m)
           /\ UNCHANGED tables
           /\ \A n \in Remittances \ {m} : memory'[n] = memory[n]
           /\ req'[r].pc # "search_table"
           /\ \/ /\ Known(m) = {} /\ UNCHANGED <<cleared, corrected, reloaded>>
                 /\ req'[r].pc = "commit"
                 /\ \E x \in References : Saves(m, "EXTRACTED", x)
              \/ /\ Known(m) # {} /\ Fields(m).status \in Reviewable
                 /\ cleared' = cleared \ {m} /\ corrected' = corrected \cup {m}
                 /\ UNCHANGED reloaded
                 /\ req'[r].pc = "commit"
                 /\ \E x \in References : Saves(m, "EXTRACTED", x)
              \/ /\ Known(m) # {} /\ Fields(m).status \in Reviewable
                 /\ UNCHANGED <<cleared, corrected, reloaded>>
                 /\ ~Works(req'[r])
                 /\ \E status \in Status : Saves(m, status, Fields(m).reference)
              \/ /\ Known(m) # {} /\ Fields(m).status \in Reviewable
                 /\ UNCHANGED <<cleared, corrected, reloaded>>
                 /\ memory'[m] = Known(m)
<1>1. StateTyped /\ ThreadInv /\ minted \in Nat
  BY TypedParts
<1>2. /\ req[r].pc = "idle" /\ UNCHANGED tables /\ OnlyMoves(r)
      /\ \A n \in Remittances \ {m} : memory'[n] = memory[n]
  BY <1>1, MemoryTaken, OneThreadMoves
<1>3. CASE \E x \in References : Ingest(r, m, x)
  <2>1. Known(m) = {} /\ UNCHANGED <<cleared, corrected, reloaded>>
    BY <1>3 DEF Ingest, watch
  <2>2. ~Busy(m)
    BY <1>1, <2>1 DEF Known, Busy, ThreadInv
  <2>3. \E x \in References : Saves(m, "EXTRACTED", x)
    BY <1>1, <1>3, NewWrites DEF StateTyped
  <2>4. req'[r].rem = m /\ req'[r].pc = "commit"
    BY <1>1, <1>3, NewMoves DEF StateTyped
  <2>5. QED
    BY <1>2, <2>1, <2>2, <2>3, <2>4
<1>4. CASE \E x \in References : Correct(r, m, x)
  <2>1. /\ Known(m) # {} /\ Fields(m).status \in Reviewable /\ ~Busy(m)
        /\ cleared' = cleared \ {m} /\ corrected' = corrected \cup {m}
        /\ UNCHANGED reloaded
    BY <1>4 DEF Correct, Review
  <2>2. \E x \in References : Saves(m, "EXTRACTED", x)
    BY <1>1, <1>4, NewWrites DEF StateTyped
  <2>3. req'[r].rem = m /\ req'[r].pc = "commit"
    BY <1>1, <1>4, NewMoves DEF StateTyped
  <2>4. QED
    BY <1>2, <2>1, <2>2, <2>3
<1>5. ASSUME NEW status \in Status, NEW review \in Reviews, Close(r, m, status, review)
      PROVE  /\ Known(m) # {} /\ Fields(m).status \in Reviewable /\ ~Busy(m)
             /\ UNCHANGED <<cleared, corrected, reloaded>>
             /\ req'[r].rem = m /\ req'[r].pc = "commit" /\ ~Works(req'[r])
             /\ Saves(m, status, Fields(m).reference)
  <2>1. /\ Known(m) # {} /\ Fields(m).status \in Reviewable /\ ~Busy(m)
        /\ UNCHANGED <<cleared, corrected, reloaded>>
    BY <1>5 DEF Close, Review, watch
  <2>2. Saves(m, status, Fields(m).reference)
    BY <1>1, <1>5, NewWrites DEF StateTyped
  <2>3. /\ req'[r].rem = m /\ req'[r].pc = "commit"
        /\ req'[r].next = "append" /\ req'[r].action \in Reviews
    BY <1>1, <1>5, NewMoves DEF StateTyped
  <2>4. QED
    BY <2>1, <2>2, <2>3 DEF Works, Reviews
<1>6. CASE \/ Close(r, m, "REJECTED", "human_reject")
           \/ Close(r, m, "RESOLVED", "human_mark_manually_resolved")
  <2>1. /\ {"REJECTED", "RESOLVED"} \subseteq Status
        /\ {"human_reject", "human_mark_manually_resolved"} \subseteq Reviews
    BY DEF Status, Reviews
  <2>2. QED
    BY <1>2, <1>5, <1>6, <2>1
<1>7. CASE Approve(r, m)
  <2>1. /\ Known(m) # {} /\ Fields(m).status \in Reviewable /\ ~Busy(m)
        /\ UNCHANGED <<cleared, corrected, reloaded>>
        /\ memory'[m] = Known(m)
    BY <1>1, <1>7 DEF Approve, Review, watch, StateTyped
  <2>2. req'[r].rem = m /\ req'[r].pc = "apply"
    BY <1>1, <1>7, NewMoves DEF StateTyped
  <2>3. QED
    BY <1>2, <2>1, <2>2
<1>8. QED
  BY <1>3, <1>4, <1>6, <1>7 DEF ReviewStep
\* What is known of a remittance after a step.
LEMMA KnownAfter ==
    ASSUME NEW m \in Remittances
    PROVE  /\ Known(m)' = Known(m) => Fields(m)' = Fields(m)
           /\ memory[m] # {} /\ memory'[m] = memory[m] => Known(m)' = Known(m)
           /\ memory'[m] = memory[m] /\ payload'[m] = payload[m] => Known(m)' = Known(m)
           /\ memory'[m] = payload[m] /\ memory[m] = {} /\ payload'[m] = payload[m]
                => Known(m)' = Known(m)
           /\ memory'[m] = Known(m) /\ Known(m) # {} => Known(m)' = Known(m)
           /\ \A f : memory'[m] = {f} => Known(m)' = {f} /\ Fields(m)' = f
<1>1. ASSUME NEW f, memory'[m] = {f} PROVE Known(m)' = {f} /\ Fields(m)' = f
  <2>1. Known(m)' = {f}
    BY <1>1 DEF Known
  <2>2. QED
    BY <2>1 DEF Fields
<1>2. Known(m)' = Known(m) => Fields(m)' = Fields(m)
  BY DEF Fields
<1>3. QED
  BY <1>1, <1>2 DEF Known

\* The fields of the remittances a step of a run does not work on do not change.
LEMMA OthersAreKnown ==
    ASSUME Typed, NEW r \in Callers, RunStep(r) \/ Failure(r),
           NEW m \in Remittances, m # Rem(r)
    PROVE  Known(m)' = Known(m) /\ Fields(m)' = Fields(m)
BY RunKnown, KnownAfter

LEMMA SavedFields ==
    ASSUME Typed, NEW m \in Remittances, NEW status, NEW reference,
           Saves(m, status, reference)
    PROVE  \E f \in Remittance :
              /\ memory'[m] = {f} /\ Known(m)' = {f} /\ Fields(m)' = f
              /\ f.status = status /\ f.reference = reference
              /\ payload' = payload /\ column' = column
<1>1. PICK f \in Remittance :
        /\ memory' = [memory EXCEPT ![m] = {f}]
        /\ f.status = status /\ f.reference = reference /\ UNCHANGED tables
  BY DEF Saves
<1>2. memory'[m] = {f}
  BY <1>1, TypedParts DEF StateTyped
<1>3. QED
  BY <1>1, <1>2, KnownAfter DEF tables

\* Requests for a remittance come one after another, and one that has work ahead
\* does not find its remittance rejected.
LEMMA BusyStep == Typed /\ BusyInv /\ RowInv /\ [Next]_vars => BusyInv'
<1> SUFFICES ASSUME Typed, BusyInv, RowInv, [Next]_vars PROVE BusyInv'
  OBVIOUS
<1>1. StateTyped /\ ThreadInv /\ minted \in Nat
  BY TypedParts
<1> DEFINE Alone == \A s, t \in Callers :
             req'[s].pc # "idle" /\ req'[t].pc # "idle" /\ req'[s].rem = req'[t].rem => s = t
           Good(s) == \A m \in Remittances : req'[s].rem = m /\ Works(req'[s]) =>
             /\ Fields(m)'.status # "REJECTED"
             /\ req'[s].pc # "commit" => payload'[m] # {}
<1>2. ASSUME Alone, \A s \in Callers : Good(s) PROVE BusyInv'
  BY <1>2 DEF BusyInv, At, Rem
<1>3. \A q : Works(q) => q.pc # "idle"
  BY DEF Works
<1>4. ASSUME NEW r \in Callers, RunStep(r) \/ Failure(r) PROVE BusyInv'
  <2>1. PICK k : k = Rem(r)
    OBVIOUS
  <2>2. OnlyMoves(r) /\ req[r].pc # "idle" /\ k \in Remittances /\ memory[k] # {}
    BY <1>1, <1>4, <2>1, OneThreadMoves, WorkingMoves, RunKnown
  <2>3. Alone
    BY <1>4, <2>2, WorkingMoves DEF OnlyMoves, BusyInv, At, Rem
  <2>4. ASSUME NEW s \in Callers, s # r PROVE Good(s)
    <3>1. req'[s] = req[s]
      BY <2>2, <2>4 DEF OnlyMoves
    <3>2. ASSUME NEW m \in Remittances, req[s].rem = m, Works(req[s])
          PROVE  /\ Fields(m)'.status # "REJECTED"
                 /\ req[s].pc # "commit" => payload'[m] # {}
      <4>1. m # k
        BY <1>3, <2>1, <2>2, <2>4, <3>2 DEF BusyInv, At, Rem
      <4>2. Fields(m)' = Fields(m) /\ payload'[m] = payload[m]
        BY <1>4, <2>1, <4>1, OthersAreKnown, RunKnown
      <4>3. QED
        BY <3>2, <4>2 DEF BusyInv, At, Rem
    <3>3. QED
      BY <3>1, <3>2
  <2>5. Good(r)
    <3>1. ASSUME Works(req'[r])
          PROVE  /\ req'[r].rem = k
                 /\ Fields(k)'.status # "REJECTED"
                 /\ req'[r].pc # "commit" => payload'[k] # {}
      <4>1. /\ req'[r].rem = k /\ Works(req[r])
            /\ req'[r].pc # "commit" => req[r].pc # "commit" \/ Commit(r)
        BY <1>3, <1>4, <2>1, <3>1, WorkingMoves
      <4>2. /\ Fields(k).status # "REJECTED"
            /\ req[r].pc # "commit" => payload[k] # {}
        BY <2>1, <2>2, <4>1 DEF BusyInv, At
      <4>3. ASSUME Upsert(k) PROVE payload'[k] # {}
        BY <1>1, <2>2, <4>3, UpsertMoves
      <4>4. Commit(r) => Upsert(k)
        BY <2>1 DEF Commit
      <4>5. CASE memory'[k] = memory[k]
        <5>1. Fields(k)' = Fields(k)
          BY <2>2, <4>5, KnownAfter
        <5>2. UNCHANGED tables \/ Upsert(k)
          BY <1>4, <2>1, RunKnown DEF Saves
        <5>3. QED
          BY <4>1, <4>2, <4>3, <4>4, <5>1, <5>2 DEF tables
      <4>6. CASE memory'[k] # memory[k]
        <5>1. PICK status \in {"MATCHED", "EXCEPTION", "AWAITING_APPROVAL", "POSTED"} :
                Saves(k, status, Fields(k).reference) /\ req[r].pc # "commit"
          BY <1>4, <2>1, <4>6, RunKnown
        <5>2. Fields(k)'.status = status /\ payload' = payload
          BY <2>2, <5>1, SavedFields
        <5>3. QED
          BY <4>1, <4>2, <5>1, <5>2
      <4>7. QED
        BY <4>5, <4>6
    <3>2. QED
      BY <3>1
  <2> HIDE DEF Alone, Good
  <2>6. QED
    BY <1>2, <2>3, <2>4, <2>5
<1>5. ASSUME NEW r \in Callers, NEW m \in Remittances,
             ReviewStep(r, m) \/ \E x \in References : Ingest(r, m, x)
      PROVE  BusyInv'
  <2>1. /\ OnlyMoves(r) /\ req'[r].rem = m /\ ~Busy(m) /\ req[r].pc = "idle"
        /\ UNCHANGED tables /\ \A n \in Remittances \ {m} : memory'[n] = memory[n]
    BY <1>5, NewKnown
  <2>2. Alone
    BY <2>1 DEF OnlyMoves, BusyInv, Busy, At, Rem
  <2>3. ASSUME NEW s \in Callers, s # r PROVE Good(s)
    <3>1. req'[s] = req[s]
      BY <2>1, <2>3 DEF OnlyMoves
    <3>2. ASSUME NEW n \in Remittances, req[s].rem = n, Works(req[s])
          PROVE  /\ Fields(n)'.status # "REJECTED"
                 /\ req[s].pc # "commit" => payload'[n] # {}
      <4>1. n # m
        BY <1>3, <2>1, <3>2 DEF Busy, At, Rem
      <4>2. Fields(n)' = Fields(n) /\ payload' = payload
        BY <2>1, <4>1, KnownAfter DEF tables
      <4>3. QED
        BY <3>2, <4>2 DEF BusyInv, At, Rem
    <3>3. QED
      BY <3>1, <3>2
  <2>4. Good(r)
    <3>1. CASE req'[r].pc = "commit" /\ \E x \in References : Saves(m, "EXTRACTED", x)
      <4>1. Fields(m)'.status = "EXTRACTED"
        BY <3>1, SavedFields
      <4>2. QED
        BY <2>1, <3>1, <4>1
    <3>2. CASE ~Works(req'[r])
      BY <3>2
    <3>3. CASE /\ Known(m) # {} /\ Fields(m).status \in Reviewable
               /\ memory'[m] = Known(m)
      <4>1. Fields(m)' = Fields(m) /\ payload' = payload
        BY <2>1, <3>3, KnownAfter DEF tables
      <4>2. payload[m] # {}
        <5>1. Fields(m).status # "EXTRACTED" /\ Fields(m).status # "REJECTED"
          BY <3>3 DEF Reviewable
        <5>2. SUFFICES ASSUME payload[m] = {} PROVE FALSE
          OBVIOUS
        <5>3. memory[m] # {} /\ \A f \in memory[m] : f.status = "EXTRACTED"
          BY <3>3, <5>2 DEF Known, RowInv, Row
        <5>4. Fields(m) \in memory[m]
          BY <1>1, <5>3, FieldsAreKnown DEF StateTyped
        <5>5. QED
          BY <5>1, <5>3, <5>4
      <4>3. QED
        BY <2>1, <3>3, <4>1, <4>2 DEF Reviewable
    <3>4. QED
      BY <1>5, <3>1, <3>2, <3>3, NewKnown
  <2> HIDE DEF Alone, Good
  <2>5. QED
    BY <1>2, <2>2, <2>3, <2>4
<1>6. CASE Restart
  <2>1. \A s \in Callers : req'[s].pc = "idle"
    BY <1>6 DEF Restart, NoRequests, IdleRequest
  <2>2. Alone /\ \A s \in Callers : Good(s)
    BY <1>3, <2>1
  <2> HIDE DEF Alone, Good
  <2>3. QED
    BY <1>2, <2>2
<1>7. CASE UNCHANGED vars
  <2>1. memory' = memory /\ payload' = payload /\ req' = req
    BY <1>7 DEF vars, tables
  <2>2. \A m \in Remittances : Fields(m)' = Fields(m)
    BY <2>1, KnownAfter
  <2>3. QED
    BY <2>1, <2>2 DEF BusyInv, At, Rem
<1>8. QED
  BY <1>4, <1>5, <1>6, <1>7 DEF Next
\* Of the steps of a run, the search of the table alone clears a remittance.
LEMMA RunClears ==
    ASSUME NEW r \in Callers, RunStep(r) \/ Failure(r)
    PROVE  /\ UNCHANGED <<corrected, reloaded>>
           /\ \/ cleared' \subseteq cleared
              \/ /\ SearchTable(r) /\ InTable(Rem(r)) = {}
                 /\ cleared' = cleared \cup {Rem(r)}
<1>1. CASE SearchMemory(r)
  BY <1>1 DEF SearchMemory, Judge, watch
<1>2. CASE SearchTable(r)
  BY <1>2 DEF SearchTable, Judge
<1>3. CASE Failure(r)
  BY <1>3 DEF Failure, CommitFails, StoreFails
<1>4. CASE \/ Commit(r) \/ Audit(r) \/ Store(r) \/ RouteToApply(r) \/ RouteNowhere(r)
           \/ ApplyFails(r) \/ RunFails(r) \/ Answer(r)
  BY <1>4 DEF Commit, Audit, Store, RouteToApply, RouteNowhere, ApplyFails, RunFails,
              Answer, watch
<1>5. CASE (\E suits \in BOOLEAN : SaveMatch(r, suits)) \/ RouteToReview(r) \/ Apply(r)
            \/ ApplyRefused(r)
  BY <1>5 DEF SaveMatch, RouteToReview, Apply, ApplyRefused, watch
<1>6. QED
  BY <1>1, <1>2, <1>3, <1>4, <1>5 DEF RunStep

\* A row is kept by a step that leaves it, or loads it, or saves the fields in
\* memory with the same reference, or commits them.
LEMMA RowKept ==
    ASSUME Typed, NEW m \in Remittances, Row(m),
           UNCHANGED <<corrected, reloaded>>,
           m \in cleared' => m \in cleared \/ payload[m] # {},
           \/ /\ payload'[m] = payload[m] /\ column'[m] = column[m]
              /\ \/ memory'[m] = memory[m]
                 \/ memory[m] = {} /\ memory'[m] = payload[m]
           \/ Upsert(m) /\ memory' = memory /\ memory[m] # {}
           \/ /\ payload[m] # {} /\ Known(m) # {}
              /\ \E status : Saves(m, status, Fields(m).reference)
    PROVE  Row(m)'
<1>1. StateTyped
  BY TypedParts
<1>2. CASE /\ payload'[m] = payload[m] /\ column'[m] = column[m]
           /\ \/ memory'[m] = memory[m]
              \/ memory[m] = {} /\ memory'[m] = payload[m]
  BY <1>2 DEF Row
<1>3. CASE Upsert(m) /\ memory' = memory /\ memory[m] # {}
  <2>1. /\ payload'[m] = memory[m] /\ memory'[m] = memory[m]
        /\ column[m] # {} => column'[m] = column[m]
        /\ column[m] = {} => column'[m] = {f.reference : f \in memory[m]}
    BY <1>1, <1>3, UpsertMoves
  <2>2. PICK f : memory[m] = {f}
    <3>1. PICK f : f \in memory[m]
      BY <1>3
    <3>2. memory[m] = {f}
      BY <3>1 DEF Row
    <3>3. QED
      BY <3>2
  <2>3. m \notin corrected => column'[m] = {f.reference}
    <3>1. CASE payload[m] = {}
      <4>1. column[m] = {}
        BY <3>1 DEF Row
      <4>2. {g.reference : g \in {f}} = {f.reference}
        OBVIOUS
      <4>3. QED
        BY <2>1, <2>2, <4>1, <4>2
    <3>2. CASE payload[m] # {}
      <4>1. m \notin corrected => column[m] = {f.reference}
        BY <2>2, <3>2 DEF Row
      <4>2. QED
        BY <2>1, <4>1
    <3>3. QED
      BY <3>1, <3>2
  <2>4. QED
    BY <2>1, <2>2, <2>3 DEF Row
<1>4. CASE /\ payload[m] # {} /\ Known(m) # {}
           /\ \E status : Saves(m, status, Fields(m).reference)
  <2>1. PICK f : /\ memory'[m] = {f} /\ f.reference = Fields(m).reference
                 /\ payload' = payload /\ column' = column
    BY <1>4, SavedFields
  <2>2. m \notin corrected => \A g \in payload[m] : f.reference = g.reference
    <3>1. Fields(m) \in memory[m] \cup payload[m]
      BY <1>1, <1>4, FieldsAreKnown DEF StateTyped, Known
    <3>2. QED
      BY <2>1, <3>1 DEF Row
  <2>3. QED
    BY <1>4, <2>1, <2>2 DEF Row
<1>5. QED
  BY <1>2, <1>3, <1>4

LEMMA RowStep == Typed /\ BusyInv /\ RowInv /\ [Next]_vars => RowInv'
<1> SUFFICES ASSUME Typed, BusyInv, RowInv, [Next]_vars PROVE RowInv'
  OBVIOUS
<1>1. StateTyped /\ ThreadInv /\ minted \in Nat
  BY TypedParts
<1>2. (\A m \in Remittances : Row(m)) /\ reloaded \subseteq corrected
  BY DEF RowInv
<1>3. ASSUME NEW r \in Callers, RunStep(r) \/ Failure(r) PROVE RowInv'
  <2>1. PICK k : k = Rem(r)
    OBVIOUS
  <2>2. k \in Remittances /\ memory[k] # {}
    BY <1>3, <2>1, RunKnown
  <2>3. UNCHANGED <<corrected, reloaded>>
    BY <1>3, RunClears
  <2>4. req[r].pc \in {"search_table", "save_match", "route", "apply"} => payload[k] # {}
    BY <2>1, <2>2 DEF BusyInv, Works, At
  <2>5. \A m \in Remittances : m \in cleared' => m \in cleared \/ payload[m] # {}
    <3>1. cleared' \subseteq cleared \/ (req[r].pc = "search_table" /\ cleared' = cleared \cup {k})
      BY <1>3, <2>1, RunClears DEF SearchTable, At
    <3>2. QED
      BY <2>4, <3>1
  <2>6. ASSUME NEW m \in Remittances, m # k PROVE Row(m)'
    BY <1>2, <1>3, <2>1, <2>3, <2>5, <2>6, RunKnown, RowKept
  <2>7. Row(k)'
    <3>1. Known(k) # {}
      BY <2>2 DEF Known
    <3>2. \/ /\ payload'[k] = payload[k] /\ column'[k] = column[k]
             /\ memory'[k] = memory[k]
          \/ Upsert(k) /\ memory' = memory /\ memory[k] # {}
          \/ /\ payload[k] # {} /\ Known(k) # {}
             /\ \E status : Saves(k, status, Fields(k).reference)
      BY <1>3, <2>1, <2>2, <2>4, <3>1, RunKnown DEF tables
    <3>3. QED
      BY <1>2, <2>2, <2>3, <2>5, <3>2, RowKept
  <2>8. QED
    BY <1>2, <2>3, <2>6, <2>7 DEF RowInv
<1>4. ASSUME NEW r \in Callers, NEW m \in Remittances,
             ReviewStep(r, m) \/ \E x \in References : Ingest(r, m, x)
      PROVE  RowInv'
  <2>1. /\ UNCHANGED tables /\ reloaded' = reloaded
        /\ \A n \in Remittances \ {m} : memory'[n] = memory[n]
        /\ cleared' \subseteq cleared
        /\ corrected' = corrected \/ corrected' = corrected \cup {m}
    BY <1>4, NewKnown
  <2>2. ASSUME NEW n \in Remittances, n # m PROVE Row(n)'
    BY <1>2, <2>1, <2>2 DEF tables, Row
  <2>3. Row(m)'
    <3>1. CASE /\ Known(m) = {} /\ UNCHANGED <<cleared, corrected, reloaded>>
               /\ \E x \in References : Saves(m, "EXTRACTED", x)
      <4>1. memory[m] = {} /\ payload[m] = {}
        BY <3>1 DEF Known
      <4>2. PICK f : /\ memory'[m] = {f} /\ f.status = "EXTRACTED"
                     /\ payload' = payload /\ column' = column
        BY <3>1, SavedFields
      <4>3. QED
        BY <1>2, <3>1, <4>1, <4>2 DEF Row
    <3>2. CASE /\ Known(m) # {} /\ Fields(m).status \in Reviewable
               /\ cleared' = cleared \ {m} /\ corrected' = corrected \cup {m}
               /\ \E x \in References : Saves(m, "EXTRACTED", x)
      <4>1. PICK f : /\ memory'[m] = {f} /\ f.status = "EXTRACTED"
                     /\ payload' = payload /\ column' = column
        BY <3>2, SavedFields
      <4>2. QED
        BY <1>2, <3>2, <4>1 DEF Row
    <3>3. ASSUME Known(m) # {}, Fields(m).status \in Reviewable PROVE payload[m] # {}
      <4>1. SUFFICES ASSUME payload[m] = {} PROVE FALSE
        OBVIOUS
      <4>2. memory[m] # {} /\ \A f \in memory[m] : f.status = "EXTRACTED"
        BY <1>2, <3>3, <4>1 DEF Known, Row
      <4>3. Fields(m) \in memory[m]
        BY <1>1, <4>2, FieldsAreKnown DEF StateTyped
      <4>4. QED
        BY <3>3, <4>2, <4>3 DEF Reviewable
    <3>4. CASE /\ Known(m) # {} /\ Fields(m).status \in Reviewable
               /\ UNCHANGED <<cleared, corrected, reloaded>>
               /\ \E status \in Status : Saves(m, status, Fields(m).reference)
      BY <1>2, <3>3, <3>4, RowKept
    <3>5. CASE /\ Known(m) # {} /\ Fields(m).status \in Reviewable
               /\ UNCHANGED <<cleared, corrected, reloaded>>
               /\ memory'[m] = Known(m)
      BY <1>2, <2>1, <3>5, RowKept DEF Known, tables
    <3>6. QED
      BY <1>4, <3>1, <3>2, <3>4, <3>5, NewKnown
  <2>4. QED
    BY <1>2, <2>1, <2>2, <2>3 DEF RowInv
<1>5. CASE Restart
  <2>1. /\ \A m \in Remittances : memory'[m] = {}
        /\ payload' = payload /\ column' = column
        /\ reloaded' = corrected /\ corrected' = corrected /\ cleared' = cleared
    BY <1>5 DEF Restart, Nothing, tables
  <2>2. QED
    BY <1>2, <2>1 DEF Row, RowInv
<1>6. CASE UNCHANGED vars
  BY <1>2, <1>6 DEF vars, tables, watch, Row, RowInv
<1>7. QED
  BY <1>3, <1>4, <1>5, <1>6 DEF Next
---------------------------------------------------------------------------
(* Duplicates are found, restarts included.                                *)

Ref(m) == Fields(m).reference

\* The search of the table would find it by its reference.
InTheTable(m) == m \notin corrected /\ \A f \in payload[m] : f.status # "REJECTED"

\* It is not rejected, or would not be after a restart.
MayLive(m) == Fields(m).status # "REJECTED" \/ InTheTable(m)

\* Two threads between their searches do not look for the same reference, and what
\* the first search has not found is left for the second.
DupInv ==
    /\ \A m, n \in cleared \ reloaded : m # n /\ MayLive(m) /\ MayLive(n) => Ref(m) # Ref(n)
    /\ \A r \in Callers, m \in Remittances, n \in cleared \ reloaded :
         /\ At(r, "search_table") /\ Rem(r) = m /\ n # m
         /\ MayLive(n) /\ Ref(n) = Ref(m)
         => InTheTable(n)
    /\ \A r, s \in Callers, m, n \in Remittances :
         /\ At(r, "search_table") /\ Rem(r) = m
         /\ At(s, "search_table") /\ Rem(s) = n /\ r # s
         => Ref(m) # Ref(n)

\* A step preserves it that clears no remittance, lets none live, starts no second
\* search, and leaves in the table what was there.
LEMMA DupKept ==
    ASSUME DupInv, cleared \subseteq Remittances,
           cleared' \ reloaded' \subseteq cleared \ reloaded,
           \A m \in cleared' \ reloaded' :
              /\ Ref(m)' = Ref(m)
              /\ MayLive(m)' => MayLive(m) /\ (InTheTable(m) => InTheTable(m)'),
           \A r \in Callers : req'[r].pc = "search_table" =>
              /\ req[r].pc = "search_table" /\ req'[r].rem = req[r].rem
              /\ \A m \in Remittances : m = req[r].rem => Ref(m)' = Ref(m)
    PROVE  DupInv'
<1>1. \A m, n \in cleared' \ reloaded' :
        m # n /\ MayLive(m)' /\ MayLive(n)' => Ref(m)' # Ref(n)'
  BY DEF DupInv
<1>2. ASSUME NEW r \in Callers, NEW m \in Remittances, NEW n \in cleared' \ reloaded',
             req'[r].pc = "search_table", req'[r].rem = m, n # m,
             MayLive(n)', Ref(n)' = Ref(m)'
      PROVE  InTheTable(n)'
  <2>1. At(r, "search_table") /\ Rem(r) = m /\ Ref(m)' = Ref(m)
    BY <1>2 DEF At, Rem
  <2>2. Ref(n)' = Ref(n) /\ MayLive(n) /\ n \in cleared \ reloaded
    BY <1>2
  <2>3. InTheTable(n)
    BY <1>2, <2>1, <2>2 DEF DupInv
  <2>4. QED
    BY <1>2, <2>3
<1>3. ASSUME NEW r \in Callers, NEW s \in Callers, NEW m \in Remittances, NEW n \in Remittances,
             req'[r].pc = "search_table", req'[r].rem = m,
             req'[s].pc = "search_table", req'[s].rem = n, r # s
      PROVE  Ref(m)' # Ref(n)'
  BY <1>3 DEF DupInv, At, Rem
<1>4. QED
  BY <1>1, <1>2, <1>3 DEF DupInv, At, Rem

\* Saving the remittance a thread works on, which is not rejected, or committing
\* it, is such a step.
LEMMA LivingKept ==
    ASSUME Typed, RowInv, NEW m \in Remittances, corrected' = corrected,
           \/ Known(m)' = Known(m) /\ payload'[m] = payload[m]
           \/ Upsert(m) /\ memory' = memory /\ memory[m] # {}
           \/ /\ Fields(m).status # "REJECTED"
              /\ \E status : Saves(m, status, Ref(m))
    PROVE  /\ Ref(m)' = Ref(m)
           /\ MayLive(m)' => MayLive(m) /\ (InTheTable(m) => InTheTable(m)')
<1>1. StateTyped
  BY TypedParts
<1>2. CASE Known(m)' = Known(m) /\ payload'[m] = payload[m]
  <2>1. Fields(m)' = Fields(m)
    BY <1>2, KnownAfter
  <2>2. QED
    BY <1>2, <2>1 DEF Ref, MayLive, InTheTable
<1>3. CASE Upsert(m) /\ memory' = memory /\ memory[m] # {}
  <2>1. Fields(m)' = Fields(m) /\ payload'[m] = memory[m]
    BY <1>1, <1>3, KnownAfter, UpsertMoves
  <2>2. \A f \in memory[m] : f = Fields(m)
    BY <1>1, <1>3, FieldsAreKnown DEF StateTyped, RowInv, Row
  <2>3. Fields(m) \in memory[m]
    BY <1>1, <1>3, FieldsAreKnown DEF StateTyped
  <2>4. QED
    BY <2>1, <2>2, <2>3 DEF Ref, MayLive, InTheTable
<1>4. CASE /\ Fields(m).status # "REJECTED"
           /\ \E status : Saves(m, status, Ref(m))
  <2>1. PICK f : Fields(m)' = f /\ f.reference = Ref(m) /\ payload' = payload
    BY <1>4, SavedFields
  <2>2. QED
    BY <1>4, <2>1 DEF Ref, MayLive, InTheTable
<1>5. QED
  BY <1>2, <1>3, <1>4

\* Where the fields go in a run.
LEMMA RunLiving ==
    ASSUME Typed, BusyInv, RowInv, NEW r \in Callers, RunStep(r) \/ Failure(r),
           NEW m \in Remittances
    PROVE  /\ Ref(m)' = Ref(m)
           /\ MayLive(m)' => MayLive(m) /\ (InTheTable(m) => InTheTable(m)')
<1>1. PICK k : k = Rem(r)
  OBVIOUS
<1>2. k \in Remittances /\ memory[k] # {}
  BY <1>1, RunKnown
<1>3. corrected' = corrected
  BY RunClears
<1>4. CASE m # k
  <2>1. Known(m)' = Known(m) /\ payload'[m] = payload[m]
    BY <1>1, <1>4, OthersAreKnown, RunKnown
  <2>2. QED
    BY <1>3, <2>1, LivingKept
<1>5. CASE m = k
  <2>1. req[r].pc \in {"save_match", "route", "apply"} => Fields(k).status # "REJECTED"
    BY <1>1, <1>2 DEF BusyInv, Works
  <2>2. \/ UNCHANGED tables /\ memory'[k] = memory[k]
        \/ Upsert(k) /\ memory' = memory
        \/ /\ Fields(k).status # "REJECTED"
           /\ \E status : Saves(k, status, Ref(k))
    BY <1>1, <2>1, RunKnown DEF Ref
  <2>3. memory'[k] = memory[k] => Known(k)' = Known(k)
    BY <1>2, KnownAfter
  <2>4. QED
    BY <1>2, <1>3, <1>5, <2>2, <2>3, LivingKept DEF tables
<1>6. QED
  BY <1>4, <1>5

\* The search of memory: what it does not find, though it may live, is not cached,
\* and has not been corrected.
LEMMA MemorySearched ==
    ASSUME Typed, RowInv, NEW m \in Remittances, ~InMemory(m),
           NEW n \in cleared \ reloaded, n # m, MayLive(n), Ref(n) = Ref(m)
    PROVE  InTheTable(n)
<1>1. StateTyped /\ n \in Remittances
  BY TypedParts DEF Typed, TypeOK
<1>2. CASE Fields(n).status = "REJECTED"
  BY <1>2 DEF MayLive
<1>3. CASE Fields(n).status # "REJECTED"
  <2>1. payload[n] # {}
    BY <1>1 DEF RowInv, Row
  <2>2. Known(n) # {}
    BY <2>1 DEF Known
  <2>3. memory[n] = {}
    BY <1>1, <1>3, <2>2 DEF InMemory, Live, SameReference, Ref
  <2>4. n \notin corrected
    BY <1>1, <2>3 DEF RowInv, Row
  <2>5. Fields(n) \in payload[n]
    BY <1>1, <2>2, <2>3, FieldsAreKnown DEF StateTyped
  <2>6. \A f \in payload[n] : f = Fields(n)
    BY <1>1, <2>5 DEF RowInv, Row
  <2>7. QED
    BY <1>3, <2>4, <2>6 DEF InTheTable
<1>4. QED
  BY <1>2, <1>3

\* The search of the table finds every remittance that is in it.
LEMMA TableSearched ==
    ASSUME Typed, RowInv, NEW m \in Remittances,
           NEW n \in cleared, n # m, InTheTable(n), Ref(n) = Ref(m)
    PROVE  n \in InTable(m)
<1>1. StateTyped /\ n \in Remittances
  BY TypedParts DEF Typed, TypeOK
<1>2. payload[n] # {} /\ n \notin corrected
  BY <1>1 DEF RowInv, Row, InTheTable
<1>3. PICK g : g \in payload[n]
  BY <1>2
<1>4. column[n] = {g.reference}
  BY <1>1, <1>2, <1>3 DEF RowInv, Row
<1>5. Fields(n).reference = g.reference
  <2>1. Known(n) # {}
    BY <1>2 DEF Known
  <2>2. Fields(n) \in memory[n] \cup payload[n]
    BY <1>1, <2>1, FieldsAreKnown DEF StateTyped, Known
  <2>3. QED
    BY <1>1, <1>2, <1>3, <2>2 DEF RowInv, Row
<1>6. QED
  BY <1>1, <1>4, <1>5 DEF InTable, InTheTable, Ref
\* A thread comes to its second search from the first one, which has found nothing.
LEMMA SecondSearch ==
    ASSUME Typed, NEW r \in Callers, RunStep(r) \/ Failure(r), req'[r].pc = "search_table"
    PROVE  SearchMemory(r) /\ ~InMemory(Rem(r))
<1>1. StateTyped /\ ThreadInv /\ minted \in Nat
  BY TypedParts
<1>2. CASE SearchMemory(r)
  <2>1. InMemory(Rem(r)) => Judge(r, TRUE)
    BY <1>2 DEF SearchMemory
  <2>2. req[r] \in Request
    BY <1>1 DEF StateTyped
  <2>3. Judge(r, TRUE) => req'[r].pc = "save_match"
    BY <1>1, <2>2 DEF Judge, StateTyped, Request
  <2>4. QED
    BY <1>2, <2>1, <2>3
<1>3. ~Commit(r)
  BY <1>1, SaveMoves DEF StateTyped, Commit, ThreadInv, At
<1>4. ~Audit(r) /\ ~Store(r)
  BY <1>1, SaveMoves DEF StateTyped
<1>5. ~RunFails(r) /\ ~Answer(r) /\ ~Failure(r)
  BY <1>1, EndingMoves DEF StateTyped, Failure
<1>6. /\ ~SearchTable(r) /\ ~RouteToApply(r) /\ ~RouteNowhere(r) /\ ~ApplyFails(r)
      /\ ~\E suits \in BOOLEAN : SaveMatch(r, suits)
      /\ ~RouteToReview(r) /\ ~Apply(r) /\ ~ApplyRefused(r)
  BY <1>1, RunMoves DEF StateTyped
<1>7. QED
  BY <1>2, <1>3, <1>4, <1>5, <1>6 DEF RunStep

\* A first search that finds nothing leaves the rest to the second.
LEMMA DupMemory ==
    ASSUME Typed, BusyInv, RowInv, DupInv,
           NEW r \in Callers, SearchMemory(r), ~InMemory(Rem(r))
    PROVE  DupInv'
<1>1. StateTyped /\ ThreadInv /\ cleared \subseteq Remittances
  BY TypedParts DEF Typed, TypeOK
<1>2. PICK k : k = Rem(r)
  OBVIOUS
<1>3. k \in Remittances /\ memory[k] # {} /\ OnlyMoves(r) /\ req'[r].rem = k
  BY <1>1, <1>2, RunKnown, RunMoves DEF RunStep, StateTyped, StaysOn
<1>4. UNCHANGED <<memory, payload, cleared, corrected, reloaded>>
  BY DEF SearchMemory, tables, watch
<1>5. \A m : Ref(m)' = Ref(m) /\ MayLive(m)' = MayLive(m) /\ InTheTable(m)' = InTheTable(m)
  BY <1>4 DEF Ref, MayLive, InTheTable, Fields, Known
<1>6. ASSUME NEW s \in Callers, s # r, At(s, "search_table"), NEW n \in Remittances, Rem(s) = n
      PROVE  Ref(n) # Ref(k)
  <2>1. Fields(n).status # "REJECTED" /\ memory[n] # {}
    BY <1>1, <1>6 DEF BusyInv, Works, At, ThreadInv
  <2>2. n # k
    BY <1>2, <1>6 DEF BusyInv, At, SearchMemory
  <2>3. Live(n)
    BY <2>1 DEF Live, Known
  <2>4. QED
    BY <1>2, <2>1, <2>2, <2>3 DEF InMemory, SameReference, Ref
<1>7. \A s \in Callers : s # r => req'[s] = req[s]
  BY <1>3 DEF OnlyMoves
<1>8. ASSUME NEW s \in Callers, NEW m \in Remittances, NEW n \in cleared' \ reloaded',
             req'[s].pc = "search_table", req'[s].rem = m, n # m,
             MayLive(n)', Ref(n)' = Ref(m)'
      PROVE  InTheTable(n)'
  <2>1. n \in cleared \ reloaded /\ MayLive(n) /\ Ref(n) = Ref(m)
    BY <1>4, <1>5, <1>8
  <2>2. CASE s = r
    BY <1>2, <1>3, <1>5, <1>8, <2>1, <2>2, MemorySearched
  <2>3. CASE s # r
    BY <1>5, <1>7, <1>8, <2>1, <2>3 DEF DupInv, At, Rem
  <2>4. QED
    BY <2>2, <2>3
<1>9. ASSUME NEW s \in Callers, NEW t \in Callers, NEW m \in Remittances, NEW n \in Remittances,
             req'[s].pc = "search_table", req'[s].rem = m,
             req'[t].pc = "search_table", req'[t].rem = n, s # t
      PROVE  Ref(m)' # Ref(n)'
  <2>1. CASE s = r
    BY <1>3, <1>5, <1>6, <1>7, <1>9, <2>1 DEF At, Rem
  <2>2. CASE t = r
    BY <1>3, <1>5, <1>6, <1>7, <1>9, <2>2 DEF At, Rem
  <2>3. CASE s # r /\ t # r
    BY <1>5, <1>7, <1>9, <2>3 DEF DupInv, At, Rem
  <2>4. QED
    BY <2>1, <2>2, <2>3
<1>10. \A m, n \in cleared' \ reloaded' :
         m # n /\ MayLive(m)' /\ MayLive(n)' => Ref(m)' # Ref(n)'
  BY <1>4, <1>5 DEF DupInv
<1>11. QED
  BY <1>8, <1>9, <1>10 DEF DupInv, At, Rem

\* A second search that finds nothing clears a remittance that no other one that
\* may live has the reference of.
LEMMA DupTable ==
    ASSUME Typed, BusyInv, RowInv, DupInv, NEW r \in Callers, SearchTable(r),
           InTable(Rem(r)) = {}, cleared' = cleared \cup {Rem(r)}
    PROVE  DupInv'
<1>1. StateTyped /\ ThreadInv /\ cleared \subseteq Remittances
  BY TypedParts DEF Typed, TypeOK
<1>2. PICK k : k = Rem(r)
  OBVIOUS
<1>3. /\ k \in Remittances /\ OnlyMoves(r) /\ req'[r].pc = "save_match"
      /\ At(r, "search_table")
  BY <1>1, <1>2, RunKnown, RunMoves DEF RunStep, StateTyped, StaysOn, SearchTable
<1>4. UNCHANGED <<memory, payload, corrected, reloaded>> /\ cleared' = cleared \cup {k}
  BY <1>2 DEF SearchTable, Judge, tables
<1>5. \A m : Ref(m)' = Ref(m) /\ MayLive(m)' = MayLive(m) /\ InTheTable(m)' = InTheTable(m)
  BY <1>4 DEF Ref, MayLive, InTheTable, Fields, Known
<1>6. ASSUME NEW n \in cleared \ reloaded, n # k, MayLive(n) PROVE Ref(n) # Ref(k)
  <2>1. SUFFICES ASSUME Ref(n) = Ref(k) PROVE FALSE
    OBVIOUS
  <2>2. InTheTable(n)
    BY <1>2, <1>3, <1>6, <2>1 DEF DupInv
  <2>3. n \in InTable(k)
    BY <1>3, <1>6, <2>1, <2>2, TableSearched
  <2>4. QED
    BY <1>2, <2>3
<1>7. \A m, n \in cleared' \ reloaded' :
        m # n /\ MayLive(m)' /\ MayLive(n)' => Ref(m)' # Ref(n)'
  <2>1. ASSUME NEW m \in cleared \ reloaded, NEW n \in cleared \ reloaded,
               m # n, MayLive(m), MayLive(n)
        PROVE  Ref(m) # Ref(n)
    BY <2>1 DEF DupInv
  <2>2. QED
    BY <1>4, <1>5, <1>6, <2>1
<1>8. \A s \in Callers : req'[s].pc = "search_table" => s # r /\ req'[s] = req[s]
  BY <1>3 DEF OnlyMoves
<1>9. ASSUME NEW s \in Callers, NEW m \in Remittances, NEW n \in cleared' \ reloaded',
             req'[s].pc = "search_table", req'[s].rem = m, n # m,
             MayLive(n)', Ref(n)' = Ref(m)'
      PROVE  InTheTable(n)'
  <2>1. s # r /\ At(s, "search_table") /\ Rem(s) = m
    BY <1>8, <1>9 DEF At, Rem
  <2>2. Ref(m) # Ref(k)
    BY <1>2, <1>3, <2>1 DEF DupInv
  <2>3. n \in cleared \ reloaded /\ MayLive(n) /\ Ref(n) = Ref(m)
    BY <1>4, <1>5, <1>9, <2>2
  <2>4. InTheTable(n)
    BY <1>9, <2>1, <2>3 DEF DupInv
  <2>5. QED
    BY <1>5, <2>4
<1>10. ASSUME NEW s \in Callers, NEW t \in Callers, NEW m \in Remittances, NEW n \in Remittances,
              req'[s].pc = "search_table", req'[s].rem = m,
              req'[t].pc = "search_table", req'[t].rem = n, s # t
       PROVE  Ref(m)' # Ref(n)'
  BY <1>5, <1>8, <1>10 DEF DupInv, At, Rem
<1>11. QED
  BY <1>7, <1>9, <1>10 DEF DupInv, At, Rem

LEMMA DupStep == Typed /\ BusyInv /\ RowInv /\ DupInv /\ [Next]_vars => DupInv'
<1> SUFFICES ASSUME Typed, BusyInv, RowInv, DupInv, [Next]_vars PROVE DupInv'
  OBVIOUS
<1>1. StateTyped /\ ThreadInv /\ minted \in Nat /\ cleared \subseteq Remittances
  BY TypedParts DEF Typed, TypeOK
<1>2. ASSUME NEW r \in Callers, RunStep(r) \/ Failure(r) PROVE DupInv'
  <2>1. CASE SearchMemory(r) /\ ~InMemory(Rem(r))
    BY <2>1, DupMemory
  <2>2. CASE SearchTable(r) /\ InTable(Rem(r)) = {} /\ cleared' = cleared \cup {Rem(r)}
    BY <2>2, DupTable
  <2>3. CASE req'[r].pc # "search_table" /\ cleared' \subseteq cleared
    <3>1. OnlyMoves(r) /\ UNCHANGED reloaded
      BY <1>1, <1>2, OneThreadMoves, RunClears
    <3>2. \A m \in Remittances :
            /\ Ref(m)' = Ref(m)
            /\ MayLive(m)' => MayLive(m) /\ (InTheTable(m) => InTheTable(m)')
      BY <1>2, RunLiving
    <3>3. \A s \in Callers : req'[s].pc = "search_table" =>
            /\ req[s].pc = "search_table" /\ req'[s].rem = req[s].rem
            /\ \A m \in Remittances : m = req[s].rem => Ref(m)' = Ref(m)
      BY <2>3, <3>1, <3>2 DEF OnlyMoves
    <3>4. QED
      BY <1>1, <2>3, <3>1, <3>2, <3>3, DupKept
  <2>4. QED
    BY <1>2, <2>1, <2>2, <2>3, SecondSearch, RunClears
<1>3. ASSUME NEW r \in Callers, NEW m \in Remittances,
             ReviewStep(r, m) \/ \E x \in References : Ingest(r, m, x)
      PROVE  DupInv'
  <2>1. /\ OnlyMoves(r) /\ ~Busy(m) /\ req'[r].pc # "search_table"
        /\ UNCHANGED tables /\ \A n \in Remittances \ {m} : memory'[n] = memory[n]
        /\ UNCHANGED reloaded /\ cleared' \subseteq cleared
    BY <1>3, NewKnown
  <2>2. ASSUME NEW n \in Remittances, n # m
        PROVE  /\ Ref(n)' = Ref(n)
               /\ MayLive(n)' => MayLive(n) /\ (InTheTable(n) => InTheTable(n)')
    <3>1. Known(n)' = Known(n) /\ payload' = payload
      BY <2>1, <2>2, KnownAfter DEF tables
    <3>2. n \in corrected' <=> n \in corrected
      BY <1>3, <2>2, NewKnown
    <3>3. Fields(n)' = Fields(n)
      BY <3>1, KnownAfter
    <3>4. QED
      BY <3>1, <3>2, <3>3 DEF Ref, MayLive, InTheTable
  <2>3. ASSUME m \in cleared'
        PROVE  /\ Ref(m)' = Ref(m)
               /\ MayLive(m)' => MayLive(m) /\ (InTheTable(m) => InTheTable(m)')
    <3>1. payload[m] # {} /\ Known(m) # {}
      BY <2>1, <2>3 DEF RowInv, Row, Known
    <3>2. /\ Fields(m).status \in Reviewable /\ corrected' = corrected
          /\ \/ \E status : Saves(m, status, Ref(m))
             \/ memory'[m] = Known(m)
      BY <1>3, <2>3, <3>1, NewKnown DEF Ref
    <3>3. memory'[m] = Known(m) => Known(m)' = Known(m)
      BY <3>1, KnownAfter
    <3>4. payload' = payload /\ Fields(m).status # "REJECTED"
      BY <2>1, <3>2 DEF tables, Reviewable
    <3>5. QED
      BY <3>2, <3>3, <3>4, LivingKept
  <2>4. \A s \in Callers : req'[s].pc = "search_table" =>
          /\ req[s].pc = "search_table" /\ req'[s].rem = req[s].rem
          /\ req[s].rem # m
    BY <2>1 DEF OnlyMoves, Busy, At, Rem
  <2>5. cleared' \ reloaded' \subseteq cleared \ reloaded
    BY <2>1
  <2>6. \A n \in cleared' \ reloaded' :
          /\ Ref(n)' = Ref(n)
          /\ MayLive(n)' => MayLive(n) /\ (InTheTable(n) => InTheTable(n)')
    BY <1>1, <2>2, <2>3, <2>5
  <2>7. \A s \in Callers : req'[s].pc = "search_table" =>
          /\ req[s].pc = "search_table" /\ req'[s].rem = req[s].rem
          /\ \A n \in Remittances : n = req[s].rem => Ref(n)' = Ref(n)
    BY <2>2, <2>4
  <2>8. QED
    BY <1>1, <2>5, <2>6, <2>7, DupKept
<1>4. CASE Restart
  <2>1. /\ \A m \in Remittances : memory'[m] = {}
        /\ payload' = payload
        /\ reloaded' = corrected /\ corrected' = corrected /\ cleared' = cleared
        /\ \A s \in Callers : req'[s].pc = "idle"
    BY <1>4 DEF Restart, Nothing, NoRequests, IdleRequest, tables
  <2>2. ASSUME NEW m \in cleared' \ reloaded'
        PROVE  /\ m \in cleared \ reloaded
               /\ Ref(m)' = Ref(m)
               /\ MayLive(m)' => MayLive(m) /\ (InTheTable(m) => InTheTable(m)')
    <3>1. /\ m \in Remittances /\ m \in cleared /\ m \notin corrected
          /\ reloaded \subseteq corrected /\ payload[m] # {}
      BY <1>1, <2>1, <2>2 DEF RowInv, Row
    <3>2. Known(m)' = payload[m] /\ Fields(m)' \in payload[m]
      BY <2>1, <3>1 DEF Known, Fields
    <3>3. Fields(m) \in memory[m] \cup payload[m]
      <4>1. Known(m) # {}
        BY <3>1 DEF Known
      <4>2. QED
        BY <1>1, <3>1, <4>1, FieldsAreKnown DEF StateTyped, Known
    <3>4. Fields(m)'.reference = Fields(m).reference
      BY <3>1, <3>2, <3>3 DEF RowInv, Row
    <3>5. InTheTable(m)' <=> InTheTable(m)
      BY <2>1 DEF InTheTable
    <3>6. Fields(m)'.status # "REJECTED" => InTheTable(m)
      BY <3>1, <3>2 DEF RowInv, Row, InTheTable
    <3>7. QED
      BY <3>1, <3>4, <3>5, <3>6 DEF Ref, MayLive
  <2>3. \A s \in Callers : req'[s].pc # "search_table"
    BY <2>1
  <2>4. QED
    BY <1>1, <2>2, <2>3, DupKept
<1>5. CASE UNCHANGED vars
  <2>1. UNCHANGED <<memory, payload, req, cleared, corrected, reloaded>>
    BY <1>5 DEF vars, tables, watch
  <2>2. \A m : Ref(m)' = Ref(m) /\ MayLive(m)' = MayLive(m) /\ InTheTable(m)' = InTheTable(m)
    BY <2>1 DEF Ref, MayLive, InTheTable, Fields, Known
  <2>3. QED
    BY <1>1, <2>1, <2>2, DupKept
<1>6. QED
  BY <1>2, <1>3, <1>4, <1>5 DEF Next

\* Of two remittances that pay the same reference, neither rejected, at most one
\* passed the duplicate check, in any interleaving of requests for different
\* remittances, failed writes and restarts included, until a correction is
\* reloaded.
THEOREM DuplicatesOutliveRestart == Spec => []DuplicateOutlivesRestart
<1> DEFINE IInv == Typed /\ BusyInv /\ RowInv /\ DupInv
<1>1. Init => IInv
  <2>1. Init => BusyInv /\ DupInv
    BY DEF Init, NoRequests, IdleRequest, BusyInv, DupInv, Works, At
  <2>2. Init => RowInv
    BY DEF Init, Nothing, RowInv, Row
  <2>3. QED
    BY <2>1, <2>2, TypedInit
<1>2. IInv /\ [Next]_vars => IInv'
  BY TypedStep, BusyStep, RowStep, DupStep
<1>3. ASSUME IInv PROVE DuplicateOutlivesRestart
  BY <1>3 DEF DupInv, MayLive, Ref, Live, SameReference, DuplicateOutlivesRestart
<1>4. IInv => DuplicateOutlivesRestart
  BY <1>3
<1> HIDE DEF IInv
<1>5. QED
  BY <1>1, <1>2, <1>4, PTL DEF Spec
=============================================================================
