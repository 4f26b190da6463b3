------------------------- MODULE DocumentIntakeProofs -------------------------
(***************************************************************************)
(* Theorems about DocumentIntake, for every set of documents, messages,    *)
(* threads and ids, every classifier, and every way contents can be keyed. *)
(***************************************************************************)
EXTENDS DocumentIntake, FiniteSetTheorems, SequenceTheorems, TLAPS

---------------------------------------------------------------------------
(* Types.                                                                  *)

\* A thread with nothing to do is well typed and holds nothing.
LEMMA IdleIsWork ==
    /\ IdleWork \in Work
    /\ IdleWork.pc = "idle"
    /\ IdleWork.fetched = {}
<1>1. (CHOOSE d \in Documents : TRUE) \in Documents
  BY IntakeConstants
<1>2. (CHOOSE e \in Ids : TRUE) \in Ids
  BY IntakeConstants
<1>3. QED
  BY <1>1, <1>2 DEF IdleWork, Work, Steps, Routes, Uploads, Kinds

\* Writing values of the right type into a thread's fields keeps it typed.
LEMMA WorkEdits ==
    ASSUME NEW q \in Work
    PROVE  /\ \A pc \in Steps : [q EXCEPT !.pc = pc] \in Work
           /\ \A route \in Routes : [q EXCEPT !.route = route] \in Work
           /\ \A mail \in Seq(Messages) : [q EXCEPT !.mail = mail] \in Work
           /\ \A queue \in Seq(Documents) : [q EXCEPT !.queue = queue] \in Work
           /\ \A D \in SUBSET Documents : [q EXCEPT !.fetched = D] \in Work
           /\ \A d \in Documents : [q EXCEPT !.doc = d] \in Work
           /\ \A hint \in Kinds : [q EXCEPT !.hint = hint] \in Work
           /\ \A kind \in Kinds : [q EXCEPT !.kind = kind] \in Work
           /\ \A e \in Ids : [q EXCEPT !.id = e] \in Work
           /\ \A passed \in BOOLEAN : [q EXCEPT !.passed = passed] \in Work
<1>1. \A pc \in Steps : [q EXCEPT !.pc = pc] \in Work
  BY DEF Work
<1>2. \A route \in Routes : [q EXCEPT !.route = route] \in Work
  BY DEF Work
<1>3. \A mail \in Seq(Messages) : [q EXCEPT !.mail = mail] \in Work
  BY DEF Work
<1>4. \A queue \in Seq(Documents) : [q EXCEPT !.queue = queue] \in Work
  BY DEF Work
<1>5. \A D \in SUBSET Documents : [q EXCEPT !.fetched = D] \in Work
  BY DEF Work
<1>6. \A d \in Documents : [q EXCEPT !.doc = d] \in Work
  BY DEF Work
<1>7. \A hint \in Kinds : [q EXCEPT !.hint = hint] \in Work
  BY DEF Work
<1>8. \A kind \in Kinds : [q EXCEPT !.kind = kind] \in Work
  BY DEF Work
<1>9. \A e \in Ids : [q EXCEPT !.id = e] \in Work
  BY DEF Work
<1>10. \A passed \in BOOLEAN : [q EXCEPT !.passed = passed] \in Work
  BY DEF Work
<1>11. QED
  BY <1>1, <1>2, <1>3, <1>4, <1>5, <1>6, <1>7, <1>8, <1>9, <1>10

\* A step of one thread leaves the others alone.
LEMMA Frame ==
    ASSUME work \in [Workers -> Work], NEW w \in Workers, NEW q, Become(w, q)
    PROVE  /\ work'[w] = q
           /\ \A v \in Workers \ {w} : work'[v] = work[v]
           /\ q \in Work => work' \in [Workers -> Work]
BY DEF Become

\* The messages of a poll are messages of the mailbox, in a sequence.
LEMMA FetchedIsMail ==
    ASSUME unread \subseteq Messages, NEW batch \in SetToSeqs(unread)
    PROVE  FetchedBy(batch) \in Seq(Messages)
<1>1. IsFiniteSet(unread)
  BY IntakeConstants, FS_Subset
<1>2. Cardinality(unread) \in Nat
  BY <1>1, FS_CardinalityType
<1>3. batch \in [1 .. Cardinality(unread) -> unread]
  BY DEF SetToSeqs
<1>4. batch \in Seq(Messages)
  BY <1>2, <1>3
<1>5. CASE Len(batch) <= PollSize
  BY <1>4, <1>5 DEF FetchedBy
<1>6. CASE ~(Len(batch) <= PollSize)
  <2>1. PollSize \in Nat /\ Len(batch) \in Nat /\ PollSize <= Len(batch)
    BY <1>4, <1>6, IntakeConstants
  <2>2. [n \in 1 .. PollSize |-> batch[n]] \in [1 .. PollSize -> Messages]
    BY <1>4, <2>1
  <2>3. [n \in 1 .. PollSize |-> batch[n]] \in Seq(Messages)
    BY <2>1, <2>2
  <2>4. QED
    BY <1>6, <2>3 DEF FetchedBy
<1>7. QED
  BY <1>5, <1>6

\* All the attachments of some messages are documents.
LEMMA AttachmentsAreDocuments ==
    ASSUME NEW mail \in Seq(Messages)
    PROVE  UNION {ToSet(Attachments[mail[n]]) : n \in DOMAIN mail} \subseteq Documents
<1>1. \A n \in DOMAIN mail : Attachments[mail[n]] \in Seq(Documents)
  BY IntakeConstants
<1>2. \A n \in DOMAIN mail : ToSet(Attachments[mail[n]]) \subseteq Documents
  BY <1>1 DEF ToSet
<1>3. QED
  BY <1>2

\* What is left of a thread's work when a document is done with.
LEMMA NextDocumentIsWork ==
    ASSUME work \in [Workers -> Work], NEW w \in Workers
    PROVE  /\ NextDocument(w) \in Work
           /\ NextDocument(w).pc \in {"next", "idle"}
           /\ NextDocument(w).mail = work[w].mail
           /\ NextDocument(w).queue = work[w].queue
           /\ NextDocument(w).fetched = work[w].fetched
BY IdleIsWork DEF NextDocument, Work, Steps

\* An id that is not used is drawn when there is one.
LEMMA NewIdIsUnused ==
    ASSUME Unused # {}
    PROVE  NewId \in Ids /\ ~Exists(NewId)
<1>1. NewId \in Unused
  BY DEF NewId
<1>2. QED
  BY <1>1 DEF Unused

\* Filing a document keeps the types of what it changes.
LEMMA FileTypes ==
    ASSUME TypeOK, NEW w \in Workers, File(w)
    PROVE  filed' \subseteq Documents /\ work' \in [Workers -> Work]
<1>1. work' \in [Workers -> Work]
  BY Frame, NextDocumentIsWork DEF TypeOK, File
<1>2. work[w].doc \in Documents
  BY DEF TypeOK, Work
<1>3. QED
  BY <1>1, <1>2 DEF TypeOK, File

LEMMA ClassificationIsKind ==
    ASSUME NEW found \in Kinds, NEW supervised \in Kinds
    PROVE  Classification(found, supervised) \in Kinds
BY DEF Classification, Kinds

\* What is extracted has been classified: an id of no kind is never saved.
ExtractsKnown ==
    \A w \in Workers : At(w, "extract") => work[w].kind # "unknown"

\* What a thread matches or decides has been saved; it is a remittance where
\* only a remittance is dealt with.
HandledExist ==
    \A w \in Workers :
        /\ At(w, "match") => Exists(work[w].id)
        /\ work[w].pc \in {"conclude", "decide"} => IsRemittance(work[w].id)

Typed == TypeOK /\ ExtractsKnown /\ HandledExist

\* A step of a thread keeps every variable within its type.
LEMMA StepTypes ==
    ASSUME Typed, NEW w \in Workers, Step(w)
    PROVE  TypeOK'
<1> DEFINE q == work[w]
<1>q. q \in Work /\ work \in [Workers -> Work]
  BY DEF Typed, TypeOK
<1>t. TypeOK
  BY DEF Typed
<1>f. /\ q.mail \in Seq(Messages) /\ q.queue \in Seq(Documents)
      /\ q.doc \in Documents /\ q.hint \in Kinds /\ q.kind \in Kinds /\ q.id \in Ids
  BY <1>q DEF Work
<1>1. CASE NextMessage(w)
  <2> DEFINE a == Attachments[Head(q.mail)]
             q1 == [q EXCEPT !.queue = a]
             q2 == [q1 EXCEPT !.mail = Tail(q.mail)]
  <2>1. q.mail # <<>>
    BY <1>1 DEF NextMessage
  <2>2. Head(q.mail) \in Messages /\ Tail(q.mail) \in Seq(Messages)
    BY <1>f, <2>1
  <2>3. a \in Seq(Documents)
    BY <2>2, IntakeConstants
  <2>4. q1 \in Work
    BY <1>q, <2>3, WorkEdits
  <2>5. q2 \in Work
    BY <2>2, <2>4, WorkEdits
  <2>6. Become(w, q2)
    BY <1>1 DEF NextMessage
  <2>7. work' \in [Workers -> Work]
    BY <1>q, <2>5, <2>6, Frame
  <2>8. QED
    BY <1>1, <1>t, <2>7 DEF NextMessage, TypeOK, entityVars
<1>2. CASE NextAttachment(w)
  <2> DEFINE q1 == [q EXCEPT !.pc = "classify"]
             q2 == [q1 EXCEPT !.doc = Head(q.queue)]
             q3 == [q2 EXCEPT !.queue = Tail(q.queue)]
  <2>1. q.queue # <<>>
    BY <1>2 DEF NextAttachment
  <2>2. Head(q.queue) \in Documents /\ Tail(q.queue) \in Seq(Documents)
    BY <1>f, <2>1
  <2>3. q1 \in Work
    BY <1>q, WorkEdits DEF Steps
  <2>4. q2 \in Work
    BY <2>2, <2>3, WorkEdits
  <2>5. q3 \in Work
    BY <2>2, <2>4, WorkEdits
  <2>6. Become(w, q3)
    BY <1>2 DEF NextAttachment
  <2>7. work' \in [Workers -> Work]
    BY <1>q, <2>5, <2>6, Frame
  <2>8. QED
    BY <1>2, <1>t, <2>7 DEF NextAttachment, TypeOK, entityVars
<1>3. CASE EndPoll(w)
  <2>1. work' \in [Workers -> Work]
    BY <1>3, <1>q, Frame, IdleIsWork DEF EndPoll
  <2>2. QED
    BY <1>3, <1>t, <2>1 DEF EndPoll, TypeOK, entityVars
<1>4. ASSUME NEW supervised \in Kinds, Classify(w, supervised)
      PROVE  TypeOK'
  <2> DEFINE kind == Classification(DeterministicKind(w), supervised)
             q1 == [q EXCEPT !.kind = kind]
             q2 == [q1 EXCEPT !.pc = "extract"]
  <2>1. DeterministicKind(w) \in Kinds
    BY <1>f, IntakeConstants DEF DeterministicKind
  <2>2. kind \in Kinds
    BY <2>1, ClassificationIsKind
  <2>3. q1 \in Work
    BY <1>q, <2>2, WorkEdits
  <2>4. q2 \in Work
    BY <2>3, WorkEdits DEF Steps
  <2>5. (Become(w, q2) /\ UNCHANGED filed) \/ File(w)
    BY <1>4 DEF Classify
  <2>6. filed' \subseteq Documents /\ work' \in [Workers -> Work]
    <3>1. CASE Become(w, q2) /\ UNCHANGED filed
      BY <1>t, <1>q, <2>4, <3>1, Frame DEF TypeOK
    <3>2. CASE File(w)
      BY <1>t, <3>2, FileTypes
    <3>3. QED
      BY <2>5, <3>1, <3>2
  <2>7. QED
    BY <1>4, <1>t, <2>6 DEF Classify, TypeOK, entityVars
<1>5. CASE ExtractionFails(w)
  BY <1>5, <1>t, FileTypes DEF ExtractionFails, TypeOK, entityVars
<1>6. CASE Save(w)
  <2> DEFINE e == NewId
             q1 == [q EXCEPT !.pc = "match"]
             q2 == [q1 EXCEPT !.id = e]
  <2>1. e \in Ids
    BY <1>6, NewIdIsUnused DEF Save
  <2>2. [doc |-> q.doc, kind |-> q.kind, key |-> DocKey[q.doc]] \in Entity
    BY <1>6, <1>f DEF Entity, Keys, Save, Typed, ExtractsKnown
  <2>3. q1 \in Work
    BY <1>q, WorkEdits DEF Steps
  <2>4. q2 \in Work
    BY <2>1, <2>3, WorkEdits
  <2>5. Become(w, NextDocument(w)) \/ Become(w, q2)
    BY <1>6 DEF Save
  <2>6. work' \in [Workers -> Work]
    BY <1>q, <2>4, <2>5, Frame, NextDocumentIsWork
  <2>7. QED
    BY <1>6, <1>t, <2>1, <2>2, <2>6 DEF Save, TypeOK
<1>d. ASSUME Become(w, NextDocument(w)) \/ Become(w, IdleWork)
      PROVE  work' \in [Workers -> Work]
  BY <1>d, <1>q, Frame, NextDocumentIsWork, IdleIsWork
<1>7. CASE MatchInvoice(w)
  <2>1. filed' \subseteq Documents /\ work' \in [Workers -> Work]
    <3>1. CASE Become(w, NextDocument(w)) /\ UNCHANGED filed
      BY <1>t, <1>d, <3>1 DEF TypeOK
    <3>2. CASE Become(w, IdleWork) /\ UNCHANGED filed
      BY <1>t, <1>d, <3>2 DEF TypeOK
    <3>3. CASE File(w)
      BY <1>t, <3>3, FileTypes
    <3>4. QED
      BY <1>7, <3>1, <3>2, <3>3 DEF MatchInvoice
  <2>2. outcomes' \in [Ids -> SUBSET BOOLEAN]
    BY <1>7, <1>t, <1>f DEF MatchInvoice, TypeOK
  <2>3. QED
    BY <1>7, <1>t, <2>1, <2>2 DEF MatchInvoice, TypeOK
<1>8. CASE MatchRefused(w)
  <2>1. filed' \subseteq Documents /\ work' \in [Workers -> Work]
    <3>1. CASE Become(w, IdleWork) /\ UNCHANGED filed
      BY <1>t, <1>d, <3>1 DEF TypeOK
    <3>2. CASE File(w)
      BY <1>t, <3>2, FileTypes
    <3>3. QED
      BY <1>8, <3>1, <3>2 DEF MatchRefused
  <2>2. QED
    BY <1>8, <1>t, <2>1 DEF MatchRefused, TypeOK, entityVars
<1>9. ASSUME NEW suits \in BOOLEAN, SearchRemittance(w, suits)
      PROVE  TypeOK'
  <2> DEFINE passed == suits /\ ~Duplicate(q.id)
             q1 == [q EXCEPT !.pc = "conclude"]
             q2 == [q1 EXCEPT !.passed = passed]
  <2>1. q1 \in Work
    BY <1>q, WorkEdits DEF Steps
  <2>2. passed \in BOOLEAN
    OBVIOUS
  <2>3. q2 \in Work
    BY <2>1, <2>2, WorkEdits
  <2>4. Become(w, q2)
    BY <1>9 DEF SearchRemittance
  <2>5. work' \in [Workers -> Work]
    BY <1>q, <2>3, <2>4, Frame
  <2>6. QED
    BY <1>9, <1>t, <2>5 DEF SearchRemittance, TypeOK, entityVars
<1>10. CASE Conclude(w)
  <2>1. work' \in [Workers -> Work]
    BY <1>10, <1>d DEF Conclude
  <2>2. outcomes' \in [Ids -> SUBSET BOOLEAN]
    BY <1>10, <1>t, <1>q, <1>f DEF Conclude, TypeOK, Work
  <2>3. QED
    BY <1>10, <1>t, <2>1, <2>2 DEF Conclude, TypeOK
<1>11. ASSUME NEW key \in Corrections, Correct(w, key)
       PROVE  TypeOK'
  <2> DEFINE e == q.id
             x == [entities[e] EXCEPT !.key = key]
             q1 == [q EXCEPT !.pc = "match"]
  <2>1. entities[e] \in Entity
    BY <1>11, <1>t, <1>f DEF Correct, At, Typed, TypeOK, HandledExist, IsRemittance, Exists
  <2>2. x \in Entity
    BY <2>1 DEF Entity, Keys
  <2>3. entities' = [entities EXCEPT ![e] = x]
    BY <1>11 DEF Correct
  <2>4. entities' \in [Ids -> Entity \cup {NoEntity}]
    BY <1>t, <1>f, <2>2, <2>3 DEF TypeOK
  <2>5. q1 \in Work
    BY <1>q, WorkEdits DEF Steps
  <2>6. work' \in [Workers -> Work]
    BY <1>11, <1>q, <2>5, Frame DEF Correct
  <2>7. outcomes' \in [Ids -> SUBSET BOOLEAN]
    BY <1>11, <1>t, <1>f DEF Correct, TypeOK
  <2>8. overtaken' \subseteq Ids
    BY <1>11, <1>t, <1>f DEF Correct, Decided, TypeOK
  <2>9. QED
    BY <1>11, <1>t, <2>4, <2>6, <2>7, <2>8 DEF Correct, TypeOK
<1>12. CASE Fails(w)
  <2>1. work' \in [Workers -> Work]
    BY <1>12, <1>d DEF Fails
  <2>2. QED
    BY <1>12, <1>t, <2>1 DEF Fails, TypeOK, entityVars
<1>13. CASE Reject(w) \/ Settle(w)
  <2>1. work' \in [Workers -> Work]
    BY <1>13, <1>d DEF Reject, Settle
  <2>2. rejected' \subseteq Ids /\ overtaken' \subseteq Ids
    BY <1>13, <1>t, <1>f DEF Reject, Settle, Decided, TypeOK
  <2>3. QED
    BY <1>13, <1>t, <2>1, <2>2 DEF Reject, Settle, TypeOK
<1>14. QED
  BY <1>1, <1>2, <1>3, <1>4, <1>5, <1>6, <1>7, <1>8, <1>9, <1>10, <1>11, <1>12, <1>13
     DEF Step

\* The other threads stay where they were.
LEMMA WorkOfOthers ==
    ASSUME work \in [Workers -> Work], NEW w \in Workers, Step(w) \/ NewRequest(w)
    PROVE  \A v \in Workers \ {w} : work'[v] = work[v]
<1>1. \E q : Become(w, q)
  BY DEF Step, NewRequest, NextMessage, NextAttachment, EndPoll, Classify,
         ExtractionFails, Save, MatchInvoice, MatchRefused, SearchRemittance, Conclude,
         Reject, Settle, Correct, Fails, StartPoll, StartUpload, StartRemittance,
         StartMatch, StartDecision, File
<1>2. QED
  BY <1>1 DEF Become

\* Where a step, or a new request, leaves its thread: at nothing that concerns a
\* saved document, or about to extract what it has classified, ...
Elsewhere(w) ==
    \/ work'[w].pc \in {"idle", "next", "classify"}
    \/ work'[w].pc = "extract" /\ work'[w].kind # "unknown"

\* ... or with a document it has just saved, ...
Saves(w) == Save(w) /\ work'[w].pc = "match" /\ work'[w].id = NewId

\* ... or with one it has found, to match or to decide, ...
TakesUp(w) ==
    \/ /\ work'[w].pc = "match" /\ work'[w].id \in Ids
       /\ IsInvoice(work'[w].id) /\ UNCHANGED entityVars
    \/ /\ work'[w].pc = "decide" /\ work'[w].id \in Ids
       /\ IsRemittance(work'[w].id) /\ UNCHANGED entityVars
       /\ outcomes[work'[w].id] # {} /\ work'[w].id \notin rejected

\* ... or it goes on with its remittance.
GoesOn(w) ==
    /\ work'[w].id = work[w].id
    /\ \/ /\ work[w].pc = "match" /\ work'[w].pc = "conclude"
          /\ IsRemittance(work[w].id) /\ UNCHANGED entityVars
          /\ work'[w].passed => ~Duplicate(work[w].id)
       \/ /\ work'[w].pc = "match"
          /\ \E key \in Corrections : Correct(w, key)

\* The steps of a thread, by where they leave it.
LEMMA StepMoves ==
    ASSUME work \in [Workers -> Work], NEW w \in Workers, Step(w)
    PROVE  Elsewhere(w) \/ Saves(w) \/ GoesOn(w)
<1> DEFINE q == work[w]
<1>q. q \in Work
  OBVIOUS
<1>1. CASE NextMessage(w)
  <2> DEFINE q2 == [q EXCEPT !.queue = Attachments[Head(q.mail)], !.mail = Tail(q.mail)]
  <2>1. work'[w] = q2
    BY <1>1, Frame DEF NextMessage
  <2>2. q2.pc = "next"
    BY <1>1, <1>q DEF NextMessage, At, Work
  <2>3. QED
    BY <2>1, <2>2 DEF Elsewhere
<1>2. CASE NextAttachment(w)
  <2> DEFINE q2 == [q EXCEPT !.pc = "classify", !.doc = Head(q.queue),
                             !.queue = Tail(q.queue)]
  <2>1. work'[w] = q2
    BY <1>2, Frame DEF NextAttachment
  <2>2. q2.pc = "classify"
    BY <1>q DEF Work
  <2>3. QED
    BY <2>1, <2>2 DEF Elsewhere
<1>3. CASE Become(w, IdleWork) \/ Become(w, NextDocument(w))
  BY <1>3, Frame, IdleIsWork, NextDocumentIsWork DEF Elsewhere
<1>4. ASSUME NEW supervised \in Kinds, Classify(w, supervised)
      PROVE  Elsewhere(w)
  <2> DEFINE kind == Classification(DeterministicKind(w), supervised)
             q2 == [q EXCEPT !.kind = kind, !.pc = "extract"]
  <2>1. CASE Continues(w, kind)
    <3>1. kind # "unknown"
      BY <2>1 DEF Continues
    <3>2. work'[w] = q2
      BY <1>4, <2>1, Frame DEF Classify
    <3>3. q2.kind = kind /\ q2.pc = "extract"
      BY <1>q DEF Work
    <3>4. QED
      BY <3>1, <3>2, <3>3 DEF Elsewhere
  <2>2. CASE ~Continues(w, kind)
    BY <1>4, <2>2, Frame, NextDocumentIsWork DEF Classify, File, Elsewhere
  <2>3. QED
    BY <2>1, <2>2
<1>5. CASE Save(w)
  <2> DEFINE q2 == [q EXCEPT !.pc = "match", !.id = NewId]
  <2>1. CASE Become(w, q2)
    <3>1. work'[w] = q2
      BY <2>1, Frame
    <3>2. q2.pc = "match" /\ q2.id = NewId
      BY <1>q DEF Work
    <3>3. QED
      BY <1>5, <3>1, <3>2 DEF Saves
  <2>2. QED
    BY <1>3, <1>5, <2>1 DEF Save
<1>6. CASE EndPoll(w) \/ ExtractionFails(w) \/ MatchInvoice(w) \/ MatchRefused(w)
           \/ Conclude(w) \/ Reject(w) \/ Settle(w) \/ Fails(w)
  BY <1>3, <1>6 DEF EndPoll, ExtractionFails, MatchInvoice, MatchRefused, Conclude,
                    Reject, Settle, Fails, File
<1>7. ASSUME NEW suits \in BOOLEAN, SearchRemittance(w, suits)
      PROVE  GoesOn(w)
  <2> DEFINE passed == suits /\ ~Duplicate(q.id)
             q2 == [q EXCEPT !.pc = "conclude", !.passed = passed]
  <2>1. work'[w] = q2
    BY <1>7, Frame DEF SearchRemittance
  <2>2. q2.pc = "conclude" /\ q2.id = q.id /\ q2.passed = passed
    BY <1>q DEF Work
  <2>3. QED
    BY <1>7, <2>1, <2>2 DEF SearchRemittance, GoesOn, At
<1>8. ASSUME NEW key \in Corrections, Correct(w, key)
      PROVE  GoesOn(w)
  <2> DEFINE q2 == [q EXCEPT !.pc = "match"]
  <2>1. work'[w] = q2
    BY <1>8, Frame DEF Correct
  <2>2. q2.pc = "match" /\ q2.id = q.id
    BY <1>q DEF Work
  <2>3. QED
    BY <1>8, <2>1, <2>2 DEF GoesOn
<1>9. QED
  BY <1>1, <1>2, <1>4, <1>5, <1>6, <1>7, <1>8 DEF Step

\* The new requests, by where they leave it.
LEMMA RequestMoves ==
    ASSUME work \in [Workers -> Work], NEW w \in Workers, NewRequest(w)
    PROVE  Elsewhere(w) \/ TakesUp(w)
<1>1. ASSUME NEW batch \in SetToSeqs(unread), StartPoll(w, batch)
      PROVE  Elsewhere(w)
  <2> DEFINE mail == FetchedBy(batch)
             q2 == [IdleWork EXCEPT
                !.pc = "next", !.mail = mail,
                !.fetched = UNION {ToSet(Attachments[mail[n]]) : n \in DOMAIN mail}]
  <2>1. work'[w] = q2
    BY <1>1, Frame DEF StartPoll
  <2>2. q2.pc = "next"
    BY IdleIsWork DEF Work
  <2>3. QED
    BY <2>1, <2>2 DEF Elsewhere
<1>2. ASSUME NEW route, NEW doc, NEW hint, StartUpload(w, route, doc, hint)
      PROVE  Elsewhere(w)
  <2> DEFINE q2 == [IdleWork EXCEPT !.pc = "classify", !.route = route,
                                    !.doc = doc, !.hint = hint]
  <2>1. work'[w] = q2
    BY <1>2, Frame DEF StartUpload
  <2>2. q2.pc = "classify"
    BY IdleIsWork DEF Work
  <2>3. QED
    BY <2>1, <2>2 DEF Elsewhere
<1>3. ASSUME NEW e \in Ids, StartMatch(w, e)
      PROVE  TakesUp(w)
  <2> DEFINE q2 == [IdleWork EXCEPT !.pc = "match", !.route = "match_po", !.id = e]
  <2>1. work'[w] = q2
    BY <1>3, Frame DEF StartMatch
  <2>2. q2.pc = "match" /\ q2.id = e
    BY IdleIsWork DEF Work
  <2>3. QED
    BY <1>3, <2>1, <2>2 DEF StartMatch, TakesUp
<1>4. ASSUME NEW e \in Ids, StartDecision(w, e)
      PROVE  TakesUp(w)
  <2> DEFINE q2 == [IdleWork EXCEPT !.pc = "decide", !.route = "decide", !.id = e]
  <2>1. work'[w] = q2
    BY <1>4, Frame DEF StartDecision
  <2>2. q2.pc = "decide" /\ q2.id = e
    BY IdleIsWork DEF Work
  <2>3. QED
    BY <1>4, <2>1, <2>2 DEF StartDecision, TakesUp
<1>5. ASSUME NEW doc, StartRemittance(w, doc)
      PROVE  Elsewhere(w)
  <2> DEFINE q2 == [IdleWork EXCEPT !.pc = "extract", !.route = "ingest_remittance",
                                    !.doc = doc, !.kind = "ar_remittance"]
  <2>1. work'[w] = q2
    BY <1>5, Frame DEF StartRemittance
  <2>2. q2.pc = "extract" /\ q2.kind = "ar_remittance"
    BY IdleIsWork DEF Work
  <2>3. QED
    BY <2>1, <2>2 DEF Elsewhere
<1>6. QED
  BY <1>1, <1>2, <1>3, <1>4, <1>5 DEF NewRequest

\* A step of a thread takes up for extraction only what it has classified.
LEMMA StepKnown ==
    ASSUME Typed, NEW w \in Workers, Step(w) \/ NewRequest(w)
    PROVE  ExtractsKnown'
<1>1. work \in [Workers -> Work]
  BY DEF Typed, TypeOK
<1>2. work'[w].pc = "extract" => work'[w].kind # "unknown"
  BY <1>1, StepMoves, RequestMoves DEF Elsewhere, Saves, TakesUp, GoesOn
<1>3. QED
  BY <1>1, <1>2, WorkOfOthers DEF Typed, ExtractsKnown, At

\* A new request keeps every variable within its type.
LEMMA RequestTypes ==
    ASSUME Typed, NEW w \in Workers, NewRequest(w)
    PROVE  TypeOK'
<1>q. work \in [Workers -> Work]
  BY DEF Typed, TypeOK
<1>t. TypeOK
  BY DEF Typed
<1>s. ASSUME NEW q \in Work, Become(w, q), UNCHANGED <<unread, filed, entityVars>>
      PROVE  TypeOK'
  <2>1. work' \in [Workers -> Work]
    BY <1>q, <1>s, Frame
  <2>2. QED
    BY <1>t, <1>s, <2>1 DEF TypeOK, entityVars
<1>1. ASSUME NEW batch \in SetToSeqs(unread), StartPoll(w, batch)
      PROVE  TypeOK'
  <2> DEFINE mail == FetchedBy(batch)
             docs == UNION {ToSet(Attachments[mail[n]]) : n \in DOMAIN mail}
             q1 == [IdleWork EXCEPT !.pc = "next"]
             q2 == [q1 EXCEPT !.mail = mail]
             q3 == [q2 EXCEPT !.fetched = docs]
  <2>1. mail \in Seq(Messages)
    BY <1>t, FetchedIsMail DEF TypeOK
  <2>2. docs \subseteq Documents
    BY <2>1, AttachmentsAreDocuments
  <2>3. q1 \in Work
    BY IdleIsWork, WorkEdits DEF Steps
  <2>4. q2 \in Work
    BY <2>1, <2>3, WorkEdits
  <2>5. q3 \in Work
    BY <2>2, <2>4, WorkEdits
  <2>6. Become(w, q3) /\ UNCHANGED <<unread, filed, entityVars>>
    BY <1>1 DEF StartPoll
  <2>7. QED
    BY <1>s, <2>5, <2>6
<1>2. ASSUME NEW route \in Uploads, NEW doc \in Documents, NEW hint \in Kinds,
             StartUpload(w, route, doc, hint)
      PROVE  TypeOK'
  <2> DEFINE q1 == [IdleWork EXCEPT !.pc = "classify"]
             q2 == [q1 EXCEPT !.route = route]
             q3 == [q2 EXCEPT !.doc = doc]
             q4 == [q3 EXCEPT !.hint = hint]
  <2>1. q1 \in Work
    BY IdleIsWork, WorkEdits DEF Steps
  <2>2. q2 \in Work
    BY <2>1, WorkEdits DEF Routes
  <2>3. q3 \in Work
    BY <2>2, WorkEdits
  <2>4. q4 \in Work
    BY <2>3, WorkEdits
  <2>5. Become(w, q4) /\ UNCHANGED <<unread, filed, entityVars>>
    BY <1>2 DEF StartUpload
  <2>6. QED
    BY <1>s, <2>4, <2>5
<1>3. ASSUME NEW e \in Ids, StartMatch(w, e)
      PROVE  TypeOK'
  <2> DEFINE q1 == [IdleWork EXCEPT !.pc = "match"]
             q2 == [q1 EXCEPT !.route = "match_po"]
             q3 == [q2 EXCEPT !.id = e]
  <2>1. q1 \in Work
    BY IdleIsWork, WorkEdits DEF Steps
  <2>2. q2 \in Work
    BY <2>1, WorkEdits DEF Routes
  <2>3. q3 \in Work
    BY <2>2, WorkEdits
  <2>4. Become(w, q3) /\ UNCHANGED <<unread, filed, entityVars>>
    BY <1>3 DEF StartMatch
  <2>5. QED
    BY <1>s, <2>3, <2>4
<1>4. ASSUME NEW e \in Ids, StartDecision(w, e)
      PROVE  TypeOK'
  <2> DEFINE q1 == [IdleWork EXCEPT !.pc = "decide"]
             q2 == [q1 EXCEPT !.route = "decide"]
             q3 == [q2 EXCEPT !.id = e]
  <2>1. q1 \in Work
    BY IdleIsWork, WorkEdits DEF Steps
  <2>2. q2 \in Work
    BY <2>1, WorkEdits DEF Routes
  <2>3. q3 \in Work
    BY <2>2, WorkEdits
  <2>4. Become(w, q3) /\ UNCHANGED <<unread, filed, entityVars>>
    BY <1>4 DEF StartDecision
  <2>5. QED
    BY <1>s, <2>3, <2>4
<1>5. "ap_invoice" \in Kinds /\ Hints \subseteq Kinds
  BY IntakeConstants DEF Kinds
<1>6. ASSUME NEW doc \in Documents, StartRemittance(w, doc)
      PROVE  TypeOK'
  <2> DEFINE q1 == [IdleWork EXCEPT !.pc = "extract"]
             q2 == [q1 EXCEPT !.route = "ingest_remittance"]
             q3 == [q2 EXCEPT !.doc = doc]
             q4 == [q3 EXCEPT !.kind = "ar_remittance"]
  <2>1. q1 \in Work
    BY IdleIsWork, WorkEdits DEF Steps
  <2>2. q2 \in Work
    BY <2>1, WorkEdits DEF Routes
  <2>3. q3 \in Work
    BY <2>2, WorkEdits
  <2>4. q4 \in Work
    BY <2>3, WorkEdits DEF Kinds
  <2>5. Become(w, q4) /\ UNCHANGED <<unread, filed, entityVars>>
    BY <1>6 DEF StartRemittance
  <2>6. QED
    BY <1>s, <2>4, <2>5
<1>7. Structured \subseteq Documents
  BY IntakeConstants
<1>8. QED
  BY <1>1, <1>2, <1>3, <1>4, <1>5, <1>6, <1>7 DEF NewRequest, Uploads

\* What a step may do to the records of documents beside Save, MatchInvoice,
\* Conclude and Correct: nothing, ...
Keeps == UNCHANGED entityVars

\* ... or it writes a status.
Marks ==
    /\ UNCHANGED <<entities, outcomes, repeats>>
    /\ \/ \E e \in Ids : RejectInvoice(e)
       \/ \E w \in Workers : Reject(w) \/ Settle(w)

LEMMA Recorders ==
    ASSUME [Next]_vars
    PROVE  \/ Keeps \/ Marks
           \/ \E w \in Workers :
                \/ Save(w) \/ MatchInvoice(w) \/ Conclude(w)
                \/ \E key \in Corrections : Correct(w, key)
<1>1. ASSUME NEW w \in Workers, Step(w)
      PROVE  \/ Keeps \/ Marks \/ Save(w) \/ MatchInvoice(w) \/ Conclude(w)
             \/ \E key \in Corrections : Correct(w, key)
  <2>1. CASE Reject(w) \/ Settle(w)
    BY <2>1 DEF Reject, Settle, Marks
  <2>2. CASE ~(Reject(w) \/ Settle(w))
    BY <1>1, <2>2 DEF Step, NextMessage, NextAttachment, EndPoll, Classify,
                      ExtractionFails, MatchRefused, SearchRemittance, Fails, Keeps
  <2>3. QED
    BY <2>1, <2>2
<1>2. ASSUME NEW w \in Workers, NewRequest(w) PROVE Keeps
  BY <1>2 DEF NewRequest, StartPoll, StartUpload, StartRemittance, StartMatch,
              StartDecision, Keeps
<1>3. ASSUME NEW m \in Messages, MarkRead(m) PROVE Keeps
  BY <1>3 DEF MarkRead, Keeps
<1>4. ASSUME NEW e \in Ids, RejectInvoice(e) PROVE Marks
  BY <1>4 DEF RejectInvoice, Marks
<1>5. CASE UNCHANGED vars
  BY <1>5 DEF vars, Keeps
<1>6. QED
  BY <1>1, <1>2, <1>3, <1>4, <1>5 DEF Next

\* A correction writes the key of a remittance that is there.
LEMMA CorrectWrites ==
    ASSUME Typed, NEW w \in Workers, NEW key \in Corrections, Correct(w, key)
    PROVE  /\ work[w].id \in Ids
           /\ IsRemittance(work[w].id)
           /\ entities[work[w].id] \in Entity
           /\ entities'[work[w].id] \in Entity
           /\ entities'[work[w].id].doc = entities[work[w].id].doc
           /\ entities'[work[w].id].kind = "ar_remittance"
           /\ \A f \in Ids \ {work[w].id} :
                /\ entities'[f] = entities[f]
                /\ outcomes'[f] = outcomes[f]
                /\ f \in rejected' <=> f \in rejected
           /\ outcomes'[work[w].id] = {}
           /\ work[w].id \notin rejected'
<1> DEFINE e == work[w].id
<1>1. e \in Ids
  BY DEF Typed, TypeOK, Work
<1>2. IsRemittance(e)
  BY DEF Typed, HandledExist, Correct, At
<1>3. entities[e] \in Entity /\ entities \in [Ids -> Entity \cup {NoEntity}]
  BY <1>1, <1>2 DEF Typed, TypeOK, IsRemittance, Exists
<1>4. entities' = [entities EXCEPT ![e] = [entities[e] EXCEPT !.key = key]]
  BY DEF Correct
<1>5. entities'[e] = [entities[e] EXCEPT !.key = key]
  BY <1>1, <1>3, <1>4
<1>6. entities'[e] \in Entity
  BY <1>3, <1>5 DEF Entity, Keys
<1>7. entities'[e].doc = entities[e].doc /\ entities'[e].kind = "ar_remittance"
  BY <1>2, <1>3, <1>5 DEF Entity, IsRemittance
<1>8. \A f \in Ids \ {e} : entities'[f] = entities[f]
  BY <1>3, <1>4
<1>9. /\ outcomes'[e] = {}
      /\ \A f \in Ids \ {e} : outcomes'[f] = outcomes[f]
  BY <1>1 DEF Correct, Typed, TypeOK
<1>10. /\ e \notin rejected'
       /\ \A f \in Ids \ {e} : f \in rejected' <=> f \in rejected
  BY DEF Correct
<1>11. QED
  BY <1>1, <1>2, <1>3, <1>6, <1>7, <1>8, <1>9, <1>10

\* What Save writes is there, under the key of the document.
LEMMA SaveWrites ==
    ASSUME Typed, NEW w \in Workers, Save(w)
    PROVE  /\ NewId \in Ids /\ ~Exists(NewId)
           /\ entities'[NewId] = [doc |-> work[w].doc, kind |-> work[w].kind,
                                  key |-> DocKey[work[w].doc]]
           /\ entities'[NewId] \in Entity
           /\ \A f \in Ids \ {NewId} : entities'[f] = entities[f]
<1>1. NewId \in Ids /\ ~Exists(NewId)
  BY NewIdIsUnused DEF Save
<1>2. entities \in [Ids -> Entity \cup {NoEntity}]
  BY DEF Typed, TypeOK
<1>3. PICK x : x = [doc |-> work[w].doc, kind |-> work[w].kind,
                    key |-> DocKey[work[w].doc]]
  OBVIOUS
<1>4. entities' = [entities EXCEPT ![NewId] = x]
  BY <1>3 DEF Save
<1>5. PICK e : e = NewId
  OBVIOUS
<1>6. entities'[e] = x /\ \A f \in Ids \ {e} : entities'[f] = entities[f]
  BY <1>1, <1>2, <1>4, <1>5
<1>7. x \in Entity
  BY <1>3 DEF Save, Typed, TypeOK, ExtractsKnown, Work, Entity, Keys
<1>8. QED
  BY <1>1, <1>3, <1>5, <1>6, <1>7

\* A saved document stays, of the kind it was saved with; only a remittance has
\* its key changed.
LEMMA SavedStays ==
    ASSUME Typed, [Next]_vars, NEW e \in Ids, Exists(e)
    PROVE  /\ Exists(e)'
           /\ entities'[e].doc = entities[e].doc /\ entities'[e].kind = entities[e].kind
           /\ IsInvoice(e) => entities'[e] = entities[e]
<1>1. CASE entities'[e] = entities[e]
  BY <1>1 DEF Exists
<1>2. ASSUME NEW w \in Workers, Save(w)
      PROVE  entities'[e] = entities[e]
  <2>1. NewId # e
    BY <1>2, NewIdIsUnused DEF Save
  <2>2. QED
    BY <1>2, <2>1, SaveWrites
<1>3. ASSUME NEW w \in Workers, NEW key \in Corrections, Correct(w, key),
             e = work[w].id
      PROVE  /\ Exists(e)'
             /\ entities'[e].doc = entities[e].doc
             /\ entities'[e].kind = entities[e].kind /\ ~IsInvoice(e)
  BY <1>3, CorrectWrites, IntakeConstants DEF IsRemittance, IsInvoice, Exists
<1>4. ASSUME NEW w \in Workers, NEW key \in Corrections, Correct(w, key),
             e # work[w].id
      PROVE  entities'[e] = entities[e]
  BY <1>4, CorrectWrites
<1>5. CASE Keeps \/ Marks \/ \E w \in Workers : MatchInvoice(w) \/ Conclude(w)
  BY <1>1, <1>5 DEF Keeps, entityVars, Marks, MatchInvoice, Conclude
<1>6. QED
  BY <1>1, <1>2, <1>3, <1>4, <1>5, Recorders

\* Invoices and remittances stay what they are.
LEMMA KindStays ==
    ASSUME Typed, [Next]_vars, NEW e \in Ids
    PROVE  /\ IsInvoice(e) => IsInvoice(e)'
           /\ IsRemittance(e) => IsRemittance(e)'
           /\ Exists(e) /\ IsRemittance(e)' => IsRemittance(e)
BY SavedStays DEF IsInvoice, IsRemittance, Exists

\* A thread comes to a match or a decision with an id that is saved: it has
\* just saved it, or the request found it.
LEMMA HandledStep ==
    ASSUME Typed, [Next]_vars
    PROVE  HandledExist'
<1>q. work \in [Workers -> Work]
  BY DEF Typed, TypeOK
<1>i. \A w \in Workers : work[w].id \in Ids
  BY <1>q DEF Work
<1> DEFINE Good(v) == /\ work'[v].pc \in {"match", "conclude", "decide"}
                           => entities'[work'[v].id] # NoEntity
                      /\ work'[v].pc \in {"conclude", "decide"}
                           => entities'[work'[v].id].kind = "ar_remittance"
<1>k. ASSUME NEW v \in Workers, work'[v] = work[v]
      PROVE  Good(v)
  <2>1. PICK e \in Ids : e = work[v].id
    BY <1>i
  <2>2. /\ work[v].pc = "match" => Exists(e)
        /\ work[v].pc \in {"conclude", "decide"} => IsRemittance(e)
    BY <2>1 DEF Typed, HandledExist, At
  <2>3. /\ Exists(e) => Exists(e)'
        /\ IsRemittance(e) => IsRemittance(e)'
    BY SavedStays, KindStays
  <2>4. e = work'[v].id
    BY <1>k, <2>1
  <2>5. QED
    BY <1>k, <2>2, <2>3, <2>4 DEF Exists, IsRemittance
<1>r. ASSUME NEW w \in Workers, Step(w) \/ NewRequest(w)
      PROVE  Good(w)
  <2>1. CASE Elsewhere(w)
    BY <2>1 DEF Elsewhere
  <2>2. CASE Saves(w)
    <3>1. PICK e \in Ids : e = NewId /\ entities'[e] \in Entity
      BY <2>2, SaveWrites DEF Saves
    <3>2. Exists(e)'
      BY <3>1, IntakeConstants DEF Exists
    <3>3. QED
      BY <2>2, <3>1, <3>2 DEF Exists, Saves
  <2>3. CASE TakesUp(w)
    BY <2>3 DEF TakesUp, entityVars, IsInvoice, IsRemittance, Exists
  <2>4. CASE GoesOn(w)
    <3>1. PICK e \in Ids : e = work[w].id
      BY <1>i
    <3>2. IsRemittance(e)
      BY <2>4, <3>1, CorrectWrites DEF GoesOn
    <3>3. IsRemittance(e)'
      BY <3>2, KindStays
    <3>4. work'[w].id = e
      BY <2>4, <3>1 DEF GoesOn
    <3>5. QED
      BY <3>3, <3>4 DEF IsRemittance, Exists
  <2>5. QED
    BY <1>q, <1>r, <2>1, <2>2, <2>3, <2>4, StepMoves, RequestMoves
<1>1. ASSUME NEW v \in Workers
      PROVE  Good(v)
  <2>1. ASSUME NEW w \in Workers, Step(w) \/ NewRequest(w)
        PROVE  Good(v)
    <3>1. CASE v = w
      BY <1>r, <2>1, <3>1
    <3>2. CASE v # w
      <4>1. work'[v] = work[v]
        BY <1>q, <2>1, <3>2, WorkOfOthers
      <4>2. QED
        BY <1>k, <4>1
    <3>3. QED
      BY <3>1, <3>2
  <2>2. CASE UNCHANGED work
    BY <1>k, <2>2
  <2>3. QED
    BY <2>1, <2>2 DEF Next, MarkRead, RejectInvoice, vars
<1>2. QED
  BY <1>1 DEF HandledExist, At, Exists, IsRemittance

\* Typed is inductive.
LEMMA TypedInductive ==
    /\ Init => Typed
    /\ Typed /\ [Next]_vars => Typed'
<1>1. ASSUME Init PROVE Typed
  <2>1. TypeOK
    BY <1>1, IdleIsWork DEF Init, TypeOK
  <2>2. ExtractsKnown /\ HandledExist
    BY <1>1, IdleIsWork DEF Init, ExtractsKnown, HandledExist, At
  <2>3. QED
    BY <2>1, <2>2 DEF Typed
<1>2. ASSUME Typed, [Next]_vars PROVE Typed'
  <2>1. ASSUME NEW w \in Workers, Step(w) PROVE TypeOK' /\ ExtractsKnown'
    BY <1>2, <2>1, StepTypes, StepKnown
  <2>2. ASSUME NEW w \in Workers, NewRequest(w) PROVE TypeOK' /\ ExtractsKnown'
    BY <1>2, <2>2, RequestTypes, StepKnown
  <2>3. ASSUME NEW m \in Messages, MarkRead(m) PROVE TypeOK' /\ ExtractsKnown'
    BY <1>2, <2>3 DEF MarkRead, Typed, TypeOK, ExtractsKnown, At, entityVars
  <2>4. ASSUME NEW e \in Ids, RejectInvoice(e) PROVE TypeOK' /\ ExtractsKnown'
    BY <1>2, <2>4 DEF RejectInvoice, Typed, TypeOK, ExtractsKnown, At
  <2>5. CASE UNCHANGED vars
    BY <1>2, <2>5 DEF vars, Typed, TypeOK, ExtractsKnown, HandledExist, IsRemittance,
                      Exists, At, entityVars
  <2>6. TypeOK' /\ ExtractsKnown'
    BY <1>2, <2>1, <2>2, <2>3, <2>4, <2>5 DEF Next, Typed
  <2>7. QED
    BY <1>2, <2>6, HandledStep DEF Typed
<1>3. QED
  BY <1>1, <1>2

\* The variables keep to their types: what is saved is a document with a
\* kind, and a thread's mail and queue are messages and documents.
THEOREM TypeCorrect == Spec => []TypeOK
<1>1. Spec => []Typed
  BY TypedInductive, PTL DEF Spec
<1>2. Typed => TypeOK
  BY DEF Typed
<1>3. QED
  BY <1>1, <1>2, PTL
---------------------------------------------------------------------------
(* Duplicates.                                                             *)

\* What has been matched, or rejected, has been saved.
OutcomesExist ==
    /\ \A e \in Ids : outcomes[e] # {} => Exists(e)
    /\ \A e \in rejected : Exists(e)

\* An id is recorded as a repeat because of another of the same key and kind; if
\* it is an invoice, that one is there to stay.
RepeatsHaveEarlier ==
    \A e \in repeats :
        /\ Exists(e)
        /\ IsInvoice(e) =>
             \E f \in Ids \ {e} : SameKey(f, entities[e].key, "ap_invoice")

RecordInv == OutcomesExist /\ RepeatsHaveEarlier

\* What the match of an invoice records: it passes only if no other saved
\* invoice has its key.
LEMMA InvoiceOutcomes ==
    ASSUME Typed, [Next]_vars, NEW e \in Ids, IsInvoice(e),
           TRUE \in outcomes'[e], TRUE \notin outcomes[e]
    PROVE  ~Duplicate(e)
<1>1. outcomes \in [Ids -> SUBSET BOOLEAN] /\ TypeOK
  BY DEF Typed, TypeOK
<1>2. \A w \in Workers : work[w].id \in Ids
  BY DEF Typed, TypeOK, Work
<1>3. ASSUME NEW w \in Workers, MatchInvoice(w) PROVE ~Duplicate(e)
  <2>1. PICK passed \in BOOLEAN :
          /\ passed => ~Duplicate(work[w].id)
          /\ outcomes' = [outcomes EXCEPT ![work[w].id] = @ \cup {passed}]
    BY <1>3 DEF MatchInvoice
  <2>2. e = work[w].id
    BY <1>1, <1>2, <2>1
  <2>3. outcomes'[e] = outcomes[e] \cup {passed}
    BY <1>1, <2>1, <2>2
  <2>4. QED
    BY <2>1, <2>2, <2>3
<1>4. ASSUME NEW w \in Workers, Conclude(w) PROVE FALSE
  <2>1. IsRemittance(work[w].id)
    BY <1>4 DEF Conclude, At, Typed, HandledExist
  <2>2. e # work[w].id
    BY <2>1 DEF IsInvoice, IsRemittance
  <2>3. QED
    BY <1>1, <1>2, <1>4, <2>2 DEF Conclude
<1>5. ASSUME NEW w \in Workers, NEW key \in Corrections, Correct(w, key) PROVE FALSE
  BY <1>1, <1>5, CorrectWrites
<1>6. QED
  BY <1>1, <1>3, <1>4, <1>5, Recorders DEF Keeps, entityVars, Marks, Save

LEMMA OutcomesExistStep ==
    ASSUME Typed, OutcomesExist, [Next]_vars
    PROVE  OutcomesExist'
<1>1. outcomes \in [Ids -> SUBSET BOOLEAN] /\ TypeOK
  BY DEF Typed, TypeOK
<1>2. \A w \in Workers : work[w].id \in Ids
  BY DEF Typed, TypeOK, Work
<1>3. ASSUME NEW e \in Ids, outcomes'[e] # {} \/ e \in rejected' PROVE Exists(e)
  <2>1. CASE outcomes[e] # {} \/ e \in rejected
    BY <2>1 DEF OutcomesExist
  <2>2. ASSUME NEW w \in Workers, MatchInvoice(w) PROVE Exists(e)
    <3>1. CASE e = work[w].id
      BY <2>2, <3>1 DEF MatchInvoice, IsInvoice
    <3>2. CASE e # work[w].id
      BY <1>1, <1>2, <1>3, <2>1, <2>2, <3>2 DEF MatchInvoice
    <3>3. QED
      BY <3>1, <3>2
  <2>3. ASSUME NEW w \in Workers, Conclude(w) PROVE Exists(e)
    <3>1. CASE e = work[w].id
      BY <2>3, <3>1 DEF Conclude, At, Typed, HandledExist, IsRemittance
    <3>2. CASE e # work[w].id
      BY <1>1, <1>2, <1>3, <2>1, <2>3, <3>2 DEF Conclude
    <3>3. QED
      BY <3>1, <3>2
  <2>4. ASSUME NEW w \in Workers, NEW key \in Corrections, Correct(w, key)
        PROVE  Exists(e)
    BY <1>3, <2>1, <2>4, CorrectWrites
  <2>5. CASE Marks
    <3>1. ASSUME NEW w \in Workers, Reject(w) \/ Settle(w)
          PROVE  Exists(work[w].id)
      BY <3>1 DEF Reject, Settle, At, Typed, HandledExist, IsRemittance
    <3>2. QED
      BY <1>3, <2>1, <2>5, <3>1 DEF Marks, RejectInvoice, IsInvoice, Reject, Settle
  <2>6. QED
    BY <1>1, <1>3, <2>1, <2>2, <2>3, <2>4, <2>5, Recorders DEF Keeps, entityVars, Save
<1>4. rejected' \subseteq Ids
  BY TypedInductive DEF Typed, TypeOK
<1>5. ASSUME NEW e \in Ids, outcomes'[e] # {} \/ e \in rejected' PROVE Exists(e)'
  BY <1>3, <1>5, SavedStays
<1>6. QED
  BY <1>4, <1>5 DEF OutcomesExist

\* A new repeat is the id that has just been saved; the earlier one is another.
LEMMA RepeatsStep ==
    ASSUME Typed, RepeatsHaveEarlier, [Next]_vars
    PROVE  RepeatsHaveEarlier'
<1>t. TypeOK /\ repeats' \subseteq Ids
  BY TypedInductive DEF Typed, TypeOK
<1>1. ASSUME NEW e \in Ids, e \in repeats
      PROVE  /\ Exists(e)'
             /\ IsInvoice(e)' =>
                  \E f \in Ids \ {e} : SameKey(f, entities[e].key, "ap_invoice")'
  <2>1. Exists(e) /\ Exists(e)'
    BY <1>1, SavedStays DEF RepeatsHaveEarlier
  <2>2. CASE IsInvoice(e)'
    <3>1. IsInvoice(e) /\ entities'[e] = entities[e]
      BY <2>1, <2>2, SavedStays DEF IsInvoice
    <3>2. PICK f \in Ids \ {e} : SameKey(f, entities[e].key, "ap_invoice")
      BY <1>1, <3>1 DEF RepeatsHaveEarlier
    <3>3. entities'[f] = entities[f] /\ Exists(f)'
      BY <3>2, SavedStays DEF SameKey, IsInvoice
    <3>4. SameKey(f, entities[e].key, "ap_invoice")'
      BY <3>1, <3>2, <3>3 DEF SameKey
    <3>5. QED
      BY <2>1, <3>4
  <2>3. QED
    BY <2>1, <2>2
<1>2. ASSUME NEW e \in Ids, e \in repeats', e \notin repeats
      PROVE  /\ Exists(e)'
             /\ IsInvoice(e)' =>
                  \E f \in Ids \ {e} : SameKey(f, entities[e].key, "ap_invoice")'
  <2>1. PICK w \in Workers : Save(w)
    BY <1>t, <1>2, Recorders DEF Keeps, entityVars, Marks, MatchInvoice, Conclude, Correct
  <2>2. e = NewId /\ ~Exists(e)
    BY <1>2, <2>1, SaveWrites DEF Save
  <2>3. PICK x : x = entities'[e]
    OBVIOUS
  <2>4. /\ x \in Entity
        /\ x.kind = work[w].kind /\ x.key = DocKey[work[w].doc]
    <3>1. PICK doc, kind, key : doc = work[w].doc /\ kind = work[w].kind /\ key = DocKey[doc]
      OBVIOUS
    <3>2. x = [doc |-> doc, kind |-> kind, key |-> key]
      BY <2>1, <2>2, <2>3, <3>1, SaveWrites
    <3>3. x \in Entity
      BY <2>1, <2>2, <2>3, SaveWrites
    <3>4. QED
      BY <3>1, <3>2, <3>3
  <2>5. Exists(e)'
    BY <2>3, <2>4, IntakeConstants DEF Exists
  <2>6. PICK f \in Ids : SameKey(f, x.key, x.kind)
    BY <1>2, <2>1, <2>4 DEF Save
  <2>7. Exists(f) /\ f # e
    BY <2>2, <2>6 DEF SameKey
  <2>8. CASE IsInvoice(e)'
    <3>1. x.kind = "ap_invoice"
      BY <2>3, <2>8 DEF IsInvoice
    <3>2. entities'[f] = entities[f] /\ Exists(f)'
      BY <2>6, <2>7, <3>1, SavedStays DEF SameKey, IsInvoice
    <3>3. SameKey(f, entities[e].key, "ap_invoice")'
      BY <2>3, <2>6, <3>1, <3>2 DEF SameKey
    <3>4. QED
      BY <2>5, <2>7, <3>3
  <2>9. QED
    BY <2>5, <2>8
<1>3. QED
  BY <1>t, <1>1, <1>2 DEF RepeatsHaveEarlier

\* RecordInv is inductive, given the types.
LEMMA RecordInvariant == Spec => [](Typed /\ RecordInv)
<1>1. Init => RecordInv
  BY DEF Init, RecordInv, OutcomesExist, RepeatsHaveEarlier
<1>2. Typed /\ RecordInv /\ [Next]_vars => RecordInv'
  BY OutcomesExistStep, RepeatsStep DEF RecordInv
<1>3. QED
  BY <1>1, <1>2, TypedInductive, PTL DEF Spec

\* An invoice that arrives again after an earlier copy was saved never passes a
\* match, whatever has become of the earlier copy: find_duplicate looks at no
\* status (repository.py:105-116).
THEOREM RepeatsNeverClear == Spec => []RepeatNeverClears
<1>1. Init => RepeatNeverClears
  BY DEF Init, RepeatNeverClears
<1>2. ASSUME Typed, RecordInv, RepeatNeverClears, [Next]_vars
      PROVE  RepeatNeverClears'
  <2> SUFFICES ASSUME NEW e \in repeats', entities'[e].kind = "ap_invoice",
                      TRUE \in outcomes'[e]
               PROVE  FALSE
    BY DEF RepeatNeverClears
  <2>1. CASE e \in repeats
    <3>1. e \in Ids /\ Exists(e)
      BY <1>2, <2>1 DEF RecordInv, RepeatsHaveEarlier, Typed, TypeOK
    <3>2. IsInvoice(e)
      BY <1>2, <3>1, SavedStays DEF IsInvoice
    <3>3. TRUE \notin outcomes[e]
      BY <1>2, <2>1, <3>2 DEF RepeatNeverClears, IsInvoice
    <3>4. ~Duplicate(e)
      BY <1>2, <3>1, <3>2, <3>3, InvoiceOutcomes
    <3>5. PICK f \in Ids \ {e} : SameKey(f, entities[e].key, "ap_invoice")
      BY <1>2, <2>1, <3>2 DEF RecordInv, RepeatsHaveEarlier
    <3>6. QED
      BY <3>2, <3>4, <3>5 DEF Duplicate, IsInvoice
  <2>2. CASE e \notin repeats
    <3>1. PICK w \in Workers : Save(w)
      BY <1>2, <2>2, Recorders DEF Keeps, entityVars, Marks, MatchInvoice, Conclude,
                                   Correct
    <3>2. e \in Ids /\ ~Exists(e) /\ outcomes'[e] = outcomes[e]
      BY <2>2, <3>1, NewIdIsUnused DEF Save
    <3>3. QED
      BY <1>2, <3>2 DEF RecordInv, OutcomesExist
  <2>3. QED
    BY <2>1, <2>2
<1>3. QED
  BY <1>1, <1>2, RecordInvariant, PTL DEF Spec
---------------------------------------------------------------------------
(* Remittances that are corrected and run again.                           *)

\* A thread that runs the remittance e.
Runs(w, e) == work[w].pc \in {"match", "conclude"} /\ work[w].id = e

\* Unless e is overtaken, who decides or runs it finds it unrejected, and who
\* runs it is alone with it and finds it without a result.
Alone(e) ==
    \A w \in Workers :
        /\ Handles(w, e) => e \notin rejected
        /\ Runs(w, e) => /\ outcomes[e] = {}
                         /\ \A v \in Workers \ {w} : ~Handles(v, e)

AloneInv == \A e \in Ids \ overtaken : IsRemittance(e) => Alone(e)

\* The remittance e has passed, or a thread has found that it does and is about
\* to say so.
Vouched(e) ==
    \/ TRUE \in outcomes[e]
    \/ \E w \in Workers : At(w, "conclude") /\ work[w].id = e /\ work[w].passed

\* Of two that are vouched for under one key, one is rejected.
VouchInv ==
    \A e \in Ids \ overtaken : \A f \in Ids \ (overtaken \cup {e}) :
        (/\ IsRemittance(e) /\ SameKey(f, entities[e].key, "ar_remittance")
         /\ Vouched(e) /\ Vouched(f))
            => e \in rejected \/ f \in rejected

\* Who comes to handle a remittance has just found it decided and unrejected;
\* who comes to run it has just corrected it.
LEMMA HandlersStep ==
    ASSUME Typed, [Next]_vars, NEW e \in Ids, IsRemittance(e), NEW v \in Workers
    PROVE  /\ Handles(v, e)' =>
                \/ Handles(v, e)
                \/ /\ UNCHANGED entityVars
                   /\ outcomes[e] # {} /\ e \notin rejected /\ ~Runs(v, e)'
           /\ Runs(v, e)' =>
                \/ Runs(v, e)
                \/ /\ work[v].id = e /\ \E key \in Corrections : Correct(v, key)
                   /\ \A x \in Workers \ {v} : work'[x] = work[x]
           /\ At(v, "conclude")' /\ work'[v].id = e /\ work'[v].passed =>
                \/ At(v, "conclude") /\ work[v].id = e /\ work[v].passed
                \/ UNCHANGED entityVars /\ ~Duplicate(e)
<1>q. work \in [Workers -> Work]
  BY DEF Typed, TypeOK
<1>1. CASE work'[v] = work[v]
  BY <1>1 DEF Handles, Runs, At
<1>2. CASE Step(v) \/ NewRequest(v)
  <2>o. \A x \in Workers \ {v} : work'[x] = work[x]
    BY <1>q, <1>2, WorkOfOthers
  <2>1. CASE Elsewhere(v)
    BY <2>1 DEF Elsewhere, Handles, Runs, At
  <2>2. CASE Saves(v)
    <3>1. work'[v].id # e
      BY <2>2, NewIdIsUnused DEF Saves, Save, IsRemittance
    <3>2. QED
      BY <3>1 DEF Handles, Runs, At
  <2>3. CASE TakesUp(v)
    BY <2>3 DEF TakesUp, Handles, Runs, At, IsInvoice, IsRemittance
  <2>4. CASE GoesOn(v)
    BY <2>4, <2>o DEF GoesOn, Handles, Runs, At, Correct
  <2>5. QED
    BY <1>q, <1>2, <2>1, <2>2, <2>3, <2>4, StepMoves, RequestMoves
<1>3. ASSUME NEW w \in Workers \ {v}, Step(w) \/ NewRequest(w)
      PROVE  work'[v] = work[v]
  BY <1>q, <1>3, WorkOfOthers
<1>4. CASE UNCHANGED work
  BY <1>1, <1>4
<1>5. QED
  BY <1>1, <1>2, <1>3, <1>4 DEF Next, MarkRead, RejectInvoice, vars

\* A remittance is overtaken for good.
LEMMA OvertakenGrows ==
    ASSUME [Next]_vars
    PROVE  overtaken \subseteq overtaken'
BY Recorders DEF Keeps, entityVars, Marks, RejectInvoice, Reject, Settle, Decided, Save,
                 MatchInvoice, Conclude, Correct

\* A decision of a remittance that another thread handles makes it overtaken.
LEMMA DecidedAlone ==
    ASSUME NEW w \in Workers, overtaken' = Decided(w), work[w].id \notin overtaken'
    PROVE  \A v \in Workers \ {w} : ~Handles(v, work[w].id)
BY DEF Decided

\* A remittance that is not overtaken keeps being rejected.
LEMMA RejectedStays ==
    ASSUME Typed, AloneInv, [Next]_vars,
           NEW e \in Ids \ overtaken, IsRemittance(e), e \in rejected
    PROVE  e \in rejected'
<1>1. \A w \in Workers : ~Handles(w, e)
  BY DEF AloneInv, Alone
<1>2. ASSUME NEW w \in Workers, At(w, "conclude") \/ At(w, "decide")
      PROVE  e # work[w].id
  BY <1>1, <1>2 DEF Handles, At
<1>3. QED
  BY <1>2, Recorders DEF Keeps, entityVars, Marks, RejectInvoice, Reject, Settle, Save,
                         MatchInvoice, Conclude, Correct

\* A decision written by a thread that is alone with a remittance leaves nobody
\* who handles it but that thread; a run finds no result and writes one only
\* when it is over.
LEMMA AloneStep ==
    ASSUME Typed, RecordInv, AloneInv, [Next]_vars
    PROVE  AloneInv'
<1> SUFFICES ASSUME NEW e \in Ids, e \notin overtaken', IsRemittance(e)',
                    NEW w \in Workers
             PROVE  /\ Handles(w, e)' => e \notin rejected'
                    /\ Runs(w, e)' => /\ outcomes'[e] = {}
                                      /\ \A v \in Workers \ {w} : ~Handles(v, e)'
  BY DEF AloneInv, Alone
<1>q. /\ work \in [Workers -> Work] /\ outcomes \in [Ids -> SUBSET BOOLEAN]
      /\ \A v \in Workers : work[v].id \in Ids
  BY DEF Typed, TypeOK, Work
<1>n. e \notin overtaken
  BY OvertakenGrows
<1>1. CASE ~Exists(e)
  <2>1. \A v \in Workers : ~Handles(v, e)
    BY <1>1 DEF Handles, Typed, HandledExist, At, IsRemittance
  <2>2. outcomes[e] = {} /\ e \notin rejected
    BY <1>1 DEF RecordInv, OutcomesExist
  <2>3. PICK u \in Workers : Save(u)
    <3>1. entities'[e] # entities[e]
      BY <1>1 DEF IsRemittance, Exists
    <3>2. ASSUME NEW u \in Workers, NEW key \in Corrections, Correct(u, key)
          PROVE  FALSE
      BY <1>1, <3>1, <3>2, CorrectWrites DEF IsRemittance
    <3>3. QED
      BY <3>1, <3>2, Recorders DEF Keeps, entityVars, Marks, MatchInvoice, Conclude
  <2>4. outcomes'[e] = {} /\ e \notin rejected'
    BY <2>2, <2>3 DEF Save
  <2>5. \A v \in Workers \ {u} : work'[v] = work[v]
    BY <2>3 DEF Save, Become
  <2>6. \A v \in Workers \ {u} : ~Handles(v, e)' /\ ~Runs(v, e)'
    BY <2>1, <2>5 DEF Handles, Runs
  <2>7. QED
    BY <2>4, <2>6
<1>2. CASE Exists(e)
  <2>1. IsRemittance(e)
    BY <1>2, KindStays
  <2>2. Alone(e)
    BY <1>n, <2>1 DEF AloneInv
  <2>3. ASSUME Handles(w, e)' PROVE e \notin rejected'
    <3>1. e \notin rejected
      BY <2>1, <2>2, <2>3, HandlersStep DEF Alone
    <3>2. ASSUME NEW u \in Workers, Reject(u), e = work[u].id PROVE FALSE
      <4>1. \A v \in Workers \ {u} : ~Handles(v, e) /\ work'[v] = work[v]
        BY <3>2, DecidedAlone DEF Reject, Become
      <4>2. work'[u] = IdleWork
        BY <1>q, <3>2, Frame DEF Reject
      <4>3. QED
        BY <2>3, <4>1, <4>2, IdleIsWork DEF Handles
    <3>3. QED
      BY <2>1, <3>1, <3>2, Recorders DEF Keeps, entityVars, Marks, RejectInvoice, IsInvoice,
         IsRemittance, Reject, Settle, Save, MatchInvoice, Conclude, Correct
  <2>4. ASSUME Runs(w, e)'
        PROVE  /\ outcomes'[e] = {}
               /\ \A v \in Workers \ {w} : ~Handles(v, e)'
    <3>1. CASE Runs(w, e)
      <4>1. outcomes[e] = {} /\ \A v \in Workers \ {w} : ~Handles(v, e)
        BY <2>2, <3>1 DEF Alone
      <4>2. \A v \in Workers \ {w} : ~Handles(v, e)'
        BY <2>1, <4>1, HandlersStep
      <4>3. ASSUME NEW u \in Workers, Conclude(u) PROVE e # work[u].id
        <5>1. CASE u = w
          BY <1>q, <2>4, <4>3, <5>1, Frame, IdleIsWork, NextDocumentIsWork
             DEF Conclude, Runs
        <5>2. CASE u # w
          BY <4>1, <4>3, <5>2 DEF Conclude, At, Handles
        <5>3. QED
          BY <5>1, <5>2
      <4>4. ASSUME NEW u \in Workers, MatchInvoice(u) PROVE e # work[u].id
        BY <2>1, <4>4 DEF MatchInvoice, IsInvoice, IsRemittance
      <4>5. ASSUME NEW u \in Workers, NEW key \in Corrections, Correct(u, key)
            PROVE  outcomes'[e] = {}
        BY <4>1, <4>5, CorrectWrites
      <4>6. outcomes'[e] = {}
        BY <1>q, <4>1, <4>3, <4>4, <4>5, Recorders
           DEF Keeps, entityVars, Marks, Save, MatchInvoice, Conclude
      <4>7. QED
        BY <4>2, <4>6
    <3>2. CASE ~Runs(w, e)
      <4>1. /\ work[w].id = e
            /\ \A x \in Workers \ {w} : work'[x] = work[x]
        BY <2>1, <2>4, <3>2, HandlersStep
      <4>2. PICK key \in Corrections : Correct(w, key)
        BY <2>1, <2>4, <3>2, HandlersStep
      <4>3. outcomes'[e] = {}
        BY <4>1, <4>2, CorrectWrites
      <4>4. \A v \in Workers \ {w} : ~Handles(v, e)
        BY <4>1, <4>2, DecidedAlone DEF Correct
      <4>5. QED
        BY <4>1, <4>3, <4>4 DEF Handles
    <3>3. QED
      BY <3>1, <3>2
  <2>5. QED
    BY <2>3, <2>4
<1>3. QED
  BY <1>1, <1>2

\* Who is vouched for after a step was so before it, under the key it had, or
\* has just been found to have no duplicate.
LEMMA VouchedStep ==
    ASSUME Typed, RecordInv, AloneInv, [Next]_vars,
           NEW e \in Ids, e \notin overtaken', IsRemittance(e)', Vouched(e)'
    PROVE  /\ IsRemittance(e) /\ entities'[e] = entities[e]
           /\ Vouched(e) \/ (UNCHANGED entityVars /\ ~Duplicate(e))
<1>q. /\ work \in [Workers -> Work] /\ outcomes \in [Ids -> SUBSET BOOLEAN]
      /\ \A v \in Workers : work[v].id \in Ids
  BY DEF Typed, TypeOK, Work
<1>1. ASSUME NEW u \in Workers, Save(u) PROVE e # NewId
  <2>1. SUFFICES ASSUME e = NewId PROVE FALSE
    OBVIOUS
  <2>2. ~Exists(e) /\ \A v \in Workers \ {u} : work'[v] = work[v]
    BY <1>1, <2>1, NewIdIsUnused DEF Save, Become
  <2>3. outcomes'[e] = {}
    BY <1>1, <2>2 DEF Save, RecordInv, OutcomesExist
  <2>4. PICK v \in Workers : work'[v].pc = "conclude" /\ work'[v].id = e
    BY <2>3 DEF Vouched, At
  <2>5. CASE v = u
    <3>1. work'[u].pc # "conclude"
      <4>1. CASE Become(u, NextDocument(u))
        BY <1>q, <4>1, Frame, NextDocumentIsWork
      <4>2. CASE Become(u, [work[u] EXCEPT !.pc = "match", !.id = NewId])
        <5>1. work'[u] = [work[u] EXCEPT !.pc = "match", !.id = NewId]
          BY <1>q, <4>2, Frame
        <5>2. [work[u] EXCEPT !.pc = "match", !.id = NewId].pc = "match"
          BY <1>q DEF Work
        <5>3. QED
          BY <5>1, <5>2
      <4>3. QED
        BY <1>1, <4>1, <4>2 DEF Save
    <3>2. QED
      BY <2>4, <2>5, <3>1
  <2>6. CASE v # u
    BY <2>2, <2>4, <2>6 DEF Typed, HandledExist, IsRemittance
  <2>7. QED
    BY <2>5, <2>6
<1>2. ASSUME NEW u \in Workers, NEW key \in Corrections, Correct(u, key)
      PROVE  e # work[u].id
  <2>1. SUFFICES ASSUME e = work[u].id PROVE FALSE
    OBVIOUS
  <2>2. outcomes'[e] = {}
    BY <1>2, <2>1, CorrectWrites
  <2>3. PICK v \in Workers : work'[v].pc = "conclude" /\ work'[v].id = e
    BY <2>2 DEF Vouched, At
  <2>4. work'[u] = [work[u] EXCEPT !.pc = "match"]
    BY <1>q, <1>2, Frame DEF Correct
  <2>5. v # u
    BY <1>q, <2>3, <2>4 DEF Work
  <2>6. Handles(v, e)
    BY <1>2, <2>3, <2>5 DEF Correct, Become, Handles
  <2>7. QED
    BY <1>2, <2>1, <2>5, <2>6, DecidedAlone DEF Correct
<1>3. Exists(e)
  <2>1. CASE entities'[e] = entities[e]
    BY <2>1 DEF IsRemittance, Exists
  <2>2. CASE entities'[e] # entities[e]
    BY <1>1, <1>2, <2>2, SaveWrites, CorrectWrites, Recorders
       DEF Keeps, entityVars, Marks, MatchInvoice, Conclude
  <2>3. QED
    BY <2>1, <2>2
<1>4. IsRemittance(e)
  BY <1>3, KindStays
<1>5. entities'[e] = entities[e]
  BY <1>1, <1>2, SaveWrites, CorrectWrites, Recorders
     DEF Keeps, entityVars, Marks, MatchInvoice, Conclude
<1>6. CASE TRUE \in outcomes[e]
  BY <1>4, <1>5, <1>6 DEF Vouched
<1>7. CASE TRUE \notin outcomes[e] /\ TRUE \in outcomes'[e]
  <2>1. ASSUME NEW u \in Workers, MatchInvoice(u) PROVE e # work[u].id
    BY <1>4, <2>1 DEF MatchInvoice, IsInvoice, IsRemittance
  <2>2. PICK u \in Workers : Conclude(u)
    BY <1>q, <1>2, <1>7, <2>1, CorrectWrites, Recorders
       DEF Keeps, entityVars, Marks, Save, MatchInvoice
  <2>3. e = work[u].id /\ work[u].passed
    BY <1>q, <1>7, <2>2 DEF Conclude, Work
  <2>4. Vouched(e)
    BY <2>2, <2>3 DEF Conclude, Vouched
  <2>5. QED
    BY <1>4, <1>5, <2>4
<1>8. CASE TRUE \notin outcomes'[e]
  <2>1. PICK v \in Workers : At(v, "conclude")' /\ work'[v].id = e /\ work'[v].passed
    BY <1>8 DEF Vouched, At
  <2>2. \/ At(v, "conclude") /\ work[v].id = e /\ work[v].passed
        \/ UNCHANGED entityVars /\ ~Duplicate(e)
    BY <1>4, <2>1, HandlersStep
  <2>3. QED
    BY <1>4, <1>5, <2>2 DEF Vouched
<1>9. QED
  BY <1>6, <1>7, <1>8

LEMMA VouchStep ==
    ASSUME Typed, RecordInv, AloneInv, VouchInv, [Next]_vars
    PROVE  VouchInv'
<1> SUFFICES ASSUME NEW e \in Ids, NEW f \in Ids, e # f,
                    e \notin overtaken', f \notin overtaken', IsRemittance(e)',
                    SameKey(f, entities[e].key, "ar_remittance")',
                    Vouched(e)', Vouched(f)'
             PROVE  e \in rejected' \/ f \in rejected'
  BY DEF VouchInv
<1>1. IsRemittance(f)' /\ entities'[f].key = entities'[e].key
  BY DEF SameKey, IsRemittance
<1>2. /\ IsRemittance(e) /\ entities'[e] = entities[e]
      /\ Vouched(e) \/ (UNCHANGED entityVars /\ ~Duplicate(e))
  BY VouchedStep
<1>3. /\ IsRemittance(f) /\ entities'[f] = entities[f]
      /\ Vouched(f) \/ (UNCHANGED entityVars /\ ~Duplicate(f))
  BY <1>1, VouchedStep
<1>4. e \notin overtaken /\ f \notin overtaken
  BY OvertakenGrows
<1>5. /\ SameKey(f, entities[e].key, "ar_remittance")
      /\ SameKey(e, entities[f].key, "ar_remittance")
  BY <1>1, <1>2, <1>3 DEF SameKey, IsRemittance
<1>6. CASE Vouched(e) /\ Vouched(f)
  <2>1. e \in rejected \/ f \in rejected
    BY <1>2, <1>4, <1>5, <1>6 DEF VouchInv
  <2>2. QED
    BY <1>2, <1>3, <1>4, <2>1, RejectedStays
<1>7. CASE UNCHANGED entityVars /\ (~Duplicate(e) \/ ~Duplicate(f))
  BY <1>2, <1>3, <1>5, <1>7 DEF Duplicate, IsRemittance, entityVars
<1>8. QED
  BY <1>2, <1>3, <1>6, <1>7

\* Of two remittances with one customer and reference at most one has passed its
\* last match, unless a reviewer rejected one or a decision of one was overtaken
\* (ar_workflow.py:178-193, 364-390, repository.py:188-207).
THEOREM OnePasses == Spec => []OnePassesPerReference
<1>1. Init => AloneInv /\ VouchInv
  BY DEF Init, AloneInv, VouchInv, IsRemittance, Exists
<1>2. Typed /\ RecordInv /\ AloneInv /\ VouchInv /\ [Next]_vars => AloneInv' /\ VouchInv'
  BY AloneStep, VouchStep
<1>3. Spec => [](AloneInv /\ VouchInv)
  BY <1>1, <1>2, RecordInvariant, PTL DEF Spec
<1>4. VouchInv => OnePassesPerReference
  BY DEF VouchInv, OnePassesPerReference, Vouched
<1>5. QED
  BY <1>3, <1>4, PTL
---------------------------------------------------------------------------
(* Polls.                                                                  *)

\* The documents a thread has still to do something about.
Carries(q, d) ==
    \/ d \in ToSet(q.queue)
    \/ \E n \in DOMAIN q.mail : d \in ToSet(Attachments[q.mail[n]])
    \/ q.pc \in {"classify", "extract"} /\ q.doc = d

\* A thread drops nothing it has fetched: it has a trace, or is still to come.
FetchInv ==
    \A w \in Workers : \A d \in work[w].fetched : Accounted(d) \/ Carries(work[w], d)

\* A trace of a document is never lost.
LEMMA AccountedStays ==
    ASSUME Typed, [Next]_vars, NEW d, Accounted(d)
    PROVE  Accounted(d)'
<1>1. filed \subseteq filed'
  <2>1. ASSUME NEW w \in Workers, Step(w) PROVE filed \subseteq filed'
    BY <2>1 DEF Step, NextMessage, NextAttachment, EndPoll, Classify, ExtractionFails,
                Save, MatchInvoice, MatchRefused, SearchRemittance, Conclude, Reject,
                Settle, Correct, Fails, File
  <2>2. ASSUME NEW w \in Workers, NewRequest(w) PROVE filed' = filed
    BY <2>2 DEF NewRequest, StartPoll, StartUpload, StartRemittance, StartMatch,
                StartDecision
  <2>3. QED
    BY <2>1, <2>2 DEF Next, MarkRead, RejectInvoice, vars
<1>2. CASE d \in filed
  BY <1>1, <1>2 DEF Accounted
<1>3. CASE d \notin filed
  <2>1. PICK e \in Ids : Exists(e) /\ entities[e].doc = d
    BY <1>3 DEF Accounted
  <2>2. entities'[e].doc = d /\ Exists(e)'
    BY <2>1, SavedStays
  <2>3. QED
    BY <2>2 DEF Accounted
<1>4. QED
  BY <1>2, <1>3

\* What a thread still carries of a message it opens is in the queue or in the
\* messages after it.
LEMMA CarriesMessage ==
    ASSUME NEW q \in Work, NEW d, q.mail # <<>>, q.queue = <<>>, q.pc = "next",
           Carries(q, d)
    PROVE  Carries([q EXCEPT !.queue = Attachments[Head(q.mail)], !.mail = Tail(q.mail)], d)
<1> DEFINE q2 == [q EXCEPT !.queue = Attachments[Head(q.mail)], !.mail = Tail(q.mail)]
<1>1. /\ q.mail \in Seq(Messages)
      /\ q2.queue = Attachments[Head(q.mail)] /\ q2.mail = Tail(q.mail)
  BY DEF Work
<1>2. PICK n \in DOMAIN q.mail : d \in ToSet(Attachments[q.mail[n]])
  BY DEF Carries, ToSet
<1>3. CASE n = 1
  <2>1. q.mail[n] = Head(q.mail)
    BY <1>1, <1>3
  <2>2. QED
    BY <1>1, <1>2, <2>1 DEF Carries
<1>4. CASE n # 1
  <2>1. n - 1 \in DOMAIN Tail(q.mail) /\ Tail(q.mail)[n - 1] = q.mail[n]
    BY <1>1, <1>2, <1>4
  <2>2. QED
    BY <1>1, <1>2, <2>1 DEF Carries
<1>5. QED
  BY <1>3, <1>4

\* A document leaves the queue to be taken in hand.
LEMMA CarriesAttachment ==
    ASSUME NEW q \in Work, NEW d, q.queue # <<>>, q.pc = "next", Carries(q, d)
    PROVE  Carries([q EXCEPT !.pc = "classify", !.doc = Head(q.queue),
                             !.queue = Tail(q.queue)], d)
<1> DEFINE q2 == [q EXCEPT !.pc = "classify", !.doc = Head(q.queue),
                           !.queue = Tail(q.queue)]
<1>1. /\ q.queue \in Seq(Documents) /\ q2.pc = "classify"
      /\ q2.doc = Head(q.queue) /\ q2.queue = Tail(q.queue) /\ q2.mail = q.mail
  BY DEF Work
<1>2. CASE d \in ToSet(q.queue)
  <2>1. PICK n \in DOMAIN q.queue : d = q.queue[n]
    BY <1>2 DEF ToSet
  <2>2. CASE n = 1
    BY <1>1, <2>1, <2>2 DEF Carries
  <2>3. CASE n # 1
    <3>1. n - 1 \in DOMAIN Tail(q.queue) /\ Tail(q.queue)[n - 1] = q.queue[n]
      BY <1>1, <2>1, <2>3
    <3>2. d \in ToSet(Tail(q.queue))
      BY <2>1, <3>1 DEF ToSet
    <3>3. QED
      BY <1>1, <3>2 DEF Carries
  <2>4. QED
    BY <2>2, <2>3
<1>3. CASE \E n \in DOMAIN q.mail : d \in ToSet(Attachments[q.mail[n]])
  BY <1>1, <1>3 DEF Carries
<1>4. QED
  BY <1>2, <1>3 DEF Carries

\* When a document is done with, all that was carried but it is still carried.
LEMMA CarriesOn ==
    ASSUME work \in [Workers -> Work], NEW w \in Workers, NEW d, Carries(work[w], d),
           d # work[w].doc \/ work[w].pc \notin {"classify", "extract"}
    PROVE  Carries(NextDocument(w), d)
BY NextDocumentIsWork DEF Carries

\* A step of a thread: what it still has fetched it still carries, or there is
\* now a trace of it.
LEMMA FetchStep ==
    ASSUME Typed, FetchInv, NEW w \in Workers, Step(w) \/ NewRequest(w),
           NEW d \in work'[w].fetched
    PROVE  Accounted(d)' \/ Carries(work'[w], d)
<1> DEFINE q == work[w]
           Goal == Accounted(d)' \/ Carries(work'[w], d)
<1>q. q \in Work /\ work \in [Workers -> Work]
  BY DEF Typed, TypeOK
<1>n. [Next]_vars
  BY DEF Next
<1>a. ASSUME d \in q.fetched, Carries(q, d) => Carries(work'[w], d)
      PROVE  Goal
  BY <1>a, <1>n, AccountedStays DEF FetchInv
<1>i. CASE Become(w, IdleWork)
  BY <1>i, <1>q, Frame, IdleIsWork
<1>d. ASSUME Become(w, NextDocument(w)),
             d = q.doc /\ q.pc \in {"classify", "extract"} => Accounted(d)'
      PROVE  Goal
  <2>1. work'[w] = NextDocument(w) /\ d \in q.fetched
    BY <1>d, <1>q, Frame, NextDocumentIsWork
  <2>2. CASE d = q.doc /\ q.pc \in {"classify", "extract"}
    BY <1>d, <2>2
  <2>3. CASE ~(d = q.doc /\ q.pc \in {"classify", "extract"})
    BY <1>a, <1>q, <2>1, <2>3, CarriesOn
  <2>4. QED
    BY <2>2, <2>3
<1>f. CASE File(w)
  <2>1. d = q.doc => Accounted(d)'
    BY <1>f DEF File, Accounted
  <2>2. QED
    BY <1>d, <1>f, <2>1 DEF File
<1>1. CASE NextMessage(w)
  <2> DEFINE q2 == [q EXCEPT !.queue = Attachments[Head(q.mail)], !.mail = Tail(q.mail)]
  <2>1. work'[w] = q2
    BY <1>q, <1>1, Frame DEF NextMessage
  <2>2. q2.fetched = q.fetched
    BY <1>q DEF Work
  <2>3. Carries(q, d) => Carries(q2, d)
    BY <1>q, <1>1, CarriesMessage DEF NextMessage, At
  <2>4. QED
    BY <1>a, <2>1, <2>2, <2>3
<1>2. CASE NextAttachment(w)
  <2> DEFINE q2 == [q EXCEPT !.pc = "classify", !.doc = Head(q.queue),
                             !.queue = Tail(q.queue)]
  <2>1. work'[w] = q2
    BY <1>q, <1>2, Frame DEF NextAttachment
  <2>2. q2.fetched = q.fetched
    BY <1>q DEF Work
  <2>3. Carries(q, d) => Carries(q2, d)
    BY <1>q, <1>2, CarriesAttachment DEF NextAttachment, At
  <2>4. QED
    BY <1>a, <2>1, <2>2, <2>3
<1>3. ASSUME NEW supervised \in Kinds, Classify(w, supervised)
      PROVE  Goal
  <2> DEFINE kind == Classification(DeterministicKind(w), supervised)
             q2 == [q EXCEPT !.kind = kind, !.pc = "extract"]
  <2>1. CASE Become(w, q2)
    <3>1. work'[w] = q2
      BY <1>q, <2>1, Frame
    <3>2. /\ q2.fetched = q.fetched /\ q2.queue = q.queue /\ q2.mail = q.mail
          /\ q2.doc = q.doc /\ q2.pc = "extract"
      BY <1>q DEF Work
    <3>3. Carries(q, d) => Carries(q2, d)
      BY <3>2 DEF Carries
    <3>4. QED
      BY <1>a, <3>1, <3>2, <3>3
  <2>2. QED
    BY <1>3, <1>f, <2>1 DEF Classify
<1>4. CASE ExtractionFails(w)
  BY <1>4, <1>f DEF ExtractionFails
<1>5. CASE Save(w)
  <2> DEFINE q2 == [q EXCEPT !.pc = "match", !.id = NewId]
  <2>1. PICK c : c = q.doc
    OBVIOUS
  <2>2. PICK e \in Ids : e = NewId
    BY <1>5, NewIdIsUnused DEF Save
  <2>3. entities'[e] = [doc |-> c, kind |-> q.kind, key |-> DocKey[c]]
    BY <1>5, <2>1, <2>2, SaveWrites
  <2>4. entities'[e] \in Entity
    BY <1>5, <2>2, SaveWrites
  <2>5. Accounted(c)'
    BY <2>3, <2>4, IntakeConstants DEF Accounted, Exists
  <2>6. CASE Become(w, q2)
    <3>1. work'[w] = q2
      BY <1>q, <2>6, Frame
    <3>2. /\ q2.fetched = q.fetched /\ q2.queue = q.queue /\ q2.mail = q.mail
      BY <1>q DEF Work
    <3>3. CASE d = c
      BY <2>5, <3>3
    <3>4. CASE d # c
      <4>1. Carries(q, d) => Carries(q2, d)
        BY <2>1, <3>2, <3>4 DEF Carries
      <4>2. QED
        BY <1>a, <3>1, <3>2, <4>1
    <3>5. QED
      BY <3>3, <3>4
  <2>7. CASE Become(w, NextDocument(w))
    <3>1. work'[w] = NextDocument(w) /\ d \in q.fetched
      BY <1>q, <2>7, Frame, NextDocumentIsWork
    <3>2. CASE d = c
      BY <2>5, <3>2
    <3>3. CASE d # c
      BY <1>a, <1>q, <2>1, <3>1, <3>3, CarriesOn
    <3>4. QED
      BY <3>2, <3>3
  <2>8. QED
    BY <1>5, <2>6, <2>7 DEF Save
<1>6. CASE MatchInvoice(w) \/ Conclude(w)
  BY <1>6, <1>d, <1>f, <1>i DEF MatchInvoice, Conclude, At
<1>7. CASE MatchRefused(w) \/ EndPoll(w) \/ Reject(w) \/ Settle(w) \/ Fails(w)
  BY <1>7, <1>f, <1>i DEF MatchRefused, EndPoll, Reject, Settle, Fails
<1>8. ASSUME NEW batch \in SetToSeqs(unread), StartPoll(w, batch)
      PROVE  Goal
  <2> DEFINE mail == FetchedBy(batch)
             docs == UNION {ToSet(Attachments[mail[n]]) : n \in DOMAIN mail}
             q2 == [IdleWork EXCEPT !.pc = "next", !.mail = mail, !.fetched = docs]
  <2>1. work'[w] = q2
    BY <1>q, <1>8, Frame DEF StartPoll
  <2>2. q2.mail = mail /\ q2.fetched = docs
    BY IdleIsWork DEF Work
  <2>3. PICK n \in DOMAIN mail : d \in ToSet(Attachments[mail[n]])
    BY <2>1, <2>2
  <2>4. QED
    BY <2>1, <2>2, <2>3 DEF Carries
<1>9. ASSUME NEW route, NEW doc, NEW hint, StartUpload(w, route, doc, hint)
      PROVE  Goal
  <2> DEFINE q2 == [IdleWork EXCEPT !.pc = "classify", !.route = route,
                                    !.doc = doc, !.hint = hint]
  <2>1. work'[w] = q2
    BY <1>q, <1>9, Frame DEF StartUpload
  <2>2. q2.fetched = {}
    BY IdleIsWork DEF Work
  <2>3. QED
    BY <2>1, <2>2
<1>10. ASSUME NEW e \in Ids, StartMatch(w, e)
       PROVE  Goal
  <2> DEFINE q2 == [IdleWork EXCEPT !.pc = "match", !.route = "match_po", !.id = e]
  <2>1. work'[w] = q2
    BY <1>q, <1>10, Frame DEF StartMatch
  <2>2. q2.fetched = {}
    BY IdleIsWork DEF Work
  <2>3. QED
    BY <2>1, <2>2
<1>11. ASSUME NEW e \in Ids, StartDecision(w, e)
       PROVE  Goal
  <2> DEFINE q2 == [IdleWork EXCEPT !.pc = "decide", !.route = "decide", !.id = e]
  <2>1. work'[w] = q2
    BY <1>q, <1>11, Frame DEF StartDecision
  <2>2. q2.fetched = {}
    BY IdleIsWork DEF Work
  <2>3. QED
    BY <2>1, <2>2
<1>12. ASSUME NEW suits \in BOOLEAN, SearchRemittance(w, suits)
       PROVE  Goal
  <2> DEFINE passed == suits /\ ~Duplicate(q.id)
             q2 == [q EXCEPT !.pc = "conclude", !.passed = passed]
  <2>1. work'[w] = q2
    BY <1>q, <1>12, Frame DEF SearchRemittance
  <2>2. /\ q2.fetched = q.fetched /\ q2.queue = q.queue /\ q2.mail = q.mail
        /\ q.pc = "match"
    BY <1>q, <1>12 DEF Work, SearchRemittance, At
  <2>3. Carries(q, d) => Carries(q2, d)
    BY <2>2 DEF Carries
  <2>4. QED
    BY <1>a, <2>1, <2>2, <2>3
<1>13. ASSUME NEW key \in Corrections, Correct(w, key)
       PROVE  Goal
  <2> DEFINE q2 == [q EXCEPT !.pc = "match"]
  <2>1. work'[w] = q2
    BY <1>q, <1>13, Frame DEF Correct
  <2>2. /\ q2.fetched = q.fetched /\ q2.queue = q.queue /\ q2.mail = q.mail
        /\ q.pc = "decide"
    BY <1>q, <1>13 DEF Work, Correct, At
  <2>3. Carries(q, d) => Carries(q2, d)
    BY <2>2 DEF Carries
  <2>4. QED
    BY <1>a, <2>1, <2>2, <2>3
<1>14. ASSUME NEW doc, StartRemittance(w, doc)
       PROVE  Goal
  <2> DEFINE q2 == [IdleWork EXCEPT !.pc = "extract", !.route = "ingest_remittance",
                                    !.doc = doc, !.kind = "ar_remittance"]
  <2>1. work'[w] = q2
    BY <1>q, <1>14, Frame DEF StartRemittance
  <2>2. q2.fetched = {}
    BY IdleIsWork DEF Work
  <2>3. QED
    BY <2>1, <2>2
<1>15. QED
  BY <1>1, <1>2, <1>3, <1>4, <1>5, <1>6, <1>7, <1>8, <1>9, <1>10, <1>11, <1>12, <1>13,
     <1>14 DEF Step, NewRequest

\* A poll that reaches its end has left a trace of every attachment it fetched
\* (api.py:358-379).
THEOREM PollsAccount == Spec => []PollAccounts
<1>1. Init => FetchInv
  BY IdleIsWork DEF Init, FetchInv
<1>2. ASSUME Typed, FetchInv, [Next]_vars
      PROVE  FetchInv'
  <2> SUFFICES ASSUME NEW v \in Workers, NEW d \in work'[v].fetched
               PROVE  Accounted(d)' \/ Carries(work'[v], d)
    BY DEF FetchInv, Carries
  <2>1. CASE work'[v] = work[v]
    BY <1>2, <2>1, AccountedStays DEF FetchInv
  <2>2. ASSUME NEW w \in Workers, Step(w) \/ NewRequest(w)
        PROVE  Accounted(d)' \/ Carries(work'[v], d)
    <3>1. CASE v = w
      BY <1>2, <2>2, <3>1, FetchStep
    <3>2. CASE v # w
      <4>1. work \in [Workers -> Work]
        BY <1>2 DEF Typed, TypeOK
      <4>2. QED
        BY <2>1, <2>2, <3>2, <4>1, WorkOfOthers
    <3>3. QED
      BY <3>1, <3>2
  <2>3. QED
    BY <1>2, <2>1, <2>2 DEF Next, MarkRead, RejectInvoice, vars
<1>3. ASSUME Typed, FetchInv PROVE PollAccounts
  <2> SUFFICES ASSUME NEW w \in Workers, Fetched(w), NEW d \in work[w].fetched
               PROVE  Accounted(d)
    BY DEF PollAccounts
  <2>1. ~Carries(work[w], d)
    BY DEF Fetched, At, Carries, ToSet
  <2>2. QED
    BY <1>3, <2>1 DEF FetchInv
<1>4. QED
  BY <1>1, <1>2, <1>3, TypedInductive, PTL DEF Spec
=============================================================================
