---------------------------- MODULE VerdictProofs ----------------------------
(***************************************************************************)
(* What the stored record says, what its verdict rests on and what every   *)
(* caller is told, for any number of submissions, any policies, requests,  *)
(* contents and faults; and that Investigator.run implements the register  *)
(* of one idempotency key.                                                 *)
(***************************************************************************)
EXTENDS InvestigatorProofs, Cli, FiniteSetTheorems

(***************************************************************************)
(* The audit of a record, as the number of its entries of each kind.       *)
(***************************************************************************)
NotesIn(rec, kind)    == rec.audit[<<kind, "-">>]
CallsIn(rec, kind, k) == rec.audit[<<kind, k>>]

(***************************************************************************)
(* The invariant.  It says of the record alone what was promised about it, *)
(* and of the claimer, at each place in run, how the local variables and   *)
(* the record agree.  A failed write may leave either record, so what is   *)
(* said of the record alone has to hold of both.                           *)
(***************************************************************************)
\* A record that is still being written.
OpenFor(c, rec) ==
  /\ rec.metadata = Metadata(c) /\ rec.result = None /\ rec.state \notin TERMINAL
  /\ IsFiniteSet(rec.evidence)
  /\ \A item \in rec.evidence : WithinPolicy(c.policy, item.request)

\* The local counters are those of the record; an item is stored before it is
\* noted.
Counted(w, rec, unnoted) ==
  /\ w.ledger = rec.evidence
  /\ \A k \in CallKinds : w.usage[k] = CallsIn(rec, "budget_reserved", k)
  /\ w.usage["evidence_items"] = Cardinality(rec.evidence)
  /\ w.usage["evidence_items"] = NotesIn(rec, "evidence_added") + unnoted

\* Nothing has failed so far, and the calls that are out are of the kinds in
\* pending.
Unfailed(rec, pending) ==
  /\ NotesIn(rec, "failure") = 0
  /\ NotesIn(rec, "policy_rejected") = 0
  /\ NotesIn(rec, "adapter_rejected") = 0
  /\ \A k \in CallKinds :
       CallsIn(rec, "call_started", k) =
         CallsIn(rec, "call_completed", k) + (IF k \in pending THEN 1 ELSE 0)

\* A result that the rest of the record bears out.
BorneOut(result, rec) ==
  /\ \A k \in CallKinds : result.usage[k] = CallsIn(rec, "budget_reserved", k)
  /\ result.usage["evidence_items"] = Cardinality(rec.evidence)
  /\ result.usage["evidence_items"] = NotesIn(rec, "evidence_added")
  /\ NotesIn(rec, "failure") > 0 =>
       result.status \notin Conclusive /\ result.risk = "unknown"
  /\ result.status \in Conclusive =>
       /\ result.cited # {} /\ result.cited \subseteq rec.evidence
       /\ RequiredRequests(rec.metadata.event) \subseteq Collected(rec.evidence)
       /\ ~result.missing /\ result.risk # "unknown"
       /\ Unfailed(rec, {})

RecordOK(rec) ==
  /\ rec.metadata = None => rec = NoRecord
  /\ \A item \in rec.evidence : WithinPolicy(rec.metadata.policy, item.request)
  /\ rec.result # None => BorneOut(rec.result, rec)
  /\ rec.state \in TERMINAL =>
       rec.result # None /\ rec.state = STATUS_STATE[rec.result.status]

Before  == {"idle", "lookup", "claim", "relookup", "create"}
Opened  ==
  {"open", "load", "loaded", "admit", "dispatch", "context", "reserve", "start",
   "invoke", "waiting", "answered", "acted", "authorize", "collect", "note",
   "drafted", "ground"}
CallOut == {"invoke", "waiting", "answered"}
Asking  == {"reserve", "start", "waiting", "collect"} \cup CallOut

Pending(at, op) == IF at \in CallOut THEN {KindOf(op)} ELSE {}

LinkOf(at, c, w, rec) ==
  /\ at \in Before => w = Fresh
  /\ at = "create" => rec = NoRecord
  /\ at \in Opened \cup {"failing", "save"} =>
       OpenFor(c, rec) /\ Counted(w, rec, IF at = "note" THEN 1 ELSE 0)
  /\ at \in Opened => Unfailed(rec, Pending(at, w.operation))
  /\ at \in Asking /\ w.operation = "tool" => WithinPolicy(c.policy, w.request)
  /\ at \in {"start", "invoke"} =>
       \A k \in Counters :
         w.usage[k] - (IF k = KindOf(w.operation) THEN 1 ELSE 0) < c.policy.limits[k]
  /\ at = "save" => BorneOut(w.result, rec)
  /\ at \in {"mark", "reread"} => rec.metadata = Metadata(c)
  /\ at = "mark" => rec.result = w.result /\ rec.state \notin TERMINAL
  /\ at = "reread" => rec.state \in TERMINAL

\* What a submission was told is what the record says from then on; a claimer
\* that an unencodable answer ended leaves a record without a result.
ToldOf(at, c, claimed, answer, rec) ==
  /\ at # "done" => answer.kind = "none"
  /\ at = "idle" => c = None
  /\ c # None /\ answer = Raised("UnicodeEncodeError") => claimed /\ rec.result = None
  /\ answer.kind = "returned" =>
       /\ answer.view.metadata # None => answer.view.metadata = Metadata(c)
       /\ answer.view.result # None => answer.view.result = rec.result
       /\ answer.view.state \in TERMINAL => answer.view = View(rec)
       /\ claimed => answer.view.state \in TERMINAL

Later   == Locations \ ({"done"} \cup Before)

\* A submission that is still looking the key up has not claimed it.
PlaceOf(at, claimed, claimedAtAll) ==
  /\ at = "relookup" => claimedAtAll
  /\ at \in Before \ {"create"} => ~claimed

RecordInv ==
  /\ ~dir => record = NoRecord
  /\ \A s \in Submissions : PlaceOf(pc[s], s \in claims, dir)
  /\ RecordOK(record)
  /\ \A s \in Submissions : LinkOf(pc[s], config[s], work[s], record)
  /\ \A s \in Submissions :
       ToldOf(pc[s], config[s], s \in claims, outcome[s], record)

(***************************************************************************)
(* What the writing of an entry changes in a record.                       *)
(***************************************************************************)
SameFields(new, rec) ==
  /\ new.metadata = rec.metadata /\ new.state = rec.state
  /\ new.evidence = rec.evidence /\ new.result = rec.result

LEMMA TallyTypes ==
  ASSUME NEW rec \in Records
  PROVE  /\ \A e \in PlainEntries : NotesIn(rec, e) \in Nat
         /\ \A e \in CallEntries, k \in CallKinds : CallsIn(rec, e, k) \in Nat
  BY DEF Records, Entries, NotesIn, CallsIn

LEMMA NotedTally ==
  ASSUME NEW rec \in Records, NEW kind \in PlainEntries
  PROVE  /\ Noted(rec, kind) \in Records
         /\ SameFields(Noted(rec, kind), rec)
         /\ \A e \in PlainEntries :
              NotesIn(Noted(rec, kind), e) =
                IF e = kind THEN NotesIn(rec, e) + 1 ELSE NotesIn(rec, e)
         /\ \A e \in CallEntries, k \in CallKinds :
              CallsIn(Noted(rec, kind), e, k) = CallsIn(rec, e, k)
  <1> DEFINE new == Noted(rec, kind)
  <1>1. /\ \A e \in PlainEntries : <<e, "-">> \in Entries
        /\ \A e \in CallEntries, k \in CallKinds : <<e, k>> \in Entries
    BY DEF Entries
  <1>2. rec.audit \in [Entries -> Nat]
    BY DEF Records
  <1>3. new.audit = [rec.audit EXCEPT ![<<kind, "-">>] = @ + 1] /\ SameFields(new, rec)
    BY DEF Noted, Records, SameFields
  <1>4. new \in Records
    BY NotedType
  <1>5. \A e \in CallEntries : e # kind
    BY DEF PlainEntries, CallEntries
  <1> HIDE DEF new
  <1>6. \A e \in PlainEntries :
          NotesIn(new, e) = IF e = kind THEN NotesIn(rec, e) + 1 ELSE NotesIn(rec, e)
    BY <1>1, <1>2, <1>3 DEF NotesIn
  <1>7. \A e \in CallEntries, k \in CallKinds : CallsIn(new, e, k) = CallsIn(rec, e, k)
    BY <1>1, <1>2, <1>3, <1>5 DEF CallsIn
  <1> QED BY <1>3, <1>4, <1>6, <1>7 DEF new

LEMMA NotedCallTally ==
  ASSUME NEW rec \in Records, NEW kind \in CallEntries, NEW op \in Operations
  PROVE  /\ NotedCall(rec, kind, op) \in Records
         /\ SameFields(NotedCall(rec, kind, op), rec)
         /\ \A e \in PlainEntries : NotesIn(NotedCall(rec, kind, op), e) = NotesIn(rec, e)
         /\ \A e \in CallEntries, k \in CallKinds :
              CallsIn(NotedCall(rec, kind, op), e, k) =
                IF e = kind /\ k = KindOf(op) THEN CallsIn(rec, e, k) + 1
                                              ELSE CallsIn(rec, e, k)
  <1> DEFINE new == NotedCall(rec, kind, op)
  <1>1. /\ \A e \in PlainEntries : <<e, "-">> \in Entries
        /\ \A e \in CallEntries, k \in CallKinds : <<e, k>> \in Entries
        /\ KindOf(op) \in CallKinds
    BY DEF Entries, KindOf, CallKinds
  <1>2. rec.audit \in [Entries -> Nat]
    BY DEF Records
  <1>3. /\ new.audit = [rec.audit EXCEPT ![<<kind, KindOf(op)>>] = @ + 1]
        /\ SameFields(new, rec)
    BY DEF NotedCall, Records, SameFields
  <1>4. new \in Records
    BY NotedCallType
  <1>5. \A e \in PlainEntries : e # kind
    BY DEF PlainEntries, CallEntries
  <1> HIDE DEF new
  <1>6. \A e \in PlainEntries : NotesIn(new, e) = NotesIn(rec, e)
    BY <1>1, <1>2, <1>3, <1>5 DEF NotesIn
  <1>7. \A e \in CallEntries, k \in CallKinds :
          CallsIn(new, e, k) = IF e = kind /\ k = KindOf(op) THEN CallsIn(rec, e, k) + 1
                                                             ELSE CallsIn(rec, e, k)
    BY <1>1, <1>2, <1>3 DEF CallsIn
  <1> QED BY <1>3, <1>4, <1>6, <1>7 DEF new

\* What these counts are of: the entries that the invariant mentions.
Mentioned ==
  /\ {"failure", "policy_rejected", "adapter_rejected", "evidence_added"} \subseteq PlainEntries
  /\ {"budget_reserved", "call_started", "call_completed"} = CallEntries

LEMMA MentionedEntries == Mentioned
  BY DEF Mentioned, PlainEntries, CallEntries

\* An entry leaves a record open, a call or a step noted changes one count.
LEMMA OpenSame ==
  ASSUME NEW c, NEW rec, NEW new, SameFields(new, rec), OpenFor(c, rec)
  PROVE  OpenFor(c, new)
  BY DEF SameFields, OpenFor

LEMMA OpenIsOK ==
  ASSUME NEW c \in Configs, NEW rec, OpenFor(c, rec)
  PROVE  RecordOK(rec)
  <1>1. Metadata(c) # None
    BY NoneAssumption DEF Metadatas
  <1>2. Metadata(c).policy = c.policy
    BY DEF Metadata
  <1> QED BY <1>1, <1>2 DEF RecordOK, OpenFor

(***************************************************************************)
(* A step of one submission.                                               *)
(***************************************************************************)
LEMMA LaterPlaces ==
  /\ {"load", "admit", "dispatch", "context", "reserve", "start", "invoke", "waiting",
      "answered", "acted", "drafted", "collect", "note", "failing", "save", "mark",
      "reread", "crashed", "open"} \subseteq Later
  /\ Opened \subseteq Later
  /\ \A x \in Later : x \in Locations /\ x # "done" /\ x \notin Before
  BY DEF Later, Locations, Before, Opened

\* A bystander's link does not depend on the record.
LEMMA BystanderLink ==
  ASSUME NEW at \in Bystander, NEW c, NEW w, NEW rec, NEW other, LinkOf(at, c, w, rec)
  PROVE  LinkOf(at, c, w, other)
  BY DEF LinkOf, Bystander, Opened, Asking, CallOut

LEMMA GoneLink ==
  ASSUME NEW at \in {"done", "crashed"}, NEW c, NEW w, NEW rec
  PROVE  LinkOf(at, c, w, rec)
  BY DEF LinkOf, Before, Opened, Asking, CallOut

\* A submission that was told nothing.
LEMMA Unanswered ==
  ASSUME NEW at, at # "idle", NEW c, NEW claimed, NEW answer, answer.kind = "none", NEW rec
  PROVE  ToldOf(at, c, claimed, answer, rec)
  BY DEF ToldOf, Raised

LEMMA AnswerAt ==
  ASSUME RecordInv, NEW s \in Submissions, pc[s] # "done"
  PROVE  outcome[s].kind = "none"
  BY DEF RecordInv, ToldOf

\* A step that stores nothing and answers nobody.
LEMMA LinkQuiet ==
  ASSUME TypeInv, RecordInv, NEW s \in Submissions, NEW x, NEW w,
         pc[s] # "done", x \in Later,
         pc' = [pc EXCEPT ![s] = x], work' = [work EXCEPT ![s] = w],
         UNCHANGED <<dir, record, config, claims, outcome>>,
         LinkOf(x, config[s], w, record)
  PROVE  RecordInv'
  <1>1. /\ pc'[s] = x /\ work'[s] = w
        /\ \A t \in Submissions \ {s} : pc'[t] = pc[t] /\ work'[t] = work[t]
    BY DEF TypeInv, TypeOK
  <1>2. \A t \in Submissions : LinkOf(pc'[t], config[t], work'[t], record)
    BY <1>1 DEF RecordInv
  <1>3. \A t \in Submissions : ToldOf(pc'[t], config[t], t \in claims, outcome[t], record)
    BY <1>1, LaterPlaces, Unanswered, AnswerAt DEF RecordInv, Before
  <1>4. \A t \in Submissions : PlaceOf(pc'[t], t \in claims, dir)
    BY <1>1, LaterPlaces DEF RecordInv, Before, PlaceOf
  <1> QED BY <1>2, <1>3, <1>4 DEF RecordInv

\* A step that only answers the caller.
LEMMA LinkEnd ==
  ASSUME TypeInv, RecordInv, NEW s \in Submissions, NEW answer, End(s, answer),
         UNCHANGED <<dir, record, config, claims, work>>,
         ToldOf("done", config[s], s \in claims, answer, record)
  PROVE  RecordInv'
  <1>1. /\ pc'[s] = "done" /\ outcome'[s] = answer
        /\ \A t \in Submissions \ {s} : pc'[t] = pc[t] /\ outcome'[t] = outcome[t]
    BY DEF End, Goto, TypeInv, TypeOK
  <1>2. \A t \in Submissions : LinkOf(pc'[t], config[t], work[t], record)
    BY <1>1, GoneLink DEF RecordInv
  <1>3. \A t \in Submissions : ToldOf(pc'[t], config[t], t \in claims, outcome'[t], record)
    BY <1>1 DEF RecordInv
  <1>4. \A t \in Submissions : PlaceOf(pc'[t], t \in claims, dir)
    BY <1>1 DEF RecordInv, Before, PlaceOf
  <1> QED BY <1>2, <1>3, <1>4 DEF RecordInv

\* A refusal never contradicts the record.
LEMMA RaisedTold ==
  ASSUME NEW c, NEW claimed, NEW error, NEW rec,
         \/ error # "UnicodeEncodeError"
         \/ c = None
         \/ claimed /\ rec.result = None
  PROVE  ToldOf("done", c, claimed, Raised(error), rec)
  BY DEF ToldOf, Raised

\* A write of the claimer.
LEMMA LinkWrite ==
  ASSUME TypeInv, ClaimInv, RecordInv, NEW s \in claims, NEW rec \in Records,
         NEW next \in Later, NEW w,
         pc[s] # "done", record.state \notin TERMINAL, Write(s, rec, next),
         work' = [work EXCEPT ![s] = w], UNCHANGED <<dir, config, claims>>,
         RecordOK(rec), record.result # None => rec.result = record.result,
         LinkOf(next, config[s], w, rec)
  PROVE  RecordInv'
  <1>1. s \in Submissions /\ dir
    BY DEF TypeInv, TypeOK, ClaimInv
  <1>2. \A t \in Submissions \ {s} : /\ pc'[t] = pc[t] /\ outcome'[t] = outcome[t]
                                     /\ work'[t] = work[t] /\ pc[t] \in Bystander
    BY <1>1 DEF Write, Goto, End, TypeInv, TypeOK, ClaimInv, OneInvestigator
  <1>3. /\ work'[s] = w /\ record' \in {record, rec}
        /\ \/ pc'[s] = next /\ record' = rec /\ outcome'[s] = outcome[s]
           \/ pc'[s] = "done" /\ outcome'[s] = Raised("PersistenceError")
    BY <1>1 DEF Write, Goto, End, TypeInv, TypeOK
  <1>4. RecordOK(record')
    BY <1>3 DEF RecordInv
  <1>5. ASSUME NEW t \in Submissions PROVE LinkOf(pc'[t], config[t], work'[t], record')
    <2>1. CASE t = s
      BY <1>3, <2>1, GoneLink
    <2>2. CASE t # s
      BY <1>2, <2>2, BystanderLink DEF RecordInv
    <2> QED BY <2>1, <2>2
  <1>6. ASSUME NEW t \in Submissions
        PROVE  ToldOf(pc'[t], config[t], t \in claims, outcome'[t], record')
    <2>1. CASE t = s
      <3>1. outcome[s].kind = "none" /\ next # "idle"
        BY <1>1, AnswerAt, LaterPlaces DEF Before
      <3>3. CASE pc'[s] = next /\ outcome'[s] = outcome[s]
        BY <2>1, <3>1, <3>3, Unanswered
      <3> QED BY <1>3, <2>1, <3>3, RaisedTold
    <2>2. CASE t # s
      <3>1. ToldOf(pc[t], config[t], t \in claims, outcome[t], record)
        BY DEF RecordInv
      <3>2. outcome[t].kind = "returned" /\ outcome[t].view.state \in TERMINAL =>
              outcome[t].view.state = record.state
        BY <3>1 DEF ToldOf, View
      <3>3. t \notin claims
        BY <1>1, <2>2 DEF ClaimInv, OneInvestigator
      <3> QED BY <1>2, <1>3, <2>2, <3>1, <3>2, <3>3 DEF ToldOf
    <2> QED BY <2>1, <2>2
  <1>7. \A t \in Submissions : PlaceOf(pc'[t], t \in claims, dir)
    BY <1>1, <1>2, <1>3, LaterPlaces DEF RecordInv, Before, PlaceOf
  <1> QED BY <1>1, <1>4, <1>5, <1>6, <1>7 DEF RecordInv

LEMMA LinkPersist ==
  ASSUME TypeInv, ClaimInv, RecordInv, NEW s \in claims, NEW rec \in Records,
         NEW next \in Later, NEW w,
         pc[s] # "done", Persist(s, rec, next),
         work' = [work EXCEPT ![s] = w], UNCHANGED <<dir, config, claims>>,
         RecordOK(rec), record.result # None => rec.result = record.result,
         LinkOf(next, config[s], w, rec)
  PROVE  RecordInv'
  <1>1. CASE Writable
    BY <1>1, LinkWrite DEF Persist, Writable
  <1>2. CASE ~Writable
    <2>1. s \in Submissions /\ dir
      BY DEF TypeInv, TypeOK, ClaimInv
    <2>2. /\ pc'[s] = "done" /\ outcome'[s] = Raised("PersistenceError") /\ record' = record
          /\ \A t \in Submissions \ {s} : /\ pc'[t] = pc[t] /\ outcome'[t] = outcome[t]
                                          /\ work'[t] = work[t]
      BY <1>2, <2>1 DEF Persist, Goto, End, TypeInv, TypeOK
    <2>3. \A t \in Submissions : LinkOf(pc'[t], config[t], work'[t], record)
      BY <2>2, GoneLink DEF RecordInv
    <2>4. \A t \in Submissions :
            ToldOf(pc'[t], config[t], t \in claims, outcome'[t], record)
      BY <2>2, RaisedTold DEF RecordInv
    <2>5. \A t \in Submissions : PlaceOf(pc'[t], t \in claims, dir)
      BY <2>2 DEF RecordInv, Before, PlaceOf
    <2> QED BY <2>1, <2>2, <2>3, <2>4, <2>5 DEF RecordInv
  <1> QED BY <1>1, <1>2

(***************************************************************************)
(* The steps of a claimer that is still collecting.                        *)
(***************************************************************************)
\* What the claimer knows about itself.
LEMMA LinkAt ==
  ASSUME TypeInv, RecordInv, NEW s \in Submissions
  PROVE  /\ record \in Records /\ work[s] \in Works /\ work[s].operation \in Operations
         /\ KindOf(work[s].operation) \in CallKinds
         /\ pc[s] \notin {"idle", "done", "crashed"} => config[s] \in Configs
         /\ LinkOf(pc[s], config[s], work[s], record)
         /\ ShapeOf(pc[s], config[s], work[s])
         /\ RecordOK(record)
  BY DEF TypeInv, TypeOK, RecordInv, Works, KindOf, CallKinds, Shapes, ShapeOf

\* Every error inside the try block, but for the one between an item and its
\* note, which is a failed write.
LEMMA LinkFail ==
  ASSUME TypeInv, RecordInv, NEW s \in Submissions, NEW error, NEW missing,
         pc[s] \in Opened \ {"note"}, Fail(s, error, missing)
  PROVE  RecordInv'
  <1> DEFINE w == [work[s] EXCEPT !.reason = error, !.missing = missing]
  <1>1. w.usage = work[s].usage /\ w.ledger = work[s].ledger
    BY LinkAt DEF Works
  <1>2. OpenFor(config[s], record) /\ Counted(work[s], record, 0)
    BY LinkAt DEF LinkOf
  <1> HIDE DEF w
  <1>3. LinkOf("failing", config[s], w, record)
    BY <1>1, <1>2 DEF LinkOf, Counted, Before, Opened, Asking, CallOut
  <1>4. /\ pc' = [pc EXCEPT ![s] = "failing"] /\ work' = [work EXCEPT ![s] = w]
        /\ UNCHANGED <<dir, record, config, claims, outcome>>
    BY DEF Fail, Goto, Work, w
  <1>5. pc[s] # "done"
    BY DEF Opened
  <1> QED BY <1>3, <1>4, <1>5, LinkQuiet, LaterPlaces

Harmless == PlainEntries \ {"evidence_added", "failure", "policy_rejected", "adapter_rejected"}

LEMMA CountedNoted ==
  ASSUME NEW rec \in Records, NEW kind \in PlainEntries, kind # "evidence_added",
         NEW w, NEW unnoted, Counted(w, rec, unnoted)
  PROVE  Counted(w, Noted(rec, kind), unnoted)
  BY NotedTally, MentionedEntries DEF Counted, SameFields, Mentioned

LEMMA UnfailedNoted ==
  ASSUME NEW rec \in Records, NEW kind \in Harmless, NEW pending, Unfailed(rec, pending)
  PROVE  Unfailed(Noted(rec, kind), pending)
  BY NotedTally, MentionedEntries DEF Unfailed, SameFields, Mentioned, Harmless

\* A harmless entry, stored outside a call.
LEMMA LinkAudit ==
  ASSUME TypeInv, ClaimInv, RecordInv, NEW s \in claims, NEW kind \in Harmless,
         NEW next \in (Opened \ (CallOut \cup {"start", "note"})) \cap Locations, NEW w,
         pc[s] \in Opened \ (CallOut \cup {"note"}),
         Persist(s, Noted(record, kind), next), work' = [work EXCEPT ![s] = w],
         UNCHANGED <<dir, config, claims>>,
         w.usage = work[s].usage, w.ledger = work[s].ledger,
         next \in Asking /\ w.operation = "tool" => WithinPolicy(config[s].policy, w.request)
  PROVE  RecordInv'
  <1> DEFINE rec == Noted(record, kind)
  <1>1. s \in Submissions /\ pc[s] # "done" /\ next \in Later
    BY LaterPlaces DEF TypeInv, TypeOK, Opened
  <1>2. /\ config[s] \in Configs /\ record \in Records
        /\ OpenFor(config[s], record) /\ Counted(work[s], record, 0)
        /\ Unfailed(record, {})
    BY <1>1, LinkAt DEF LinkOf, Opened, Pending
  <1>3. kind \in PlainEntries /\ kind # "evidence_added"
    BY DEF Harmless
  <1>4. rec \in Records /\ SameFields(rec, record)
    BY <1>2, <1>3, NotedTally
  <1>5. OpenFor(config[s], rec) /\ Counted(work[s], rec, 0) /\ Unfailed(rec, {})
    BY <1>2, <1>3, <1>4, OpenSame, CountedNoted, UnfailedNoted
  <1>6. RecordOK(rec) /\ rec.result = record.result
    BY <1>2, <1>4, <1>5, OpenIsOK DEF SameFields
  <1> HIDE DEF rec
  <1>7. LinkOf(next, config[s], w, rec)
    BY <1>5 DEF LinkOf, Counted, Opened, Before, CallOut, Pending
  <1>8. Persist(s, rec, next)
    BY DEF rec
  <1> QED BY <1>1, <1>4, <1>6, <1>7, <1>8, LinkPersist, LaterPlaces

\* An entry that rejects, after which the investigation fails.
LEMMA LinkReject ==
  ASSUME TypeInv, ClaimInv, RecordInv, NEW s \in claims,
         NEW kind \in {"policy_rejected", "adapter_rejected"}, NEW w,
         pc[s] \in Opened \ {"note"},
         Persist(s, Noted(record, kind), "failing"), work' = [work EXCEPT ![s] = w],
         UNCHANGED <<dir, config, claims>>,
         w.usage = work[s].usage, w.ledger = work[s].ledger
  PROVE  RecordInv'
  <1> DEFINE rec == Noted(record, kind)
  <1>1. s \in Submissions /\ pc[s] # "done" /\ "failing" \in Locations
    BY DEF TypeInv, TypeOK, Opened, Locations
  <1>2. /\ config[s] \in Configs /\ record \in Records
        /\ OpenFor(config[s], record) /\ Counted(work[s], record, 0)
    BY <1>1, LinkAt DEF LinkOf, Opened
  <1>3. kind \in PlainEntries /\ kind # "evidence_added"
    BY DEF PlainEntries
  <1>4. rec \in Records /\ SameFields(rec, record)
    BY <1>2, <1>3, NotedTally
  <1>5. OpenFor(config[s], rec) /\ Counted(work[s], rec, 0)
    BY <1>2, <1>3, <1>4, OpenSame, CountedNoted
  <1>6. RecordOK(rec) /\ rec.result = record.result
    BY <1>2, <1>4, <1>5, OpenIsOK DEF SameFields
  <1> HIDE DEF rec
  <1>7. LinkOf("failing", config[s], w, rec)
    BY <1>5 DEF LinkOf, Counted, Opened, Before, CallOut, Asking
  <1>8. Persist(s, rec, "failing")
    BY DEF rec
  <1> QED BY <1>1, <1>4, <1>6, <1>7, <1>8, LinkPersist, LaterPlaces

\* A move within the try block, which never reaches a terminal state.
LEMMA LinkMove ==
  ASSUME TypeInv, ClaimInv, RecordInv, NEW s \in claims,
         NEW target \in {"VALIDATED", "POLICY_LOADED", "INVESTIGATING"},
         NEW next \in {"load", "admit", "dispatch"},
         pc[s] \in {"open", "loaded", "admit"}, Move(s, target, next)
  PROVE  RecordInv'
  <1> DEFINE mid == Noted(record, "state")
             rec == [mid EXCEPT !.state = target]
             w   == [work[s] EXCEPT !.state = target]
  <1>1. s \in Submissions /\ pc[s] # "done" /\ next \in Later
    BY LaterPlaces DEF TypeInv, TypeOK, Opened
  <1>2. /\ config[s] \in Configs /\ record \in Records /\ work[s] \in Works
        /\ OpenFor(config[s], record) /\ Counted(work[s], record, 0)
        /\ Unfailed(record, {})
    BY <1>1, LinkAt DEF LinkOf, Opened, Pending, CallOut
  <1>3. "state" \in Harmless /\ "state" \in PlainEntries /\ target \in States \ TERMINAL
    BY DEF Harmless, PlainEntries, States, TRANSITIONS, TERMINAL
  <1>4. mid \in Records /\ SameFields(mid, record)
    BY <1>2, <1>3, NotedTally
  <1>5. OpenFor(config[s], mid) /\ Counted(work[s], mid, 0) /\ Unfailed(mid, {})
    BY <1>2, <1>3, <1>4, OpenSame, CountedNoted, UnfailedNoted DEF Harmless
  <1>6. /\ rec \in Records /\ rec.state = target
        /\ rec.metadata = mid.metadata /\ rec.evidence = mid.evidence
        /\ rec.result = mid.result /\ rec.audit = mid.audit
    BY <1>3, <1>4 DEF Records
  <1>7. w.usage = work[s].usage /\ w.ledger = work[s].ledger
    BY <1>2 DEF Works
  <1>8. Persist(s, rec, next) /\ work' = [work EXCEPT ![s] = w] /\ UNCHANGED <<dir, config, claims>>
    BY DEF Move, Work
  <1> HIDE DEF rec, mid, w
  <1>9. OpenFor(config[s], rec) /\ Counted(w, rec, 0) /\ Unfailed(rec, {})
    BY <1>3, <1>5, <1>6, <1>7 DEF OpenFor, Counted, Unfailed, NotesIn, CallsIn
  <1>10. RecordOK(rec) /\ rec.result = record.result
    BY <1>2, <1>4, <1>6, <1>9, OpenIsOK DEF SameFields
  <1>11. LinkOf(next, config[s], w, rec)
    BY <1>9 DEF LinkOf, Opened, Before, CallOut, Asking, Pending
  <1> QED BY <1>1, <1>6, <1>8, <1>10, <1>11, LinkPersist, LaterPlaces

LEMMA OpeningLink ==
  ASSUME TypeInv, ClaimInv, RecordInv, NEW s \in claims, Opening(s)
  PROVE  RecordInv'
  <1>2. CASE Validate(s) \/ PolicyLoaded(s)
    BY <1>2, LinkMove DEF Validate, PolicyLoaded
  <1>3. CASE LoadPolicy(s)
    <2>1. /\ "policy_loaded" \in Harmless /\ pc[s] = "load"
          /\ Persist(s, Noted(record, "policy_loaded"), "loaded")
          /\ UNCHANGED <<dir, config, claims>>
      BY <1>3 DEF LoadPolicy, Audit, Harmless, PlainEntries
    <2>2. work' = [work EXCEPT ![s] = work[s]]
      BY <1>3 DEF LoadPolicy, TypeInv, TypeOK
    <2>3. /\ "loaded" \in (Opened \ (CallOut \cup {"start", "note"})) \cap Locations
          /\ "load" \in Opened \ (CallOut \cup {"note"}) /\ "loaded" \notin Asking
      BY DEF Opened, CallOut, Locations, Asking
    <2> QED BY <2>1, <2>2, <2>3, LinkAudit
  <1>4. CASE Admit(s)
    <2>1. s \in Submissions /\ pc[s] = "admit" /\ "admit" \in Opened \ {"note"}
      BY <1>4 DEF Admit, TypeInv, TypeOK, Opened
    <2> QED BY <1>4, <2>1, LinkMove, LinkFail DEF Admit
  <1>5. CASE Dispatch(s)
    <2>1. s \in Submissions /\ pc[s] = "dispatch" /\ work[s] \in Works
      BY <1>5 DEF Dispatch, TypeInv, TypeOK
    <2>2. CASE Tools \subseteq config[s].callable
      <3>1. LinkOf("context", config[s], work[s], record)
        BY <2>1, LinkAt DEF LinkOf, Opened, Before, CallOut, Asking, Pending
      <3>2. /\ pc' = [pc EXCEPT ![s] = "context"] /\ work' = [work EXCEPT ![s] = work[s]]
            /\ UNCHANGED <<dir, record, config, claims, outcome>>
        BY <1>5, <2>1, <2>2 DEF Dispatch, Goto, TypeInv, TypeOK
      <3> QED BY <2>1, <3>1, <3>2, LinkQuiet, LaterPlaces
    <2>3. CASE ~(Tools \subseteq config[s].callable)
      <3> DEFINE w == [work[s] EXCEPT !.reason = "ContractError"]
      <3>1. w.usage = work[s].usage /\ w.ledger = work[s].ledger
        BY <2>1 DEF Works
      <3>2. /\ Persist(s, Noted(record, "adapter_rejected"), "failing")
            /\ work' = [work EXCEPT ![s] = w] /\ UNCHANGED <<dir, config, claims>>
            /\ pc[s] \in Opened \ {"note"}
        BY <1>5, <2>1, <2>3 DEF Dispatch, Work, Opened
      <3> HIDE DEF w
      <3> QED BY <3>1, <3>2, LinkReject
    <2> QED BY <2>2, <2>3
  <1> QED BY <1>2, <1>3, <1>4, <1>5 DEF Opening

(***************************************************************************)
(* One call, from its context to its answer.                               *)
(***************************************************************************)
\* An entry of a call changes the count of its kind and nothing else.
LEMMA CallNoted ==
  ASSUME NEW rec \in Records, NEW c, NEW kind \in CallEntries, NEW op \in Operations,
         OpenFor(c, rec)
  PROVE  /\ NotedCall(rec, kind, op) \in Records /\ OpenFor(c, NotedCall(rec, kind, op))
         /\ NotedCall(rec, kind, op).evidence = rec.evidence
         /\ NotedCall(rec, kind, op).result = rec.result
  BY NotedCallTally, OpenSame DEF SameFields

LEMMA ReserveLink ==
  ASSUME TypeInv, ClaimInv, RecordInv, NEW s \in claims, Reserve(s)
  PROVE  RecordInv'
  <1> DEFINE op  == work[s].operation
             k0  == KindOf(op)
             rec == NotedCall(record, "budget_reserved", op)
             w   == [work[s] EXCEPT !.usage[k0] = @ + 1]
  <1>1. s \in Submissions /\ pc[s] = "reserve"
    BY DEF Reserve, TypeInv, TypeOK
  <1>2. CASE expired[s] \/ Exhausted(config[s].policy.limits, work[s].usage)
    BY <1>1, <1>2, LinkFail DEF Reserve, Opened
  <1>3. CASE ~(expired[s] \/ Exhausted(config[s].policy.limits, work[s].usage))
    <2>1. /\ record \in Records /\ work[s] \in Works /\ op \in Operations /\ k0 \in CallKinds
          /\ config[s] \in Configs
          /\ OpenFor(config[s], record) /\ Counted(work[s], record, 0) /\ Unfailed(record, {})
          /\ op = "tool" => WithinPolicy(config[s].policy, work[s].request)
      BY <1>1, LinkAt DEF LinkOf, Opened, Asking, CallOut, Pending
    <2>2. /\ rec \in Records /\ OpenFor(config[s], rec) /\ rec.evidence = record.evidence
          /\ rec.result = record.result
      BY <2>1, CallNoted, MentionedEntries DEF Mentioned
    <2>3. /\ \A e \in PlainEntries : NotesIn(rec, e) = NotesIn(record, e)
          /\ \A e \in CallEntries, k \in CallKinds :
               CallsIn(rec, e, k) = IF e = "budget_reserved" /\ k = k0
                                    THEN CallsIn(record, e, k) + 1 ELSE CallsIn(record, e, k)
      BY <2>1, NotedCallTally, MentionedEntries DEF Mentioned
    <2>4. work[s].usage \in [Counters -> Nat] /\ config[s].policy.limits \in [Counters -> Nat]
      BY <2>1, ConfigsAssumption DEF Works, Usages
    <2>5. /\ w.usage = [work[s].usage EXCEPT ![k0] = @ + 1]
          /\ w.ledger = work[s].ledger /\ w.operation = op /\ w.request = work[s].request
      BY <2>1 DEF Works
    <2>6. /\ k0 \in Counters
          /\ \A k \in Counters : w.usage[k] = IF k = k0 THEN work[s].usage[k] + 1
                                                        ELSE work[s].usage[k]
      BY <2>1, <2>4, <2>5 DEF Counters
    <2>7. Persist(s, rec, "start") /\ work' = [work EXCEPT ![s] = w] /\ UNCHANGED <<dir, config, claims>>
      BY <1>3 DEF Reserve, Work
    <2> HIDE DEF rec, w
    <2>8. Counted(w, rec, 0)
      <3>1. CallKinds \subseteq Counters /\ "evidence_items" \in Counters \ CallKinds
        BY DEF Counters, CallKinds
      <3> QED BY <2>1, <2>2, <2>3, <2>5, <2>6, <3>1, MentionedEntries DEF Counted, Mentioned
    <2>9. Unfailed(rec, {})
      BY <2>1, <2>3, MentionedEntries DEF Unfailed, Mentioned
    <2>10. \A k \in Counters :
             w.usage[k] - (IF k = KindOf(w.operation) THEN 1 ELSE 0) < config[s].policy.limits[k]
      BY <1>3, <2>4, <2>5, <2>6 DEF Exhausted
    <2>11. LinkOf("start", config[s], w, rec)
      BY <2>1, <2>2, <2>5, <2>8, <2>9, <2>10 DEF LinkOf, Before, CallOut, Pending
    <2>12. RecordOK(rec)
      BY <2>1, <2>2, OpenIsOK
    <2>13. "start" \in Later
      BY LaterPlaces
    <2> QED BY <1>1, <2>2, <2>7, <2>11, <2>12, <2>13, LinkPersist, LaterPlaces
  <1> QED BY <1>2, <1>3

LEMMA StartCallLink ==
  ASSUME TypeInv, ClaimInv, RecordInv, NEW s \in claims, StartCall(s)
  PROVE  RecordInv'
  <1> DEFINE op  == work[s].operation
             k0  == KindOf(op)
             rec == NotedCall(record, "call_started", op)
  <1>1. s \in Submissions /\ pc[s] = "start"
    BY DEF StartCall, TypeInv, TypeOK
  <1>2. CASE expired[s]
    BY <1>1, <1>2, LinkFail DEF StartCall, Opened
  <1>3. CASE ~expired[s]
    <2>1. /\ record \in Records /\ work[s] \in Works /\ op \in Operations /\ k0 \in CallKinds
          /\ config[s] \in Configs
          /\ OpenFor(config[s], record) /\ Counted(work[s], record, 0) /\ Unfailed(record, {})
          /\ LinkOf("start", config[s], work[s], record)
      BY <1>1, LinkAt DEF LinkOf, Opened, CallOut, Pending
    <2>2. /\ rec \in Records /\ OpenFor(config[s], rec) /\ rec.evidence = record.evidence
          /\ rec.result = record.result
      BY <2>1, CallNoted, MentionedEntries DEF Mentioned
    <2>3. /\ \A e \in PlainEntries : NotesIn(rec, e) = NotesIn(record, e)
          /\ \A e \in CallEntries, k \in CallKinds :
               CallsIn(rec, e, k) = IF e = "call_started" /\ k = k0
                                    THEN CallsIn(record, e, k) + 1 ELSE CallsIn(record, e, k)
      BY <2>1, NotedCallTally, MentionedEntries DEF Mentioned
    <2>4. Persist(s, rec, "invoke") /\ UNCHANGED <<dir, config, claims>>
      BY <1>3 DEF StartCall
    <2>5. work' = [work EXCEPT ![s] = work[s]]
      BY <1>1, <1>3 DEF StartCall, TypeInv, TypeOK
    <2> HIDE DEF rec
    <2>6. Counted(work[s], rec, 0)
      BY <2>1, <2>2, <2>3, MentionedEntries DEF Counted, Mentioned
    <2>7. Unfailed(rec, {k0})
      BY <2>1, <2>3, TallyTypes, MentionedEntries DEF Unfailed, Mentioned
    <2>8. LinkOf("invoke", config[s], work[s], rec)
      BY <2>1, <2>2, <2>6, <2>7 DEF LinkOf, Before, CallOut, Pending, Asking
    <2>9. RecordOK(rec)
      BY <2>1, <2>2, OpenIsOK
    <2>10. "invoke" \in Later
      BY LaterPlaces
    <2> QED BY <1>1, <2>2, <2>4, <2>5, <2>8, <2>9, <2>10, LinkPersist, LaterPlaces
  <1> QED BY <1>2, <1>3

LEMMA CompleteCallLink ==
  ASSUME TypeInv, ClaimInv, RecordInv, NEW s \in claims, CompleteCall(s)
  PROVE  RecordInv'
  <1> DEFINE op  == work[s].operation
             k0  == KindOf(op)
             rec == NotedCall(record, "call_completed", op)
             next == AfterCall(op)
  <1>1. s \in Submissions /\ pc[s] = "answered"
    BY DEF CompleteCall, TypeInv, TypeOK
  <1>2. CASE expired[s]
    BY <1>1, <1>2, LinkFail DEF CompleteCall, Opened
  <1>3. CASE ~expired[s]
    <2>1. /\ record \in Records /\ work[s] \in Works /\ op \in Operations /\ k0 \in CallKinds
          /\ config[s] \in Configs
          /\ OpenFor(config[s], record) /\ Counted(work[s], record, 0) /\ Unfailed(record, {k0})
          /\ op = "tool" => WithinPolicy(config[s].policy, work[s].request)
      BY <1>1, LinkAt DEF LinkOf, Opened, Asking, CallOut, Pending
    <2>2. /\ rec \in Records /\ OpenFor(config[s], rec) /\ rec.evidence = record.evidence
          /\ rec.result = record.result
      BY <2>1, CallNoted, MentionedEntries DEF Mentioned
    <2>3. /\ \A e \in PlainEntries : NotesIn(rec, e) = NotesIn(record, e)
          /\ \A e \in CallEntries, k \in CallKinds :
               CallsIn(rec, e, k) = IF e = "call_completed" /\ k = k0
                                    THEN CallsIn(record, e, k) + 1 ELSE CallsIn(record, e, k)
      BY <2>1, NotedCallTally, MentionedEntries DEF Mentioned
    <2>4. Persist(s, rec, next) /\ UNCHANGED <<dir, config, claims>>
      BY <1>3 DEF CompleteCall
    <2>5. work' = [work EXCEPT ![s] = work[s]]
      BY <1>1, <1>3 DEF CompleteCall, TypeInv, TypeOK
    <2>6. next \in {"acted", "drafted", "collect"}
      BY <2>1 DEF AfterCall, Operations
    <2> HIDE DEF rec, next
    <2>7. Counted(work[s], rec, 0)
      BY <2>1, <2>2, <2>3, MentionedEntries DEF Counted, Mentioned
    <2>8. Unfailed(rec, {})
      BY <2>1, <2>3, TallyTypes, MentionedEntries DEF Unfailed, Mentioned
    <2>9. LinkOf(next, config[s], work[s], rec)
      BY <2>1, <2>2, <2>6, <2>7, <2>8 DEF LinkOf, Before, CallOut, Pending, Asking
    <2>10. RecordOK(rec)
      BY <2>1, <2>2, OpenIsOK
    <2>11. next \in Later
      BY <2>6, LaterPlaces
    <2> QED BY <1>1, <2>2, <2>4, <2>5, <2>9, <2>10, <2>11, LinkPersist, LaterPlaces
  <1> QED BY <1>2, <1>3

LEMMA CallingLink ==
  ASSUME TypeInv, ClaimInv, AheadInv, RecordInv, NEW s \in claims, Calling(s)
  PROVE  RecordInv'
  <1>1. s \in Submissions
    BY DEF TypeInv, TypeOK
  <1>2. CASE Context(s)
    <2>1. pc[s] = "context" /\ work[s].operation # "tool"
      BY <1>1, <1>2 DEF Context, AheadInv, AheadOf, Reading, Calls
    <2>2. LinkOf("reserve", config[s], work[s], record)
      BY <1>1, <2>1, LinkAt DEF LinkOf, Opened, Before, CallOut, Pending
    <2>3. /\ pc' = [pc EXCEPT ![s] = "reserve"] /\ work' = [work EXCEPT ![s] = work[s]]
          /\ UNCHANGED <<dir, record, config, claims, outcome>>
      BY <1>1, <1>2 DEF Context, Goto, TypeInv, TypeOK
    <2> QED BY <1>1, <2>1, <2>2, <2>3, LinkQuiet, LaterPlaces
  <1>3. CASE Invoke(s)
    <2>1. CASE expired[s]
      BY <1>1, <1>3, <2>1, LinkFail DEF Invoke, Opened
    <2>2. CASE ~expired[s]
      <3>1. pc[s] = "invoke"
        BY <1>3 DEF Invoke
      <3>2. LinkOf("waiting", config[s], work[s], record)
        BY <1>1, <3>1, LinkAt DEF LinkOf, Opened, Before, CallOut, Asking, Pending
      <3>3. /\ pc' = [pc EXCEPT ![s] = "waiting"] /\ work' = [work EXCEPT ![s] = work[s]]
            /\ UNCHANGED <<dir, record, config, claims, outcome>>
        BY <1>1, <1>3, <2>2 DEF Invoke, Goto, TypeInv, TypeOK
      <3> QED BY <1>1, <3>1, <3>2, <3>3, LinkQuiet, LaterPlaces
    <2> QED BY <2>1, <2>2
  <1> QED BY <1>2, <1>3, ReserveLink, StartCallLink, CompleteCallLink DEF Calling

LEMMA ProviderLink ==
  ASSUME TypeInv, RecordInv, NEW s \in Submissions, Provider(s)
  PROVE  RecordInv'
  <1>1. ASSUME NEW value, pc[s] = "waiting", Answer(s, value) PROVE RecordInv'
    <2> DEFINE w == [work[s] EXCEPT !.answer = value]
    <2>1. /\ w.operation = work[s].operation /\ w.request = work[s].request
          /\ w.usage = work[s].usage /\ w.ledger = work[s].ledger
      BY LinkAt DEF Works
    <2>2. /\ pc' = [pc EXCEPT ![s] = "answered"] /\ work' = [work EXCEPT ![s] = w]
          /\ UNCHANGED <<dir, record, config, claims, outcome>>
      BY <1>1 DEF Answer, Goto, Work
    <2> HIDE DEF w
    <2>3. LinkOf("answered", config[s], w, record)
      BY <1>1, <2>1, LinkAt DEF LinkOf, Counted, Opened, Before, CallOut, Asking, Pending
    <2> QED BY <1>1, <2>2, <2>3, LinkQuiet, LaterPlaces
  <1>2. CASE ProviderRaises(s)
    <2>1. pc[s] \in Opened \ {"note"}
      BY <1>2 DEF ProviderRaises, Opened
    <2>2. \/ \E error, missing : Fail(s, error, missing)
          \/ /\ End(s, Raised("PersistenceError"))
             /\ UNCHANGED <<dir, record, config, claims, work>>
      BY <1>2 DEF ProviderRaises
    <2> QED BY <2>1, <2>2, LinkFail, RaisedTold, LinkEnd
  <1>3. CASE ModelActs(s)
    BY <1>1, <1>3 DEF ModelActs
  <1>4. CASE ModelDrafts(s)
    BY <1>1, <1>4 DEF ModelDrafts
  <1>5. CASE ToolResponds(s)
    BY <1>1, <1>5 DEF ToolResponds
  <1>6. CASE Timeout(s)
    BY <1>6, LinkFail DEF Timeout, Opened
  <1> QED BY <1>2, <1>3, <1>4, <1>5, <1>6 DEF Provider

(***************************************************************************)
(* What the answer does.                                                   *)
(***************************************************************************)
\* A read that is authorized is within the policy.
LEMMA AuthorizedWithin ==
  ASSUME NEW policy, NEW request, Authorize(policy, request) = "permitted"
  PROVE  WithinPolicy(policy, request)
  BY DEF Authorize, WithinPolicy

LEMMA ActedLink ==
  ASSUME TypeInv, ClaimInv, RecordInv, NEW s \in claims, Acted(s)
  PROVE  RecordInv'
  <1>1. s \in Submissions /\ pc[s] = "acted" /\ work[s] \in Works
    BY DEF Acted, TypeInv, TypeOK
  <1>2. /\ "model_action" \in Harmless /\ "acted" \in Opened \ (CallOut \cup {"note"})
        /\ {"context", "authorize"} \subseteq
             (Opened \ (CallOut \cup {"start", "note"} \cup Asking)) \cap Locations
    BY DEF Harmless, PlainEntries, Opened, CallOut, Locations, Asking
  <1>3. CASE work[s].answer = Garbage /\ Fail(s, "ContractError", FALSE)
    BY <1>1, <1>3, LinkFail DEF Opened
  <1>4. ASSUME NEW w, NEW next \in {"context", "authorize"},
               w.usage = work[s].usage, w.ledger = work[s].ledger,
               Work(s, w), Audit(s, "model_action", next)
        PROVE  RecordInv'
    BY <1>1, <1>2, <1>4, LinkAudit DEF Audit, Work
  <1>5. \A op, answer : [work[s] EXCEPT !.operation = op, !.answer = answer].usage = work[s].usage
                     /\ [work[s] EXCEPT !.operation = op, !.answer = answer].ledger = work[s].ledger
    BY <1>1 DEF Works
  <1>6. \A r, answer : [work[s] EXCEPT !.request = r, !.answer = answer].usage = work[s].usage
                    /\ [work[s] EXCEPT !.request = r, !.answer = answer].ledger = work[s].ledger
    BY <1>1 DEF Works
  <1> QED BY <1>3, <1>4, <1>5, <1>6 DEF Acted

LEMMA AuthorizationLink ==
  ASSUME TypeInv, ClaimInv, RecordInv, NEW s \in claims, Authorization(s)
  PROVE  RecordInv'
  <1> DEFINE verdict == Authorize(config[s].policy, work[s].request)
  <1>1. s \in Submissions /\ pc[s] = "authorize" /\ work[s] \in Works
    BY DEF Authorization, TypeInv, TypeOK
  <1>2. CASE verdict = "permitted"
    <2> DEFINE w == [work[s] EXCEPT !.operation = "tool"]
    <2>1. /\ w.usage = work[s].usage /\ w.ledger = work[s].ledger
          /\ w.request = work[s].request
      BY <1>1 DEF Works
    <2>2. /\ Persist(s, Noted(record, "policy_permitted"), "reserve")
          /\ work' = [work EXCEPT ![s] = w] /\ UNCHANGED <<dir, config, claims>>
      BY <1>2 DEF Authorization, Audit, Work
    <2>3. WithinPolicy(config[s].policy, w.request)
      BY <1>2, <2>1, AuthorizedWithin
    <2>4. /\ "policy_permitted" \in Harmless /\ pc[s] \in Opened \ (CallOut \cup {"note"})
          /\ "reserve" \in (Opened \ (CallOut \cup {"start", "note"})) \cap Locations
      BY <1>1 DEF Harmless, PlainEntries, Opened, CallOut, Locations
    <2> HIDE DEF w
    <2> QED BY <2>1, <2>2, <2>3, <2>4, LinkAudit
  <1>3. CASE verdict # "permitted"
    <2> DEFINE w == [work[s] EXCEPT !.reason = verdict]
    <2>1. w.usage = work[s].usage /\ w.ledger = work[s].ledger
      BY <1>1 DEF Works
    <2>2. /\ Persist(s, Noted(record, "policy_rejected"), "failing")
          /\ work' = [work EXCEPT ![s] = w] /\ UNCHANGED <<dir, config, claims>>
          /\ pc[s] \in Opened \ {"note"}
      BY <1>1, <1>3 DEF Authorization, Audit, Work, Opened
    <2> HIDE DEF w
    <2> QED BY <2>1, <2>2, LinkReject
  <1> QED BY <1>2, <1>3

\* A new item: the local ledger, the counter and the stored evidence grow by
\* the same item, and its note is due.
LEMMA CollectLink ==
  ASSUME TypeInv, ClaimInv, RecordInv, NEW s \in claims, Collect(s)
  PROVE  RecordInv'
  <1> DEFINE answer == work[s].answer
             item   == [request |-> work[s].request, content |-> answer.content]
  <1>1. s \in Submissions /\ pc[s] = "collect"
    BY DEF Collect, TypeInv, TypeOK
  <1>2. /\ record \in Records /\ work[s] \in Works /\ config[s] \in Configs
        /\ OpenFor(config[s], record) /\ Counted(work[s], record, 0) /\ Unfailed(record, {})
        /\ work[s].request \in Requests
        /\ WithinPolicy(config[s].policy, work[s].request)
    BY <1>1, LinkAt DEF LinkOf, ShapeOf, Opened, Asking, CallOut, Pending
  <1>3. CASE \/ answer = BadBody /\ Fail(s, "ToolExecutionError", TRUE)
             \/ answer = Garbage /\ Fail(s, "ContractError", FALSE)
    BY <1>1, <1>3, LinkFail DEF Opened
  <1>4. CASE answer.kind = "response" /\ item \in work[s].ledger
    <2> DEFINE w == NextRound(work[s])
    <2>1. /\ w.usage = work[s].usage /\ w.ledger = work[s].ledger
          /\ w.operation = "choose_action"
      BY <1>2 DEF Works, NextRound
    <2>2. /\ pc' = [pc EXCEPT ![s] = "context"] /\ work' = [work EXCEPT ![s] = w]
          /\ UNCHANGED <<dir, record, config, claims, outcome>>
      <3>1. answer # BadBody /\ answer # Garbage
        BY <1>4 DEF BadBody, Garbage
      <3> QED BY <1>4, <3>1 DEF Collect, Goto, Work
    <2> HIDE DEF w
    <2>3. LinkOf("context", config[s], w, record)
      BY <1>2, <2>1 DEF LinkOf, Counted, Before, CallOut, Asking, Pending
    <2> QED BY <1>1, <2>2, <2>3, LinkQuiet, LaterPlaces
  <1>5. CASE answer.kind = "response" /\ item \notin work[s].ledger
    <2> DEFINE w   == [NextRound(work[s]) EXCEPT !.ledger = @ \cup {item},
                                                 !.usage["evidence_items"] = @ + 1]
               rec == [record EXCEPT !.evidence = @ \cup {item}]
    <2>1. /\ Persist(s, rec, "note") /\ work' = [work EXCEPT ![s] = w]
          /\ UNCHANGED <<dir, config, claims>>
      <3>1. answer # BadBody /\ answer # Garbage
        BY <1>5 DEF BadBody, Garbage
      <3> QED BY <1>5, <3>1 DEF Collect, Work
    <2>2. answer.content \in Contents
      BY <1>2, <1>5 DEF Works, Answers
    <2>3. item \in Items
      BY <1>2, <2>2 DEF Items
    <2>4. /\ rec \in Records /\ rec.evidence = record.evidence \cup {item}
          /\ rec.metadata = record.metadata /\ rec.state = record.state
          /\ rec.result = record.result /\ rec.audit = record.audit
      BY <1>2, <2>3 DEF Records
    <2>5. work[s].usage \in [Counters -> Nat] /\ "evidence_items" \in Counters \ CallKinds
          /\ CallKinds \subseteq Counters
      BY <1>2 DEF Works, Usages, Counters, CallKinds
    <2>6. /\ w.ledger = work[s].ledger \cup {item} /\ w.operation = "choose_action"
          /\ w.usage = [work[s].usage EXCEPT !["evidence_items"] = @ + 1]
      BY <1>2 DEF Works, NextRound
    <2>7. item.request = work[s].request
      OBVIOUS
    <2> HIDE DEF w, rec, item
    <2>8. OpenFor(config[s], rec)
      <3>1. IsFiniteSet(rec.evidence)
        BY <1>2, <2>4, FS_AddElement DEF OpenFor
      <3> QED BY <1>2, <2>4, <2>7, <3>1 DEF OpenFor
    <2>9. Counted(w, rec, 1)
      <3>1. Cardinality(rec.evidence) = Cardinality(record.evidence) + 1
        BY <1>2, <1>5, <2>4, FS_AddElement DEF OpenFor, Counted
      <3>2. NotesIn(record, "evidence_added") \in Nat
        BY <1>2, TallyTypes, MentionedEntries DEF Mentioned
      <3> QED BY <1>2, <2>4, <2>5, <2>6, <3>1, <3>2 DEF Counted, NotesIn, CallsIn
    <2>10. Unfailed(rec, {})
      BY <1>2, <2>4 DEF Unfailed, NotesIn, CallsIn
    <2>11. LinkOf("note", config[s], w, rec)
      BY <2>6, <2>8, <2>9, <2>10 DEF LinkOf, Before, CallOut, Asking, Pending
    <2>12. RecordOK(rec) /\ "note" \in Later
      BY <1>2, <2>8, OpenIsOK, LaterPlaces
    <2> QED BY <1>1, <2>1, <2>4, <2>11, <2>12, LinkPersist, LaterPlaces
  <1> QED BY <1>3, <1>4, <1>5 DEF Collect

LEMMA NoteEvidenceLink ==
  ASSUME TypeInv, ClaimInv, AheadInv, RecordInv, NEW s \in claims, NoteEvidence(s)
  PROVE  RecordInv'
  <1> DEFINE rec == Noted(record, "evidence_added")
  <1>1. s \in Submissions /\ pc[s] = "note" /\ work[s].operation # "tool"
    BY DEF NoteEvidence, TypeInv, TypeOK, AheadInv, AheadOf, Reading, Calls
  <1>2. /\ record \in Records /\ config[s] \in Configs
        /\ OpenFor(config[s], record) /\ Counted(work[s], record, 1) /\ Unfailed(record, {})
    BY <1>1, LinkAt DEF LinkOf, Opened, CallOut, Pending
  <1>3. /\ rec \in Records /\ SameFields(rec, record)
        /\ \A e \in PlainEntries :
             NotesIn(rec, e) = IF e = "evidence_added" THEN NotesIn(record, e) + 1
                                                       ELSE NotesIn(record, e)
        /\ \A e \in CallEntries, k \in CallKinds : CallsIn(rec, e, k) = CallsIn(record, e, k)
    BY <1>2, NotedTally, MentionedEntries DEF Mentioned
  <1>4. Persist(s, rec, "context") /\ UNCHANGED <<dir, config, claims>>
    BY DEF NoteEvidence, Audit
  <1>5. work' = [work EXCEPT ![s] = work[s]]
    BY <1>1 DEF NoteEvidence, TypeInv, TypeOK
  <1> HIDE DEF rec
  <1>6. NotesIn(record, "evidence_added") \in Nat
    BY <1>2, TallyTypes, MentionedEntries DEF Mentioned
  <1>7. Counted(work[s], rec, 0)
    <2>1. NotesIn(rec, "evidence_added") = NotesIn(record, "evidence_added") + 1
      BY <1>3, MentionedEntries DEF Mentioned
    <2>2. work[s].usage["evidence_items"] = NotesIn(rec, "evidence_added") + 0
      BY <1>2, <1>6, <2>1 DEF Counted
    <2> QED BY <1>2, <1>3, <2>2, MentionedEntries DEF Counted, SameFields, Mentioned
  <1>8. OpenFor(config[s], rec) /\ Unfailed(rec, {})
    BY <1>2, <1>3, OpenSame, MentionedEntries DEF Unfailed, Mentioned
  <1>9. LinkOf("context", config[s], work[s], rec)
    BY <1>7, <1>8 DEF LinkOf, Before, CallOut, Asking, Pending
  <1>10. RecordOK(rec) /\ rec.result = record.result
    BY <1>2, <1>3, <1>8, OpenIsOK DEF SameFields
  <1>11. "context" \in Later
    BY LaterPlaces
  <1> QED BY <1>1, <1>3, <1>4, <1>5, <1>9, <1>10, <1>11, LinkPersist, LaterPlaces

LEMMA DraftedLink ==
  ASSUME TypeInv, ClaimInv, RecordInv, NEW s \in claims, Drafted(s)
  PROVE  RecordInv'
  <1>1. s \in Submissions /\ pc[s] = "drafted"
    BY DEF Drafted, TypeInv, TypeOK
  <1>2. CASE Fail(s, "ContractError", FALSE)
    BY <1>1, <1>2, LinkFail DEF Opened
  <1>3. CASE Audit(s, "model_result_received", "ground") /\ UNCHANGED work
    <2>1. /\ Persist(s, Noted(record, "model_result_received"), "ground")
          /\ UNCHANGED <<dir, config, claims>>
      BY <1>3 DEF Audit
    <2>2. work' = [work EXCEPT ![s] = work[s]]
      BY <1>1, <1>3 DEF TypeInv, TypeOK
    <2>3. /\ "model_result_received" \in Harmless /\ pc[s] \in Opened \ (CallOut \cup {"note"})
          /\ "ground" \in (Opened \ (CallOut \cup {"start", "note"})) \cap Locations
          /\ "ground" \notin Asking
      BY <1>1 DEF Harmless, PlainEntries, Opened, CallOut, Locations, Asking
    <2> QED BY <2>1, <2>2, <2>3, LinkAudit
  <1> QED BY <1>2, <1>3 DEF Drafted

\* A grounded draft becomes a result that the record bears out: the ledger it
\* was checked against is the stored evidence.
LEMMA GroundLink ==
  ASSUME TypeInv, ClaimInv, RecordInv, NEW s \in claims, Ground(s)
  PROVE  RecordInv'
  <1> DEFINE draft  == work[s].answer.draft
             result == Result(draft, work[s].usage, "model_finished")
             w      == [work[s] EXCEPT !.reason = "model_finished", !.result = result]
  <1>1. s \in Submissions /\ pc[s] = "ground"
    BY DEF Ground, TypeInv, TypeOK
  <1>2. /\ record \in Records /\ work[s] \in Works /\ config[s] \in Configs
        /\ OpenFor(config[s], record) /\ Counted(work[s], record, 0) /\ Unfailed(record, {})
    BY <1>1, LinkAt DEF LinkOf, Opened, CallOut, Pending
  <1>3. CASE ~Grounded(draft, work[s].ledger, config[s].event)
    BY <1>1, <1>3, LinkFail DEF Ground, Opened
  <1>4. CASE Grounded(draft, work[s].ledger, config[s].event)
    <2>1. /\ pc' = [pc EXCEPT ![s] = "save"] /\ work' = [work EXCEPT ![s] = w]
          /\ UNCHANGED <<dir, record, config, claims, outcome>>
      BY <1>4 DEF Ground, Goto, Work
    <2>2. /\ w.usage = work[s].usage /\ w.ledger = work[s].ledger /\ w.result = result
      BY <1>2 DEF Works
    <2>3. /\ result.status = draft.status /\ result.risk = draft.risk
          /\ result.cited = draft.cited /\ result.missing = draft.missing
          /\ result.usage = work[s].usage
      BY DEF Result
    <2> HIDE DEF w, result
    <2>4. result.status \in Conclusive =>
            /\ result.cited # {} /\ result.cited \subseteq record.evidence
            /\ RequiredRequests(config[s].event) \subseteq Collected(record.evidence)
            /\ ~result.missing /\ result.risk # "unknown"
      BY <1>2, <1>4, <2>3 DEF Grounded, Counted, ExpectedRisk, Conclusive
    <2>5. record.metadata.event = config[s].event
      BY <1>2 DEF OpenFor, Metadata
    <2>6. ~(NotesIn(record, "failure") > 0)
      BY <1>2 DEF Unfailed
    <2>7. BorneOut(result, record)
      BY <1>2, <2>3, <2>4, <2>5, <2>6, TallyTypes, MentionedEntries
         DEF BorneOut, Counted, Mentioned
    <2>8. LinkOf("save", config[s], w, record)
      BY <1>2, <2>2, <2>7 DEF LinkOf, Counted, Before, Opened, CallOut, Asking
    <2> QED BY <1>1, <2>1, <2>8, LinkQuiet, LaterPlaces
  <1> QED BY <1>3, <1>4

\* An answer that cannot be encoded ends the claimer before there is a result.
LEMMA EncodingFailsLink ==
  ASSUME TypeInv, RecordInv, NEW s \in claims, EncodingFails(s)
  PROVE  RecordInv'
  <1>1. s \in Submissions
    BY DEF TypeInv, TypeOK
  <1>2. record.result = None
    BY <1>1, LinkAt DEF EncodingFails, LinkOf, Opened, OpenFor
  <1> QED BY <1>1, <1>2, RaisedTold, LinkEnd DEF EncodingFails

LEMMA HandlingLink ==
  ASSUME TypeInv, ClaimInv, AheadInv, RecordInv, NEW s \in claims, Handling(s)
  PROVE  RecordInv'
  BY ActedLink, AuthorizationLink, CollectLink, NoteEvidenceLink, DraftedLink, GroundLink,
     EncodingFailsLink DEF Handling

(***************************************************************************)
(* The result, and its two writes.                                         *)
(***************************************************************************)
\* Only the entries and the fields it mentions decide whether a result is borne
\* out.
LEMMA BorneOutSame ==
  ASSUME NEW result, NEW rec, NEW new, BorneOut(result, rec),
         new.metadata = rec.metadata, new.evidence = rec.evidence,
         \A e \in {"failure", "policy_rejected", "adapter_rejected", "evidence_added"} :
           NotesIn(new, e) = NotesIn(rec, e),
         \A e \in CallEntries, k \in CallKinds : CallsIn(new, e, k) = CallsIn(rec, e, k)
  PROVE  BorneOut(result, new)
  BY MentionedEntries DEF BorneOut, Unfailed, Mentioned

LEMMA RecordFailureLink ==
  ASSUME TypeInv, ClaimInv, RecordInv, NEW s \in claims, RecordFailure(s)
  PROVE  RecordInv'
  <1> DEFINE result == Result(Unresolved(work[s]), work[s].usage, work[s].reason)
             w      == [work[s] EXCEPT !.result = result]
             rec    == Noted(record, "failure")
  <1>1. s \in Submissions /\ pc[s] = "failing"
    BY DEF RecordFailure, TypeInv, TypeOK
  <1>2. /\ record \in Records /\ work[s] \in Works /\ config[s] \in Configs
        /\ OpenFor(config[s], record) /\ Counted(work[s], record, 0)
    BY <1>1, LinkAt DEF LinkOf
  <1>3. /\ rec \in Records /\ SameFields(rec, record) /\ OpenFor(config[s], rec)
        /\ Counted(work[s], rec, 0)
    BY <1>2, NotedTally, OpenSame, CountedNoted, MentionedEntries DEF Mentioned
  <1>4. /\ Persist(s, rec, "save") /\ work' = [work EXCEPT ![s] = w]
        /\ UNCHANGED <<dir, config, claims>>
    BY DEF RecordFailure, Audit, Work
  <1>5. w.usage = work[s].usage /\ w.ledger = work[s].ledger /\ w.result = result
    BY <1>2 DEF Works
  <1>6. /\ result.status \notin Conclusive /\ result.risk = "unknown"
        /\ result.usage = work[s].usage
    BY DEF Result, Unresolved, FailureStatus, Conclusive
  <1> HIDE DEF w, rec, result
  <1>7. BorneOut(result, rec)
    BY <1>3, <1>6, TallyTypes, MentionedEntries DEF BorneOut, Counted, Mentioned
  <1>8. LinkOf("save", config[s], w, rec)
    BY <1>3, <1>5, <1>7 DEF LinkOf, Counted, Before, Opened, CallOut, Asking
  <1>9. /\ RecordOK(rec) /\ rec.result = record.result
        /\ "save" \in Later
    BY <1>2, <1>3, OpenIsOK, LaterPlaces DEF SameFields
  <1> QED BY <1>1, <1>3, <1>4, <1>8, <1>9, LinkPersist, LaterPlaces

LEMMA SaveLink ==
  ASSUME TypeInv, ClaimInv, RecordInv, NEW s \in claims, Save(s)
  PROVE  RecordInv'
  <1> DEFINE result == work[s].result
             rec    == [record EXCEPT !.result = result]
  <1>1. s \in Submissions /\ pc[s] = "save"
    BY DEF Save, TypeInv, TypeOK
  <1>2. /\ record \in Records /\ work[s] \in Works /\ config[s] \in Configs
        /\ OpenFor(config[s], record) /\ BorneOut(result, record) /\ result \in Results
    BY <1>1, LinkAt DEF LinkOf, ShapeOf
  <1>3. CASE MayMove(work[s].state, STATUS_STATE[result.status])
    <2>1. /\ Persist(s, rec, "mark") /\ UNCHANGED <<dir, config, claims>>
      BY <1>3 DEF Save
    <2>2. work' = [work EXCEPT ![s] = work[s]]
      BY <1>1 DEF Save, TypeInv, TypeOK
    <2>3. /\ rec \in Records /\ rec.evidence = record.evidence
          /\ rec.metadata = record.metadata /\ rec.state = record.state
          /\ rec.result = result /\ rec.audit = record.audit
      BY <1>2 DEF Records
    <2> HIDE DEF rec
    <2>4. BorneOut(result, rec)
      BY <1>2, <2>3, BorneOutSame DEF NotesIn, CallsIn
    <2>5. rec.metadata = Metadata(config[s]) /\ rec.metadata # None
      BY <1>2, <2>3, NoneAssumption DEF OpenFor, Metadatas
    <2>6. RecordOK(rec)
      BY <1>2, <2>3, <2>4, <2>5 DEF RecordOK, OpenFor, Metadata
    <2>7. LinkOf("mark", config[s], work[s], rec)
      BY <1>2, <2>3, <2>5 DEF LinkOf, OpenFor, Before, Opened, CallOut, Asking
    <2>8. record.result = None /\ "mark" \in Later
      BY <1>2, LaterPlaces DEF OpenFor
    <2> QED BY <1>1, <2>1, <2>2, <2>3, <2>6, <2>7, <2>8, LinkPersist, LaterPlaces
  <1>4. CASE ~MayMove(work[s].state, STATUS_STATE[result.status])
    BY <1>1, <1>4, RaisedTold, LinkEnd DEF Save
  <1> QED BY <1>3, <1>4

LEMMA MarkTerminalLink ==
  ASSUME TypeInv, ClaimInv, RecordInv, NEW s \in claims, MarkTerminal(s)
  PROVE  RecordInv'
  <1> DEFINE state == STATUS_STATE[work[s].result.status]
             mid   == Noted(record, "terminal")
             rec   == [mid EXCEPT !.state = state]
  <1>1. s \in Submissions /\ pc[s] = "mark"
    BY DEF MarkTerminal, TypeInv, TypeOK
  <1>2. /\ record \in Records /\ config[s] \in Configs /\ work[s].result \in Results
        /\ record.metadata = Metadata(config[s]) /\ record.result = work[s].result
        /\ RecordOK(record)
    BY <1>1, LinkAt DEF LinkOf, ShapeOf
  <1>3. record.result # None /\ record.metadata # None
    BY <1>2, NoneAssumption DEF Metadatas
  <1>4. state \in TERMINAL /\ state \in States
    BY <1>2 DEF Results, Statuses, STATUS_STATE, TERMINAL, States
  <1>5. /\ mid \in Records /\ SameFields(mid, record)
        /\ \A e \in {"failure", "policy_rejected", "adapter_rejected", "evidence_added"} :
             NotesIn(mid, e) = NotesIn(record, e)
        /\ \A e \in CallEntries, k \in CallKinds : CallsIn(mid, e, k) = CallsIn(record, e, k)
    BY <1>2, NotedTally DEF PlainEntries
  <1>6. /\ rec \in Records /\ rec.state = state
        /\ rec.metadata = record.metadata /\ rec.evidence = record.evidence
        /\ rec.result = record.result /\ rec.audit = mid.audit
    BY <1>4, <1>5 DEF Records, SameFields
  <1>7. /\ Persist(s, rec, "reread") /\ UNCHANGED <<dir, config, claims>>
    BY <1>3 DEF MarkTerminal
  <1>8. work' = [work EXCEPT ![s] = work[s]]
    BY <1>1 DEF MarkTerminal, TypeInv, TypeOK
  <1>9. state = STATUS_STATE[record.result.status]
    BY <1>2
  <1> HIDE DEF rec, mid, state
  <1>10. BorneOut(record.result, rec)
    BY <1>2, <1>3, <1>5, <1>6, BorneOutSame DEF RecordOK, NotesIn, CallsIn
  <1>11. RecordOK(rec)
    BY <1>2, <1>3, <1>6, <1>9, <1>10 DEF RecordOK
  <1>12. LinkOf("reread", config[s], work[s], rec)
    BY <1>2, <1>4, <1>6 DEF LinkOf, Before, Opened, CallOut, Asking
  <1>13. "reread" \in Later
    BY LaterPlaces
  <1> QED BY <1>1, <1>6, <1>7, <1>8, <1>11, <1>12, <1>13, LinkPersist, LaterPlaces

LEMMA RereadLink ==
  ASSUME TypeInv, RecordInv, NEW s \in Submissions, Reread(s)
  PROVE  RecordInv'
  <1>1. pc[s] = "reread" /\ record.metadata = Metadata(config[s]) /\ record.state \in TERMINAL
    BY LinkAt DEF Reread, LinkOf
  <1>2. ToldOf("done", config[s], s \in claims, Returned(record), record)
    BY <1>1 DEF ToldOf, Returned, Raised, View
  <1> QED BY <1>2, LinkEnd DEF Reread

LEMMA ClosingLink ==
  ASSUME TypeInv, ClaimInv, RecordInv, NEW s \in claims, Closing(s)
  PROVE  RecordInv'
  <1>1. s \in Submissions
    BY DEF TypeInv, TypeOK
  <1> QED BY <1>1, RecordFailureLink, SaveLink, MarkTerminalLink, RereadLink DEF Closing

(***************************************************************************)
(* Looking the key up, claiming it, and the first record.                  *)
(***************************************************************************)
LEMMA NoRecordFacts ==
  /\ NoRecord.metadata = None /\ NoRecord.result = None /\ NoRecord.evidence = {}
  /\ NoRecord.state = "RUNNING" /\ NoRecord.state \notin TERMINAL
  /\ RecordOK(NoRecord)
  BY DEF NoRecord, RecordOK, TERMINAL

\* A duplicate is told what the record says, or that its metadata differ.
LEMMA DuplicateLink ==
  ASSUME TypeInv, RecordInv, NEW s \in Submissions, pc[s] \in {"lookup", "relookup"},
         Duplicate(s), UNCHANGED <<dir, record, config, claims, work>>
  PROVE  RecordInv'
  <1>1. s \notin claims
    BY DEF RecordInv, PlaceOf, Before
  <1>2. CASE record.metadata \notin {None, Metadata(config[s])}
    BY <1>2, RaisedTold, LinkEnd DEF Duplicate
  <1>3. CASE record.metadata \in {None, Metadata(config[s])}
    <2>1. ToldOf("done", config[s], s \in claims, Returned(record), record)
      BY <1>1, <1>3 DEF ToldOf, Returned, Raised, View
    <2> QED BY <1>3, <2>1, LinkEnd DEF Duplicate
  <1> QED BY <1>2, <1>3

LEMMA LookupLink ==
  ASSUME TypeInv, RecordInv, NEW s \in Submissions, Lookup(s)
  PROVE  RecordInv'
  <1>1. CASE dir
    BY <1>1, DuplicateLink DEF Lookup
  <1>2. CASE ~dir
    <2>1. /\ pc[s] = "lookup" /\ pc' = [pc EXCEPT ![s] = "claim"]
          /\ UNCHANGED <<dir, record, config, claims, work, outcome>>
      BY <1>2 DEF Lookup, Goto
    <2>2. pc'[s] = "claim" /\ \A t \in Submissions \ {s} : pc'[t] = pc[t]
      BY <2>1 DEF TypeInv, TypeOK
    <2>3. LinkOf("claim", config[s], work[s], record)
      BY <2>1, LinkAt DEF LinkOf, Before, Opened, Asking, CallOut
    <2>4. ToldOf("claim", config[s], s \in claims, outcome[s], record)
      BY <2>1 DEF RecordInv, ToldOf
    <2>5. PlaceOf("claim", s \in claims, dir)
      BY <2>1 DEF RecordInv, PlaceOf, Before
    <2> QED BY <2>1, <2>2, <2>3, <2>4, <2>5 DEF RecordInv
  <1> QED BY <1>1, <1>2

LEMMA ClaimLink ==
  ASSUME TypeInv, ClaimInv, RecordInv, NEW s \in Submissions, Claim(s)
  PROVE  RecordInv'
  <1> DEFINE x == IF dir THEN "relookup" ELSE "create"
  <1>1. /\ pc[s] = "claim" /\ pc' = [pc EXCEPT ![s] = x] /\ dir' = TRUE
        /\ claims' = (IF dir THEN claims ELSE claims \cup {s})
        /\ UNCHANGED <<record, config, work, outcome>>
    BY DEF Claim, Goto
  <1>2. pc'[s] = x /\ \A t \in Submissions \ {s} : pc'[t] = pc[t]
    BY <1>1 DEF TypeInv, TypeOK
  <1>3. LinkOf(x, config[s], work[s], record)
    BY <1>1, LinkAt DEF LinkOf, Before, Opened, Asking, CallOut, RecordInv
  <1>4. outcome[s].kind = "none"
    BY <1>1, AnswerAt
  <1>5. ToldOf(x, config[s], s \in claims', outcome[s], record)
    BY <1>4, Unanswered
  <1>6. PlaceOf(x, s \in claims', TRUE)
    BY <1>1 DEF RecordInv, PlaceOf, Before
  <1>7. \A t \in Submissions \ {s} : t \in claims' <=> t \in claims
    BY <1>1
  <1>8. \A t \in Submissions \ {s} :
          /\ PlaceOf(pc[t], t \in claims', TRUE)
          /\ ToldOf(pc[t], config[t], t \in claims', outcome[t], record)
    BY <1>7 DEF RecordInv, PlaceOf, ToldOf
  <1> HIDE DEF x
  <1> QED BY <1>1, <1>2, <1>3, <1>5, <1>6, <1>8 DEF RecordInv

LEMMA CreateLink ==
  ASSUME TypeInv, ClaimInv, RecordInv, NEW s \in Submissions, Create(s)
  PROVE  RecordInv'
  <1> DEFINE rec == [NoRecord EXCEPT !.state = "RECEIVED", !.metadata = Metadata(config[s])]
  <1>1. s \in claims /\ pc[s] = "create"
    BY DEF Create, ClaimInv, OneInvestigator, Bystander
  <1>2. /\ config[s] \in Configs /\ work[s] = Fresh /\ record = NoRecord
    BY <1>1, LinkAt DEF LinkOf, Before
  <1>3. Metadata(config[s]) \in Metadatas
    BY <1>2 DEF Metadatas
  <1>4. /\ rec \in Records /\ rec.state = "RECEIVED" /\ rec.metadata = Metadata(config[s])
        /\ rec.evidence = {} /\ rec.result = None /\ rec.audit = NoAudit
    BY <1>3 DEF NoRecord, NoAudit, Records, States, TRANSITIONS
  <1>5. /\ Write(s, rec, "open") /\ UNCHANGED <<dir, config, claims>>
    BY DEF Create
  <1>6. work' = [work EXCEPT ![s] = Fresh]
    BY <1>2 DEF Create, TypeInv, TypeOK
  <1> HIDE DEF rec
  <1>7. /\ \A e \in PlainEntries : NotesIn(rec, e) = 0
        /\ \A e \in CallEntries, k \in CallKinds : CallsIn(rec, e, k) = 0
    BY <1>4 DEF NotesIn, CallsIn, NoAudit, Entries
  <1>8. OpenFor(config[s], rec)
    BY <1>4, FS_EmptySet DEF OpenFor, TERMINAL
  <1>9. Counted(Fresh, rec, 0)
    <2>1. /\ Fresh.ledger = {} /\ Fresh.usage = [k \in Counters |-> 0]
          /\ "evidence_items" \in Counters /\ CallKinds \subseteq Counters
      BY DEF Fresh, Counters
    <2>2. Cardinality(rec.evidence) = 0
      BY <1>4, FS_EmptySet
    <2> QED BY <1>4, <1>7, <2>1, <2>2, MentionedEntries DEF Counted, Mentioned
  <1>10. Unfailed(rec, {})
    BY <1>7, MentionedEntries DEF Unfailed, Mentioned
  <1>11. Fresh.operation = "choose_action"
    BY DEF Fresh
  <1>12. LinkOf("open", config[s], Fresh, rec)
    BY <1>8, <1>9, <1>10, <1>11 DEF LinkOf, Before, Asking, CallOut, Pending
  <1>13. RecordOK(rec)
    BY <1>2, <1>8, OpenIsOK
  <1>14. record.state \notin TERMINAL /\ record.result = None
    BY <1>2, NoRecordFacts
  <1>15. "open" \in Later /\ pc[s] # "done"
    BY <1>1, LaterPlaces
  <1> QED BY <1>1, <1>4, <1>5, <1>6, <1>12, <1>13, <1>14, <1>15, LinkWrite

LEMMA SubmitLink ==
  ASSUME TypeInv, RecordInv, NEW s \in Submissions, Submit(s)
  PROVE  RecordInv'
  <1>1. PICK c \in Configs : config' = [config EXCEPT ![s] = c]
    BY DEF Submit
  <1>2. /\ pc[s] = "idle" /\ pc' = [pc EXCEPT ![s] = "lookup"]
        /\ UNCHANGED <<dir, record, claims, work, outcome>>
    BY DEF Submit, Goto
  <1>3. /\ pc'[s] = "lookup"
        /\ \A t \in Submissions \ {s} : pc'[t] = pc[t] /\ config'[t] = config[t]
    BY <1>1, <1>2 DEF TypeInv, TypeOK
  <1>4. LinkOf("lookup", config'[s], work[s], record)
    BY <1>2, LinkAt DEF LinkOf, Before, Opened, Asking, CallOut
  <1>5. ToldOf("lookup", config'[s], s \in claims, outcome[s], record)
    <2>1. outcome[s].kind = "none"
      BY <1>2, AnswerAt
    <2> QED BY <2>1, Unanswered
  <1>6. PlaceOf("lookup", s \in claims, dir)
    BY <1>2 DEF RecordInv, PlaceOf, Before
  <1> QED BY <1>2, <1>3, <1>4, <1>5, <1>6 DEF RecordInv

LEMMA EnvironmentLink ==
  ASSUME TypeInv, RecordInv, NEW s \in Submissions,
         \/ RefuseEvent(s) \/ ClaimFails(s) \/ ReadFails(s) \/ ContextTooLarge(s)
         \/ ResultTooLarge(s) \/ Expire(s) \/ Crash(s)
  PROVE  RecordInv'
  <1>1. CASE ClaimFails(s) \/ ReadFails(s) \/ ResultTooLarge(s)
    BY <1>1, RaisedTold, LinkEnd DEF ClaimFails, ReadFails, ResultTooLarge
  <1>2. CASE ContextTooLarge(s)
    BY <1>2, LinkFail DEF ContextTooLarge, Opened
  <1>3. CASE Expire(s)
    BY <1>3 DEF Expire, RecordInv
  <1>4. CASE Crash(s)
    <2>1. work' = [work EXCEPT ![s] = work[s]] /\ pc[s] # "done"
      BY <1>4 DEF Crash, TypeInv, TypeOK
    <2> QED BY <1>4, <2>1, GoneLink, LinkQuiet, LaterPlaces DEF Crash, Goto
  <1>5. CASE RefuseEvent(s)
    <2>1. config[s] = None
      BY <1>5 DEF RefuseEvent, RecordInv, ToldOf
    <2> QED BY <1>5, <2>1, RaisedTold, LinkEnd DEF RefuseEvent
  <1> QED BY <1>1, <1>2, <1>3, <1>4, <1>5

LEMMA InitRecord == Init => RecordInv
  <1> SUFFICES ASSUME Init PROVE RecordInv
    OBVIOUS
  <1>1. record = NoRecord /\ RecordOK(record)
    BY NoRecordFacts DEF Init
  <1>2. ASSUME NEW s \in Submissions
        PROVE  /\ LinkOf(pc[s], config[s], work[s], record)
               /\ ToldOf(pc[s], config[s], s \in claims, outcome[s], record)
               /\ PlaceOf(pc[s], s \in claims, dir)
    <2>1. /\ pc[s] = "idle" /\ config[s] = None /\ work[s] = Fresh
          /\ outcome[s] = NoOutcome /\ claims = {}
      BY DEF Init
    <2> QED BY <2>1 DEF LinkOf, ToldOf, PlaceOf, NoOutcome, Raised, Opened, Asking, CallOut
  <1> QED BY <1>1, <1>2 DEF RecordInv

LEMMA NextRecord ==
  TypeInv /\ ClaimInv /\ AheadInv /\ RecordInv /\ [Next]_vars => RecordInv'
  <1> SUFFICES ASSUME TypeInv, ClaimInv, AheadInv, RecordInv, [Next]_vars PROVE RecordInv'
    OBVIOUS
  <1>1. CASE UNCHANGED vars
    BY <1>1 DEF vars, RecordInv
  <1>2. ASSUME NEW s \in Submissions, Entry(s) PROVE RecordInv'
    BY <1>2, LookupLink, ClaimLink, CreateLink, DuplicateLink DEF Entry, Relookup
  <1>3. ASSUME NEW s \in Submissions, Opening(s) \/ Calling(s) \/ Handling(s) \/ Closing(s)
        PROVE  RecordInv'
    <2>1. s \in claims
      BY <1>3, ClaimerFrame DEF Claimer, ClaimInv, OneInvestigator
    <2> QED BY <1>3, <2>1, OpeningLink, CallingLink, HandlingLink, ClosingLink
  <1>4. ASSUME NEW s \in Submissions, Environment(s) PROVE RecordInv'
    BY <1>4, SubmitLink, EnvironmentLink, ProviderLink DEF Environment
  <1> QED BY <1>1, <1>2, <1>3, <1>4 DEF Next, Run

Inv == TypeInv /\ ClaimInv /\ AheadInv /\ RecordInv

LEMMA InvHolds == Spec => []Inv
  <1>1. Init => ClaimInv
    BY DEF Init, ClaimInv, OneInvestigator, Bystander
  <1>2. Init => AheadInv
    BY InitAhead
  <1>3. Inv /\ [Next]_vars => Inv'
    BY NextType, NextClaim, NextAhead, NextRecord DEF Inv
  <1>4. Init => Inv
    BY <1>1, <1>2, InitType, InitRecord DEF Inv
  <1> QED BY <1>3, <1>4, PTL DEF Spec

(***************************************************************************)
(* What the stored record says.                                            *)
(***************************************************************************)
\* The usage a stored result reports is the usage the record shows, however
\* many submissions, faults and calls there are: the local counters and the
\* audit never part before the result is made (Budget and _running).
THEOREM UsageIsAuditedHolds == Spec => []UsageIsAudited
  <1>1. Inv => UsageIsAudited
    BY DEF Inv, RecordInv, RecordOK, BorneOut, UsageIsAudited, NotesIn, CallsIn
  <1> QED BY <1>1, InvHolds, PTL

\* No read and no stored item of evidence was outside the tools and the scope
\* of the policy of the record, for any policy and any request a model makes
\* (Policy.authorize).
THEOREM OnlyPermittedReadsHolds == Spec => []OnlyPermittedReads
  <1>1. Inv => OnlyPermittedReads
    BY DEF Inv, RecordInv, RecordOK, LinkOf, Asking, CallOut, OnlyPermittedReads
  <1> QED BY <1>1, InvHolds, PTL

\* A stored verdict rests on the evidence stored with it, for any draft a model
\* may produce (validate_grounding, save_result).
THEOREM VerdictIsGroundedHolds == Spec => []VerdictIsGrounded
  <1>1. Inv => VerdictIsGrounded
    BY DEF Inv, RecordInv, RecordOK, BorneOut, VerdictIsGrounded
  <1> QED BY <1>1, InvHolds, PTL

\* An investigation in which anything failed never ends in a verdict.
THEOREM FailureNeverBenignHolds == Spec => []FailureNeverBenign
  <1>1. Inv => FailureNeverBenign
    <2> SUFFICES ASSUME Inv, record.result # None
                 PROVE  /\ record.audit[<<"failure", "-">>] > 0 =>
                             record.result.status \notin Conclusive
                               /\ record.result.risk = "unknown"
                        /\ record.result.status \in Conclusive =>
                             /\ record.audit[<<"policy_rejected", "-">>] = 0
                             /\ record.audit[<<"adapter_rejected", "-">>] = 0
                             /\ \A k \in CallKinds :
                                  record.audit[<<"call_started", k>>]
                                    = record.audit[<<"call_completed", k>>]
      BY DEF FailureNeverBenign
    <2>1. BorneOut(record.result, record)
      BY DEF Inv, RecordInv, RecordOK
    <2>2. record \in Records
      BY DEF Inv, TypeInv, TypeOK
    <2>3. \A k \in CallKinds : CallsIn(record, "call_completed", k) \in Nat
      BY <2>2, TallyTypes, MentionedEntries DEF Mentioned
    <2>4. record.result.status \in Conclusive =>
            \A k \in CallKinds :
              CallsIn(record, "call_started", k) = CallsIn(record, "call_completed", k)
      BY <2>1, <2>3 DEF BorneOut, Unfailed
    <2> QED BY <2>1, <2>4 DEF BorneOut, Unfailed, NotesIn, CallsIn
  <1> QED BY <1>1, InvHolds, PTL

\* No call is made past the deadline or once any counter has reached its limit,
\* whatever the limits are: the reservation checked all three, and the claimer
\* counts nothing between it and the invocation (Budget.check).
THEOREM NoCallAfterExhaustionHolds == Spec => NoCallAfterExhaustion
  <1> DEFINE Allowed ==
        \A s \in Submissions, k \in CallKinds :
          invoked'[s][k] # invoked[s][k] =>
            /\ ~expired[s]
            /\ \A c \in Counters :
                 work[s].usage[c] - (IF c = k THEN 1 ELSE 0) < config[s].policy.limits[c]
  <1>1. Inv /\ [Next]_vars => [Allowed]_vars
    <2> SUFFICES ASSUME Inv, [Next]_vars, NEW s \in Submissions, NEW k \in CallKinds,
                        invoked'[s][k] # invoked[s][k]
                 PROVE  /\ ~expired[s]
                        /\ \A c \in Counters :
                             work[s].usage[c] - (IF c = k THEN 1 ELSE 0)
                               < config[s].policy.limits[c]
      OBVIOUS
    <2>1. PICK t \in Submissions : Run(t) \/ Environment(t)
      BY DEF vars, Next
    <2>2. ~(Entry(t) \/ Opening(t) \/ Handling(t) \/ Closing(t))
      BY DEF Entry, Opening, Handling, Closing, Lookup, Claim, Relookup, Create, Validate,
         LoadPolicy, PolicyLoaded, Admit, Dispatch, Acted, Authorization, Collect,
         NoteEvidence, Drafted, Ground, EncodingFails, RecordFailure, Save, MarkTerminal,
         Reread, Move, Audit, Fail
    <2>3. ~Environment(t)
      BY DEF Environment, Provider, Submit, RefuseEvent, ClaimFails, ReadFails,
         ContextTooLarge, ResultTooLarge, ProviderRaises, Timeout, ModelActs, ModelDrafts,
         ToolResponds, Expire, Crash, Fail, Answer
    <2>4. ~(Context(t) \/ Reserve(t) \/ StartCall(t) \/ CompleteCall(t))
      BY DEF Context, Reserve, StartCall, CompleteCall, Fail
    <2>5. Invoke(t)
      BY <2>1, <2>2, <2>3, <2>4 DEF Run, Calling
    <2>6. ~expired[t] /\ pc[t] = "invoke"
          /\ invoked' = [invoked EXCEPT ![t][KindOf(work[t].operation)] = @ + 1]
      BY <2>5 DEF Invoke, Fail
    <2>7. t = s /\ k = KindOf(work[s].operation)
      BY <2>6 DEF Inv, TypeInv, TypeOK
    <2>8. LinkOf("invoke", config[s], work[s], record)
      BY <2>6, <2>7 DEF Inv, RecordInv
    <2> QED BY <2>6, <2>7, <2>8 DEF LinkOf
  <1> QED BY <1>1, InvHolds, PTL DEF Spec, NoCallAfterExhaustion

(***************************************************************************)
(* What callers are told.                                                  *)
(***************************************************************************)
\* Every caller that is given a finished record is given the same one, and none
\* is given another submission's record, for any number of callers
\* (_validate_existing, mark_terminal).
THEOREM AnswersAgreeHolds == Spec => []AnswersAgree
  <1>1. Inv => AnswersAgree
    <2> SUFFICES ASSUME Inv, NEW s \in Submissions, NEW t \in Submissions
                 PROVE  /\ outcome[s].kind = "returned" /\ outcome[s].view.metadata # None =>
                             outcome[s].view.metadata = Metadata(config[s])
                        /\ /\ outcome[s].kind = "returned" /\ outcome[s].view.state \in TERMINAL
                           /\ outcome[t].kind = "returned" /\ outcome[t].view.state \in TERMINAL
                           => outcome[s].view = outcome[t].view
      BY DEF AnswersAgree
    <2>1. /\ ToldOf(pc[s], config[s], s \in claims, outcome[s], record)
          /\ ToldOf(pc[t], config[t], t \in claims, outcome[t], record)
      BY DEF Inv, RecordInv
    <2> QED BY <2>1 DEF ToldOf
  <1> QED BY <1>1, InvHolds, PTL

\* A result that anybody was given is the one the record holds, then and ever
\* after, and the claimer is only given a finished record.
THEOREM AnswersAreDurableHolds == Spec => []AnswersAreDurable
  <1>1. Inv => AnswersAreDurable
    <2> SUFFICES ASSUME Inv, NEW s \in Submissions, outcome[s].kind = "returned"
                 PROVE  /\ s \in claims =>
                             /\ outcome[s].view.state \in TERMINAL
                             /\ outcome[s].view.result # None
                             /\ outcome[s].view.state = STATUS_STATE[outcome[s].view.result.status]
                        /\ outcome[s].view.result # None =>
                             outcome[s].view.result = record.result
      BY DEF AnswersAreDurable
    <2>1. /\ ToldOf(pc[s], config[s], s \in claims, outcome[s], record)
          /\ RecordOK(record)
      BY DEF Inv, RecordInv
    <2>2. outcome[s].view = View(record) =>
            /\ outcome[s].view.state = record.state
            /\ outcome[s].view.result = record.result
      BY DEF View
    <2> QED BY <2>1, <2>2 DEF ToldOf, RecordOK
  <1> QED BY <1>1, InvHolds, PTL

\* However often the command is run on one event, two of its exit codes never
\* claim opposite verdicts (main): each comes from the one stored result.
THEOREM ExitsNeverContradictHolds == Spec => []ExitsNeverContradict
  <1>1. Inv => ExitsNeverContradict
    <2> SUFFICES ASSUME Inv, NEW s \in Exited, NEW t \in Exited, config[t] # None,
                        ExitCode(outcome[s]) = 0, ExitCode(outcome[t]) = 1
                 PROVE  FALSE
      BY DEF ExitsNeverContradict
    <2>1. ASSUME NEW x \in Exited
          PROVE  /\ ToldOf(pc[x], config[x], x \in claims, outcome[x], record)
                 /\ \/ outcome[x].kind = "returned"
                    \/ /\ outcome[x].kind = "raised"
                       /\ outcome[x].error \in Exceptions
                       /\ outcome[x] = Raised(outcome[x].error)
      <3>1. x \in Submissions /\ outcome[x].kind # "none"
        BY DEF Exited
      <3>2. outcome[x] \in Outcomes
        BY <3>1 DEF Inv, TypeInv, TypeOK
      <3>3. ToldOf(pc[x], config[x], x \in claims, outcome[x], record)
        BY <3>1 DEF Inv, RecordInv
      <3> QED BY <3>1, <3>2, <3>3 DEF Outcomes, Raised
    \* Codes 0 and 1 of an answered run are the verdict the record holds.
    <2>2. ASSUME NEW x \in Exited, ExitCode(outcome[x]) # 2, outcome[x].kind = "returned"
          PROVE  /\ outcome[x].view.result # None /\ outcome[x].view.result = record.result
                 /\ record.result.status =
                      IF ExitCode(outcome[x]) = 0 THEN "likely_benign"
                                                  ELSE "confirmed_suspicious"
      BY <2>1, <2>2 DEF ToldOf, ExitCode
    <2>3. outcome[s].kind = "returned"
      BY <2>1 DEF ExitCode
    <2>4. record.result # None /\ record.result.status = "likely_benign"
      BY <2>2, <2>3
    <2>5. CASE outcome[t].kind = "returned"
      BY <2>2, <2>4, <2>5
    \* A traceback: the claim has no result then, and never gets one.
    <2>6. CASE outcome[t].kind = "raised"
      <3>1. outcome[t].error = "UnicodeEncodeError"
        BY <2>1, <2>6 DEF ExitCode, Exceptions
      <3> QED BY <2>1, <2>4, <2>6, <3>1 DEF ToldOf
    <2> QED BY <2>1, <2>5, <2>6
  <1> QED BY <1>1, InvHolds, PTL

(***************************************************************************)
(* Investigator.run implements the register of one key.                    *)
(***************************************************************************)
Told == [s \in Submissions |-> ToldTo(s)]

Advance == Register!TakeClaim \/ Register!Resolve \/ Register!Close

\* What an answer tells; it is all that a caller is told.
ToldBy(answer) ==
  CASE answer.kind = "none"     -> [kind |-> "untold"]
    [] answer.kind = "raised"   -> [kind |-> "refused"]
    [] answer.kind = "returned" ->
         [kind |-> "told", final |-> answer.view.state \in TERMINAL,
          verdict |-> answer.view.result]

LEMMA ToldIsAnswer ==
  /\ Told = [t \in Submissions |-> ToldBy(outcome[t])]
  /\ Told' = [t \in Submissions |-> ToldBy(outcome'[t])]
  BY DEF Told, ToldTo, ToldBy

\* Nobody is told anything new.
LEMMA NobodyTold == outcome' = outcome => UNCHANGED Told
  BY ToldIsAnswer

\* One more caller is refused.
LEMMA OneRefused ==
  ASSUME TypeInv, NEW s \in Submissions, NEW error, outcome[s].kind = "none",
         outcome' = [outcome EXCEPT ![s] = Raised(error)]
  PROVE  Register!Refuse(s)
  <1>1. /\ outcome'[s].kind = "raised"
        /\ \A t \in Submissions \ {s} : outcome'[t] = outcome[t]
    BY DEF Raised, TypeInv, TypeOK
  <1>2. Told'[s] = [kind |-> "refused"] /\ Told[s].kind = "untold"
    BY <1>1, ToldIsAnswer DEF ToldBy
  <1>3. \A t \in Submissions \ {s} : Told'[t] = Told[t]
    BY <1>1, ToldIsAnswer
  <1>4. Told' = [Told EXCEPT ![s] = [kind |-> "refused"]]
    BY <1>2, <1>3, ToldIsAnswer
  <1> QED BY <1>2, <1>4 DEF Told, Register!Refuse, Register!Answered, Register!Untold,
             Register!Refused

\* One more caller is given the record.
LEMMA OneTold ==
  ASSUME TypeInv, RecordInv, dir, NEW s \in Submissions, outcome[s].kind = "none",
         outcome' = [outcome EXCEPT ![s] = Returned(record)]
  PROVE  Register!Tell(s)
  <1> DEFINE answer == [kind |-> "told", final |-> PhaseOf = "closed",
                        verdict |-> record.result]
  <1>1. /\ outcome'[s].kind = "returned" /\ outcome'[s].view = View(record)
        /\ \A t \in Submissions \ {s} : outcome'[t] = outcome[t]
    BY DEF Returned, TypeInv, TypeOK
  <1>2. (PhaseOf = "closed") = (record.state \in TERMINAL) /\ PhaseOf # "free"
    BY DEF PhaseOf
  <1>3. Told'[s] = answer /\ Told[s].kind = "untold"
    BY <1>1, <1>2, ToldIsAnswer DEF ToldBy, View
  <1>4. \A t \in Submissions \ {s} : Told'[t] = Told[t]
    BY <1>1, ToldIsAnswer
  <1> HIDE DEF answer
  <1>5. Told' = [Told EXCEPT ![s] = answer]
    BY <1>3, <1>4, ToldIsAnswer
  <1> QED BY <1>2, <1>3, <1>5 DEF answer, Told, Register!Tell, Register!Answered, Register!Untold

RegisterStep == Register!RegisterNext \/ UNCHANGED Register!registerVars

\* A step that leaves the register alone.
LEMMA StepQuiet ==
  ASSUME UNCHANGED <<dir, record, outcome>>
  PROVE  RegisterStep
  <1>1. UNCHANGED PhaseOf
    BY DEF PhaseOf
  <1> QED BY <1>1, NobodyTold DEF RegisterStep, Register!registerVars, Told

\* A step that only refuses its caller.
LEMMA StepRefuse ==
  ASSUME TypeInv, RecordInv, NEW s \in Submissions, pc[s] # "done", NEW error,
         End(s, Raised(error)), UNCHANGED <<dir, record>>
  PROVE  RegisterStep
  <1>1. Register!Refuse(s)
    BY OneRefused DEF End, RecordInv, ToldOf
  <1>2. UNCHANGED <<PhaseOf, record.result>>
    BY DEF PhaseOf
  <1> QED BY <1>1, <1>2 DEF RegisterStep, Register!RegisterNext

\* A step that only answers its caller.
LEMMA StepTell ==
  ASSUME TypeInv, RecordInv, dir, NEW s \in Submissions, pc[s] # "done",
         End(s, Returned(record)), UNCHANGED <<dir, record>>
  PROVE  RegisterStep
  <1>1. Register!Tell(s)
    BY OneTold DEF End, RecordInv, ToldOf
  <1>2. UNCHANGED <<PhaseOf, record.result>>
    BY DEF PhaseOf
  <1> QED BY <1>1, <1>2 DEF RegisterStep, Register!RegisterNext

\* A write advances the register or leaves it alone; one that fails refuses its
\* caller besides, whether or not it took effect.
LEMMA StepWrite ==
  ASSUME TypeInv, RecordInv, NEW s \in Submissions, pc[s] # "done", NEW rec, NEW next,
         Write(s, rec, next), dir' = dir,
         record' = rec => Advance \/ UNCHANGED <<PhaseOf, record.result>>
  PROVE  RegisterStep
  <1>1. CASE record' = rec /\ UNCHANGED outcome
    BY <1>1, NobodyTold
       DEF RegisterStep, Advance, Register!RegisterNext, Register!registerVars, Told
  <1>2. CASE record' \in {record, rec} /\ End(s, Raised("PersistenceError"))
    <2>1. Register!Refuse(s)
      BY <1>2, OneRefused DEF End, RecordInv, ToldOf
    <2>2. record' = record => UNCHANGED <<PhaseOf, record.result>>
      BY DEF PhaseOf
    <2> QED BY <1>2, <2>1, <2>2 DEF RegisterStep, Advance, Register!RegisterNext
  <1> QED BY <1>1, <1>2 DEF Write

LEMMA StepPersist ==
  ASSUME TypeInv, RecordInv, NEW s \in Submissions, pc[s] # "done", NEW rec, NEW next,
         Persist(s, rec, next), dir' = dir,
         Writable /\ record' = rec => Advance \/ UNCHANGED <<PhaseOf, record.result>>
  PROVE  RegisterStep
  <1>1. CASE Writable
    BY <1>1, StepWrite DEF Persist
  <1>2. CASE ~Writable
    BY <1>2, StepRefuse DEF Persist
  <1> QED BY <1>1, <1>2

\* A write that neither saves a result nor ends the investigation.
LEMMA StepStore ==
  ASSUME TypeInv, RecordInv, NEW s \in Submissions, pc[s] # "done", NEW rec, NEW next,
         Persist(s, rec, next), dir' = dir,
         rec.result = record.result,
         rec.state \in TERMINAL <=> record.state \in TERMINAL
  PROVE  RegisterStep
  <1>1. record' = rec => UNCHANGED <<PhaseOf, record.result>>
    BY DEF PhaseOf
  <1> QED BY <1>1, StepPersist

LEMMA StepFail ==
  ASSUME NEW s, NEW error, NEW missing, Fail(s, error, missing)
  PROVE  RegisterStep
  BY StepQuiet DEF Fail

LEMMA StepAudit ==
  ASSUME TypeInv, RecordInv, NEW s \in Submissions, pc[s] # "done",
         NEW kind \in PlainEntries, NEW next, Audit(s, kind, next)
  PROVE  RegisterStep
  <1>1. SameFields(Noted(record, kind), record)
    BY LinkAt, NotedTally
  <1> QED BY <1>1, StepStore DEF Audit, SameFields

LEMMA StepCall ==
  ASSUME TypeInv, RecordInv, NEW s \in Submissions, pc[s] # "done",
         NEW kind \in CallEntries, NEW next,
         Persist(s, NotedCall(record, kind, work[s].operation), next), dir' = dir
  PROVE  RegisterStep
  <1>1. SameFields(NotedCall(record, kind, work[s].operation), record)
    BY LinkAt, NotedCallTally
  <1> QED BY <1>1, StepStore DEF SameFields

LEMMA StepMove ==
  ASSUME TypeInv, RecordInv, NEW s \in Submissions, pc[s] \in Opened,
         NEW target \in {"VALIDATED", "POLICY_LOADED", "INVESTIGATING"}, NEW next,
         Move(s, target, next)
  PROVE  RegisterStep
  <1> DEFINE mid == Noted(record, "state")
             rec == [mid EXCEPT !.state = target]
  <1>1. mid \in Records /\ SameFields(mid, record) /\ record.state \notin TERMINAL
    BY LinkAt, NotedTally DEF PlainEntries, LinkOf, OpenFor
  <1>2. rec.result = record.result /\ rec.state = target /\ target \notin TERMINAL
    BY <1>1 DEF Records, SameFields, TERMINAL
  <1>3. Persist(s, rec, next) /\ dir' = dir /\ pc[s] # "done"
    BY DEF Move, Opened
  <1> HIDE DEF rec
  <1> QED BY <1>1, <1>2, <1>3, StepStore

LEMMA StepDuplicate ==
  ASSUME TypeInv, RecordInv, NEW s \in Submissions, dir, pc[s] # "done",
         Duplicate(s), UNCHANGED <<dir, record>>
  PROVE  RegisterStep
  BY StepRefuse, StepTell DEF Duplicate

LEMMA StepClaim ==
  ASSUME TypeInv, RecordInv, NEW s \in Submissions, Claim(s)
  PROVE  RegisterStep
  <1>1. CASE dir
    BY <1>1, StepQuiet DEF Claim, TypeInv, TypeOK
  <1>2. CASE ~dir
    <2>1. record = NoRecord /\ record' = record /\ dir' /\ outcome' = outcome
      BY <1>2 DEF Claim, RecordInv
    <2>2. PhaseOf = "free" /\ PhaseOf' = "claimed" /\ UNCHANGED record.result
      BY <1>2, <2>1, NoRecordFacts DEF PhaseOf
    <2> QED BY <2>1, <2>2, NobodyTold
        DEF RegisterStep, Register!RegisterNext, Register!TakeClaim, Told
  <1> QED BY <1>1, <1>2

LEMMA StepCreate ==
  ASSUME TypeInv, RecordInv, NEW s \in Submissions, Create(s)
  PROVE  RegisterStep
  <1> DEFINE rec == [NoRecord EXCEPT !.state = "RECEIVED", !.metadata = Metadata(config[s])]
  <1>1. record = NoRecord
    BY LinkAt DEF Create, LinkOf
  <1>2. rec.result = None /\ rec.state \notin TERMINAL
    BY DEF NoRecord, TERMINAL
  <1>3. Write(s, rec, "open") /\ dir' = dir /\ pc[s] # "done"
    BY DEF Create
  <1> HIDE DEF rec
  <1>4. record' = rec => UNCHANGED <<PhaseOf, record.result>>
    BY <1>1, <1>2, <1>3, NoRecordFacts DEF PhaseOf
  <1> QED BY <1>3, <1>4, StepWrite

LEMMA StepOpening ==
  ASSUME TypeInv, RecordInv, NEW s \in Submissions, Opening(s)
  PROVE  RegisterStep
  <1>1. CASE Validate(s) \/ PolicyLoaded(s)
    BY <1>1, StepMove DEF Validate, PolicyLoaded, Opened
  <1>2. CASE LoadPolicy(s)
    BY <1>2, StepAudit DEF LoadPolicy, PlainEntries
  <1>3. CASE Admit(s)
    BY <1>3, StepMove, StepFail DEF Admit, Opened
  <1>4. CASE Dispatch(s)
    <2>1. CASE Tools \subseteq config[s].callable
      BY <1>4, <2>1, StepQuiet DEF Dispatch
    <2>2. CASE ~(Tools \subseteq config[s].callable)
      <3>1. SameFields(Noted(record, "adapter_rejected"), record)
        BY LinkAt, NotedTally DEF PlainEntries
      <3>2. Persist(s, Noted(record, "adapter_rejected"), "failing") /\ dir' = dir
              /\ pc[s] # "done"
        BY <1>4, <2>2 DEF Dispatch
      <3> QED BY <3>1, <3>2, StepStore DEF SameFields
    <2> QED BY <2>1, <2>2
  <1> QED BY <1>1, <1>2, <1>3, <1>4 DEF Opening

LEMMA StepCalling ==
  ASSUME TypeInv, RecordInv, NEW s \in Submissions, Calling(s)
  PROVE  RegisterStep
  <1>1. CASE Context(s)
    BY <1>1, StepQuiet DEF Context
  <1>2. CASE Reserve(s) \/ StartCall(s) \/ CompleteCall(s)
    BY <1>2, StepFail, StepCall, MentionedEntries
       DEF Reserve, StartCall, CompleteCall, Mentioned
  <1>3. CASE Invoke(s)
    BY <1>3, StepQuiet DEF Invoke, Fail
  <1> QED BY <1>1, <1>2, <1>3 DEF Calling

LEMMA StepHandling ==
  ASSUME TypeInv, RecordInv, NEW s \in Submissions, Handling(s)
  PROVE  RegisterStep
  <1>1. CASE Acted(s) \/ Authorization(s) \/ NoteEvidence(s) \/ Drafted(s)
    BY <1>1, StepAudit, StepFail
       DEF Acted, Authorization, NoteEvidence, Drafted, PlainEntries
  <1>2. CASE Collect(s)
    <2> DEFINE item == [request |-> work[s].request, content |-> work[s].answer.content]
               rec  == [record EXCEPT !.evidence = @ \cup {item}]
    <2>1. rec.result = record.result /\ rec.state = record.state
      BY LinkAt DEF Records
    <2>2. \/ UNCHANGED <<dir, record, outcome>>
          \/ Persist(s, rec, "note") /\ dir' = dir
      BY <1>2 DEF Collect, Fail
    <2>3. pc[s] # "done"
      BY <1>2 DEF Collect
    <2> HIDE DEF rec
    <2> QED BY <2>1, <2>2, <2>3, StepQuiet, StepStore
  <1>3. CASE Ground(s)
    BY <1>3, StepQuiet, StepFail DEF Ground
  <1>4. CASE EncodingFails(s)
    BY <1>4, StepRefuse DEF EncodingFails
  <1> QED BY <1>1, <1>2, <1>3, <1>4 DEF Handling

\* The first of the two last writes resolves the register.
LEMMA StepSave ==
  ASSUME TypeInv, ClaimInv, RecordInv, NEW s \in claims, Save(s)
  PROVE  RegisterStep
  <1> DEFINE result == work[s].result
             rec    == [record EXCEPT !.result = result]
  <1>1. s \in Submissions /\ pc[s] = "save" /\ pc[s] # "done" /\ dir /\ dir' = dir
    BY DEF Save, TypeInv, TypeOK, ClaimInv
  <1>2. /\ record \in Records /\ OpenFor(config[s], record) /\ result \in Results
    BY <1>1, LinkAt DEF LinkOf, ShapeOf
  <1>3. rec.result = result /\ rec.state = record.state /\ result # None
    BY <1>2, NoneAssumption DEF Records
  <1>4. record.result = None /\ record.state \notin TERMINAL
    BY <1>2 DEF OpenFor
  <1>5. CASE MayMove(work[s].state, STATUS_STATE[result.status])
    <2>1. Persist(s, rec, "mark")
      BY <1>5 DEF Save
    <2> HIDE DEF rec, result
    <2>2. record' = rec => Register!Resolve
      BY <1>1, <1>2, <1>3, <1>4 DEF Register!Resolve, PhaseOf
    <2> QED BY <1>1, <2>1, <2>2, StepPersist DEF Advance
  <1>6. CASE ~MayMove(work[s].state, STATUS_STATE[result.status])
    BY <1>1, <1>6, StepRefuse DEF Save
  <1> QED BY <1>5, <1>6

\* The second closes it.
LEMMA StepMark ==
  ASSUME TypeInv, ClaimInv, RecordInv, NEW s \in claims, MarkTerminal(s)
  PROVE  RegisterStep
  <1> DEFINE state == STATUS_STATE[work[s].result.status]
             mid   == Noted(record, "terminal")
             rec   == [mid EXCEPT !.state = state]
  <1>1. s \in Submissions /\ pc[s] = "mark" /\ pc[s] # "done" /\ dir /\ dir' = dir
    BY DEF MarkTerminal, TypeInv, TypeOK, ClaimInv
  <1>2. /\ record \in Records /\ work[s].result \in Results
        /\ record.result = work[s].result /\ record.state \notin TERMINAL
    BY <1>1, LinkAt DEF LinkOf, ShapeOf
  <1>3. record.result # None
    BY <1>2, NoneAssumption
  <1>4. state \in TERMINAL
    BY <1>2 DEF Results, Statuses, STATUS_STATE, TERMINAL
  <1>5. mid \in Records /\ SameFields(mid, record)
    BY <1>2, NotedTally DEF PlainEntries
  <1>6. rec.result = record.result /\ rec.state = state
    BY <1>5 DEF Records, SameFields
  <1>7. Persist(s, rec, "reread")
    BY <1>3 DEF MarkTerminal
  <1> HIDE DEF rec, mid, state
  <1>8. record' = rec => Register!Close
    BY <1>1, <1>2, <1>3, <1>4, <1>6 DEF Register!Close, PhaseOf
  <1> QED BY <1>1, <1>7, <1>8, StepPersist DEF Advance

LEMMA StepClosing ==
  ASSUME TypeInv, ClaimInv, RecordInv, NEW s \in claims, Closing(s)
  PROVE  RegisterStep
  <1>1. s \in Submissions /\ dir
    BY DEF TypeInv, TypeOK, ClaimInv
  <1>2. CASE RecordFailure(s)
    BY <1>1, <1>2, StepAudit DEF RecordFailure, PlainEntries
  <1>3. CASE Reread(s)
    BY <1>1, <1>3, StepTell DEF Reread
  <1> QED BY <1>2, <1>3, StepSave, StepMark DEF Closing

LEMMA StepEnvironment ==
  ASSUME TypeInv, RecordInv, NEW s \in Submissions, Environment(s)
  PROVE  RegisterStep
  <1>1. CASE RefuseEvent(s) \/ ClaimFails(s) \/ ReadFails(s) \/ ResultTooLarge(s)
    BY <1>1, StepRefuse DEF RefuseEvent, ClaimFails, ReadFails, ResultTooLarge
  <1>2. CASE \/ Submit(s) \/ ContextTooLarge(s) \/ Expire(s) \/ Crash(s)
             \/ Timeout(s) \/ ModelActs(s) \/ ModelDrafts(s) \/ ToolResponds(s)
    BY <1>2, StepQuiet DEF Submit, ContextTooLarge, Timeout, ModelActs, ModelDrafts,
       ToolResponds, Answer, Fail, Expire, Crash
  <1>3. CASE ProviderRaises(s)
    BY <1>3, StepRefuse, StepFail DEF ProviderRaises
  <1> QED BY <1>1, <1>2, <1>3 DEF Environment, Provider

LEMMA NextStep ==
  ASSUME TypeInv, ClaimInv, RecordInv, [Next]_vars
  PROVE  RegisterStep
  <1>1. CASE UNCHANGED vars
    BY <1>1, StepQuiet DEF vars
  <1>2. ASSUME NEW s \in Submissions, Entry(s) PROVE RegisterStep
    <2>1. CASE Lookup(s)
      BY <2>1, StepQuiet, StepDuplicate DEF Lookup
    <2>2. CASE Relookup(s)
      BY <2>2, StepDuplicate DEF Relookup, RecordInv, PlaceOf
    <2> QED BY <1>2, <2>1, <2>2, StepClaim, StepCreate DEF Entry
  <1>3. ASSUME NEW s \in Submissions, Closing(s) PROVE RegisterStep
    <2>1. s \in claims
      BY <1>3, ClaimerFrame DEF Claimer, ClaimInv, OneInvestigator
    <2> QED BY <1>3, <2>1, StepClosing
  <1> QED BY <1>1, <1>2, <1>3, StepOpening, StepCalling, StepHandling, StepEnvironment
      DEF Next, Run

\* Investigator.run and the JSON repository implement the register of one key,
\* for any number of submissions and under every fault of the model: claimed
\* once, resolved once, closed once, and nobody told what it does not hold.
THEOREM RunImplementsRegister == Spec => ImplementsRegister
  <1>1. Init => Register!RegisterInit
    <2> SUFFICES ASSUME Init PROVE Register!RegisterInit
      OBVIOUS
    <2>1. PhaseOf = "free" /\ record.result = None
      BY NoRecordFacts DEF Init, PhaseOf
    <2>2. Told = [s \in Submissions |-> [kind |-> "untold"]]
      BY ToldIsAnswer DEF Init, NoOutcome, ToldBy
    <2> QED BY <2>1, <2>2 DEF Register!RegisterInit, Register!Untold, Told
  <1>2. Inv /\ [Next]_vars => [Register!RegisterNext]_(Register!registerVars)
    BY NextStep DEF Inv, RegisterStep
  <1> QED BY <1>1, <1>2, InvHolds, PTL DEF Spec, ImplementsRegister, Register!RegisterSpec
=============================================================================
