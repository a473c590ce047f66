---------------------------- MODULE HandoffService ----------------------------
(* The operational flow around the handoff tool: an attempt is assessed by the   *)
(* governance gate, executed by the tool against its package file and recorded   *)
(* in the ledger file. Several processes share the two files and no lock; each   *)
(* reads a file whole and appends to it later, and may be stopped at any step.   *)
(* Nothing makes the attempt of a process that was stopped again: its caller may. *)
EXTENDS AuditLedger, Integers, Sequences, FiniteSets

CONSTANTS Workers,     \* processes that execute attempts
          Keys, Works, \* idempotency keys; what a package is about
          NoPackage,
          Requests,    \* what callers ask for
          Settings     \* which processes run, how often they are asked for what, how many
                       \* attempts are stopped between two steps, how many in a line

ASSUME HandoffAssumption ==
  /\ IsFiniteSet(Workers) /\ NoKey \notin Keys /\ NoPackage \notin Works
  /\ \A s \in Settings : /\ s.workers \subseteq Workers /\ s.times \in [Requests -> Nat]
                         /\ s.stops \in Nat /\ s.tears \in Nat
  /\ \A q \in Requests : /\ q.key \in Keys \union {NoKey} /\ q.ledgerKey \in Keys \union {NoKey}
                         /\ q.stable \in Keys /\ q.work \in Works /\ q.splits \in BOOLEAN

VARIABLES setting,
          packages,    \* handoff_packages.jsonl
          ledger,      \* operational_ledger.jsonl
          attempt,     \* the attempt of each process and the step it is at
          todo,        \* attempts the callers may still make
          stops, tears,
          replies      \* the results the callers have been given

vars == <<setting, packages, ledger, attempt, todo, stops, tears, replies>>

-----------------------------------------------------------------------------
\* The two files hold one JSON text to a line, and lines that do not parse are passed
\* over when a file is read. A line knows whether its text is whole, whether its bytes
\* are UTF-8, and whether its newline was written.
Line(text) == [text |-> text, whole |-> TRUE, decodes |-> TRUE, ended |-> TRUE]

\* What a writer leaves that is stopped inside the text, inside one of the characters
\* that take several bytes (json.dumps leaves them as they are), or before the newline.
Places == {"text", "character", "newline"}

Cut(text, place) ==
  [text |-> text, whole |-> place = "newline", decodes |-> place # "character", ended |-> FALSE]

\* Mutant: the file is opened for writing, not for appending.
Overwrite(file, line) == <<line>>

\* append and persist: the text goes where the file ends, in the middle of a line
\* when the last writer was stopped there. Nothing that follows completes a character.
AppendLine(file, line) ==
  IF file # <<>> /\ ~file[Len(file)].ended
  THEN [file EXCEPT ![Len(file)] =
          [line EXCEPT !.whole = FALSE, !.decodes = line.decodes /\ file[Len(file)].decodes]]
  ELSE Append(file, line)

\* records: the file is decoded as a whole, before and outside of what passes a line over.
Decodes(file) == \A i \in 1..Len(file) : file[i].decodes

\* records: a line parses when one writer wrote it whole, and when its text holds
\* no character, such as U+2028, that json.dumps leaves alone and splitlines splits.
Parses(line) == line.whole /\ ~line.text.splits

Matches(file, k) == {i \in 1..Len(file) : Parses(file[i]) /\ file[i].text.key = k}

\* Mutant: the file is searched from its end.
LastFor(file, k) == CHOOSE i \in Matches(file, k) : \A j \in Matches(file, k) : j <= i

\* find_by_idempotency_key: the first record of the file with that key.
FirstFor(file, k) == CHOOSE i \in Matches(file, k) : \A j \in Matches(file, k) : i <= j
-----------------------------------------------------------------------------
FailureModes == {"timeout", "tool_down", "invalid_receipt", "other"}

\* _build_evidence: the key of the payload, else the ledger's, else a hash of the work.
EffectiveKey(q) ==
  IF q.key # NoKey THEN q.key ELSE IF q.ledgerKey # NoKey THEN q.ledgerKey ELSE q.stable

Assessed == [q \in Requests |-> Assessment(q.operation, q.evidence, q.granted, q.platform)]

\* What the ledger is told of a request, its file read at that moment.
ContextOf(q, file) ==
  [Context(q.key, q.granted) EXCEPT
     !.previous = {file[i].text : i \in {j \in 1..Len(file) : Parses(file[j])}}]

\* The package that answers a key, if the file has one.
PackageFor(file, k) ==
  IF Matches(file, k) = {} THEN NoPackage ELSE file[FirstFor(file, k)].text.work

Tool == "handoff_package"

NoAttempt == [step |-> "idle"]

Stopped == [step |-> "stopped"]

Init ==
  /\ setting \in Settings
  /\ packages = <<>> /\ ledger = <<>>
  /\ attempt = [w \in Workers |-> NoAttempt]
  /\ todo = setting.times
  /\ stops = 0 /\ tears = 0
  /\ replies = {}

At(w, step) == attempt[w].step = step

Free(w) == At(w, "idle") \/ At(w, "stopped")

Go(w, a) == attempt' = [attempt EXCEPT ![w] = a]

-----------------------------------------------------------------------------
\* Governance and the projection of the ledger record; a blocked attempt goes on
\* to be recorded with a result of its own.
Begin(w, q) ==
  /\ Free(w) /\ w \in setting.workers /\ todo[q] > 0
  /\ Decodes(ledger)
  /\ todo' = [todo EXCEPT ![q] = todo[q] - 1]
  /\ LET allowed == Assessed[q].allowed
     IN  Go(w, [step |-> IF allowed THEN "tool" ELSE "record", request |-> q,
                status |-> IF allowed THEN "none" ELSE "blocked_by_governance",
                work |-> NoPackage, projected |-> Projected(Assessed[q], ContextOf(q, ledger))])
  /\ UNCHANGED <<setting, packages, ledger, stops, tears, replies>>

\* The ledger cannot be decoded: the caller is given the error of records.
BeginRaises(w, q) ==
  /\ Free(w) /\ w \in setting.workers /\ todo[q] > 0
  /\ ~Decodes(ledger)
  /\ todo' = [todo EXCEPT ![q] = todo[q] - 1]
  /\ Go(w, NoAttempt)
  /\ UNCHANGED <<setting, packages, ledger, stops, tears, replies>>

\* execute fails before it looks at the store.
Fail(w, mode) ==
  /\ At(w, "tool")
  /\ mode \in attempt[w].request.failures
  /\ Go(w, [attempt[w] EXCEPT !.step = "record",
                              !.status = IF mode = "other" THEN "tool_error" ELSE mode])
  /\ UNCHANGED <<setting, packages, ledger, todo, stops, tears, replies>>

\* find_by_idempotency_key: a package of that key is the result, whatever it is about.
Find(w) ==
  LET found == PackageFor(packages, EffectiveKey(attempt[w].request))
  IN  /\ At(w, "tool") /\ Decodes(packages)
      /\ Go(w, IF found = NoPackage THEN [attempt[w] EXCEPT !.step = "append"]
               ELSE [attempt[w] EXCEPT !.step = "record", !.work = found,
                                       !.status = "duplicate_replayed"])
      /\ UNCHANGED <<setting, packages, ledger, todo, stops, tears, replies>>

\* The package file cannot be decoded: nobody catches the error of records, and the
\* attempt ends without a package, a record or a reply.
FindRaises(w) ==
  /\ At(w, "tool") /\ ~Decodes(packages)
  /\ Go(w, NoAttempt)
  /\ UNCHANGED <<setting, packages, ledger, todo, stops, tears, replies>>

\* Mutant: the record has the key made of the work, also when the caller gave one.
PackageTextStable(q) == [key |-> q.stable, work |-> q.work, splits |-> q.splits]

PackageText(q) == [key |-> EffectiveKey(q), work |-> q.work, splits |-> q.splits]

\* Else the package is appended, without looking again.
StorePackage(w) ==
  LET q == attempt[w].request
  IN  /\ At(w, "append")
      /\ packages' = AppendLine(packages, Line(PackageText(q)))
      /\ Go(w, [attempt[w] EXCEPT !.step = "record", !.status = "created", !.work = q.work])
      /\ UNCHANGED <<setting, ledger, todo, stops, tears, replies>>

\* The result of the attempt: every receipt of the tool can be replayed and reversed and
\* has the key; the result of a refusal has neither.
Result(a) ==
  LET ran == a.status # "blocked_by_governance"
  IN  [status |-> a.status, tool |-> Tool, requested |-> ran, replayable |-> ran,
       reversible |-> ran, key |-> IF ran THEN EffectiveKey(a.request) ELSE NoKey]

\* What is read again of the record.
LedgerText(a) ==
  LET r == Finalized(a.projected, Result(a))
  IN  [key |-> r.key, operation |-> r.operation, tool |-> r.tool, state |-> r.state,
       safe |-> r.safe, complete |-> r.complete, splits |-> a.request.splits]

\* Mutant: a replayed package is taken to be recorded already.
RecordCreated(w) ==
  /\ At(w, "record")
  /\ ledger' = IF attempt[w].status = "duplicate_replayed" THEN ledger
               ELSE AppendLine(ledger, Line(LedgerText(attempt[w])))
  /\ replies' = replies \union {[request |-> attempt[w].request, status |-> attempt[w].status,
                                 work |-> attempt[w].work]}
  /\ Go(w, NoAttempt)
  /\ UNCHANGED <<setting, packages, todo, stops, tears>>

\* persist, and the reply to the caller.
Record(w) ==
  /\ At(w, "record")
  /\ ledger' = AppendLine(ledger, Line(LedgerText(attempt[w])))
  /\ replies' = replies \union {[request |-> attempt[w].request, status |-> attempt[w].status,
                                 work |-> attempt[w].work]}
  /\ Go(w, NoAttempt)
  /\ UNCHANGED <<setting, packages, todo, stops, tears>>

-----------------------------------------------------------------------------
\* A process is stopped between two steps.
Stop(w) ==
  /\ ~Free(w) /\ stops < setting.stops
  /\ stops' = stops + 1
  /\ Go(w, Stopped)
  /\ UNCHANGED <<setting, packages, ledger, todo, tears, replies>>

\* It is stopped while it appends.
StopInLine(w, place) ==
  /\ tears < setting.tears
  /\ tears' = tears + 1
  /\ \/ /\ At(w, "append")
        /\ packages' = AppendLine(packages, Cut(PackageText(attempt[w].request), place))
        /\ UNCHANGED ledger
     \/ /\ At(w, "record")
        /\ ledger' = AppendLine(ledger, Cut(LedgerText(attempt[w]), place))
        /\ UNCHANGED packages
  /\ Go(w, Stopped)
  /\ UNCHANGED <<setting, todo, stops, replies>>

\* The steps of an attempt that was begun.
Work(w) == Find(w) \/ FindRaises(w) \/ StorePackage(w) \/ Record(w)

Next ==
  \E w \in Workers :
    \/ \E q \in Requests : Begin(w, q) \/ BeginRaises(w, q)
    \/ \E mode \in FailureModes : Fail(w, mode)
    \/ Find(w)
    \/ FindRaises(w)
    \/ StorePackage(w)
    \/ Record(w)
    \/ Stop(w)
    \/ \E place \in Places : StopInLine(w, place)

\* A process that has begun an attempt, and is not stopped, goes on with it. Nothing
\* makes a caller begin one.
Spec == Init /\ [][Next]_vars /\ \A w \in Workers : WF_vars(Work(w))

-----------------------------------------------------------------------------
WrittenFor(k) == {i \in 1..Len(packages) : packages[i].whole /\ packages[i].text.key = k}

\* ACA-017, idempotency: a second execution with the same key creates no other
\* package, also when the first was stopped anywhere before its reply.
OnePackagePerKey == \A k \in Keys : Cardinality(WrittenFor(k)) <= 1

\* records() finds the lines again that are written for a key.
Readable(k) == \A q \in Requests : EffectiveKey(q) = k => ~q.splits

\* Processes that look before any of them has written write once each, and no more
\* than once: whoever looks afterwards finds a package. One process writes one.
RacesBounded ==
  \A k \in Keys : Readable(k) => Cardinality(WrittenFor(k)) <= Cardinality(setting.workers)

Alone == Cardinality(setting.workers) = 1

\* A reply that names a package names the one that answers the key from then on:
\* each of them when one process works alone, and of a race at least those that
\* came second. (A torn line may swallow the package of a reply, and one that splits
\* is not found again.)
AnswersStand ==
  setting.tears = 0 =>
    \A r \in replies :
      (\/ r.status = "duplicate_replayed"
       \/ r.status = "created" /\ Alone /\ ~r.request.splits) =>
        PackageFor(packages, EffectiveKey(r.request)) = r.work

\* The lines of a file that nobody can write into any more.
Ended(file) ==
  IF file # <<>> /\ ~file[Len(file)].ended THEN SubSeq(file, 1, Len(file) - 1) ELSE file

\* The package that answers each key, while there is an answer to be had.
Answering ==
  [k \in Keys |-> IF Decodes(packages) THEN PackageFor(Ended(packages), k) ELSE NoPackage]

Packages == INSTANCE HandoffPackages WITH package <- Answering, lost <- ~Decodes(packages)

\* The store keeps to the promise of the tool, whoever stops where: the first package
\* whose line was ended answers its key for good, and no other ever does. A stop within
\* a character of several bytes makes the file unreadable, and then no key is answered.
StoreKeepsAnswers == Packages!Spec

Dependable(k) == \A q \in Requests : EffectiveKey(q) = k => q.failures = {}

\* The ledger has a complete record of the key that can be replayed, and that tells of the
\* package unless the tool may have failed.
Audited(k) ==
  \E i \in Matches(ledger, k) :
    LET r == ledger[i].text
    IN  /\ r.complete /\ r.safe
        /\ Dependable(k) => r.state \in {"executed", "duplicate_replayed"}

\* An attempt that was let through, for a key that has a package.
AtPackage(w, k) ==
  /\ ~Free(w) /\ attempt[w].status # "blocked_by_governance"
  /\ EffectiveKey(attempt[w].request) = k
  /\ PackageFor(packages, k) # NoPackage

\* The effect is written before its record, and a stop between them leaves a package
\* without one. The next attempt of its key that is not stopped itself makes up for it,
\* whatever the earlier ones left, and whoever else is at work on the key.
EveryPackageAudited ==
  \A w \in Workers, k \in Keys :
    setting.tears = 0 /\ AtPackage(w, k) ~> Audited(k) \/ At(w, "stopped")

=============================================================================
