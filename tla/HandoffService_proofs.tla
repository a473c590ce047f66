------------------------ MODULE HandoffService_proofs ------------------------
(* The package file implements HandoffPackages, for any processes, keys and      *)
(* requests, and however many attempts are stopped between two steps or in the   *)
(* middle of a line. Races leave a bounded number of packages, and answers that  *)
(* were given stand.                                                             *)
EXTENDS HandoffService, SequenceTheorems, FiniteSetTheorems, WellFoundedInduction, TLAPS

\* The lines of the package file.
PackageLine ==
  [text : [key : Keys, work : Works, splits : BOOLEAN], whole : BOOLEAN, decodes : BOOLEAN,
   ended : BOOLEAN]

\* An attempt that has still to write knows what it was asked.
KnowsItsRequest(w) ==
  At(w, "tool") \/ At(w, "append") =>
    {"step", "request"} \subseteq DOMAIN attempt[w] /\ attempt[w].request \in Requests

\* The inductive invariant: what a process will write is a line of the file.
StoreInv ==
  /\ packages \in Seq(PackageLine)
  /\ DOMAIN attempt = Workers
  /\ attempt = [w \in Workers |-> attempt[w]]
  /\ \A w \in Workers : KnowsItsRequest(w)

-----------------------------------------------------------------------------
\* Of the packages of a key one is first.
LEMMA FirstExists ==
  ASSUME NEW file \in Seq(PackageLine), NEW k \in Keys, Matches(file, k) # {}
  PROVE  /\ FirstFor(file, k) \in Matches(file, k)
         /\ \A j \in Matches(file, k) : FirstFor(file, k) <= j
<1>1. Matches(file, k) \subseteq Nat
  BY DEF Matches
<1>2. PICK i \in Matches(file, k) : \A j \in Matches(file, k) : ~ (<<j, i>> \in OpToRel(<, Nat))
  BY <1>1, NatLessThanWellFounded, WFMin
<1>3. \A j \in Matches(file, k) : ~ (j < i)
  BY <1>1, <1>2 DEF OpToRel
<1>4. ASSUME NEW j \in Matches(file, k)
      PROVE  i <= j
  <2>1. i \in Nat /\ j \in Nat
    BY <1>1, <1>2
  <2> QED BY <1>3, <2>1
<1> QED BY <1>2, <1>4 DEF FirstFor

\* A line at the end of a file answers its key if nothing did before.
LEMMA AppendAnswers ==
  ASSUME NEW file \in Seq(PackageLine), NEW line \in PackageLine, NEW k \in Keys
  PROVE  PackageFor(Append(file, line), k) =
           IF PackageFor(file, k) = NoPackage /\ Parses(line) /\ line.text.key = k
           THEN line.text.work ELSE PackageFor(file, k)
<1> DEFINE longer == Append(file, line)
           last == Len(file) + 1
           new == Parses(line) /\ line.text.key = k
<1>1. /\ longer \in Seq(PackageLine) /\ Len(longer) = last /\ longer[last] = line
      /\ \A i \in 1..Len(file) : longer[i] = file[i]
  OBVIOUS
<1> HIDE DEF longer
<1>2. Matches(longer, k) = Matches(file, k) \union (IF new THEN {last} ELSE {})
  <2>1. \A i \in 1..Len(file) : Parses(longer[i]) /\ longer[i].text.key = k
                                  <=> Parses(file[i]) /\ file[i].text.key = k
    BY <1>1
  <2>2. Parses(longer[last]) /\ longer[last].text.key = k <=> new
    BY <1>1
  <2>3. 1..last = 1..Len(file) \union {last} /\ last \notin 1..Len(file)
    OBVIOUS
  <2> QED BY <1>1, <2>1, <2>2, <2>3 DEF Matches
<1>3. CASE Matches(file, k) = {}
  <2>1. PackageFor(file, k) = NoPackage
    BY <1>3 DEF PackageFor
  <2>2. CASE new
    <3>1. Matches(longer, k) = {last}
      BY <1>2, <1>3, <2>2
    <3>2. FirstFor(longer, k) = last
      BY <1>1, <3>1, FirstExists
    <3>3. PackageFor(longer, k) = line.text.work
      BY <1>1, <3>1, <3>2 DEF PackageFor
    <3> QED BY <2>1, <2>2, <3>3 DEF longer
  <2>3. CASE ~new
    BY <1>2, <1>3, <2>1, <2>3 DEF PackageFor, longer
  <2> QED BY <2>2, <2>3
<1>4. CASE Matches(file, k) # {}
  <2> DEFINE first == FirstFor(file, k)
  <2>1. first \in Matches(file, k) /\ \A j \in Matches(file, k) : first <= j
    BY <1>4, FirstExists
  <2>2. first \in 1..Len(file)
    BY <2>1 DEF Matches
  <2>3. Matches(longer, k) # {} /\ first \in Matches(longer, k)
    BY <1>2, <2>1
  <2>4. \A j \in Matches(longer, k) : first <= j
    BY <1>2, <2>1, <2>2
  <2>5. /\ FirstFor(longer, k) \in Matches(longer, k)
        /\ \A j \in Matches(longer, k) : FirstFor(longer, k) <= j
    BY <1>1, <2>3, FirstExists
  <2>6. Matches(longer, k) \subseteq Nat
    BY DEF Matches
  <2> HIDE DEF first
  <2>7. FirstFor(longer, k) = first
    BY <2>3, <2>4, <2>5, <2>6
  <2>8. PackageFor(longer, k) = file[first].text.work /\ PackageFor(file, k) = file[first].text.work
    BY <1>1, <1>4, <2>2, <2>3, <2>7 DEF PackageFor, first
  <2>9. file[first] \in PackageLine
    BY <2>2
  <2>11. file[first].text.work \in Works
    BY <2>9 DEF PackageLine
  <2>10. PackageFor(file, k) # NoPackage
    BY <2>8, <2>11, HandoffAssumption
  <2> QED BY <2>8, <2>10 DEF longer
<1> QED BY <1>3, <1>4

\* Of what can no longer be written into, an append adds one line or nothing.
LEMMA AppendEnds ==
  ASSUME NEW file \in Seq(PackageLine), NEW line \in PackageLine
  PROVE  /\ AppendLine(file, line) \in Seq(PackageLine)
         /\ Ended(file) \in Seq(PackageLine)
         /\ \/ Ended(AppendLine(file, line)) = Ended(file)
            \/ \E l \in PackageLine : Ended(AppendLine(file, line)) = Append(Ended(file), l)
<1> DEFINE n == Len(file)
           longer == AppendLine(file, line)
<1>1. CASE file = <<>> \/ file[n].ended
  <2>1. longer = Append(file, line) /\ Ended(file) = file
    BY <1>1 DEF AppendLine, Ended
  <2>2. /\ longer \in Seq(PackageLine) /\ Len(longer) = n + 1 /\ longer # <<>>
        /\ longer[Len(longer)] = line /\ SubSeq(longer, 1, n) = file
    BY <2>1
  <2> HIDE DEF longer
  <2>3. CASE line.ended
    BY <2>1, <2>2, <2>3 DEF Ended, longer
  <2>4. CASE ~line.ended
    <3>1. Ended(longer) = SubSeq(longer, 1, Len(longer) - 1)
      BY <2>2, <2>4 DEF Ended
    <3>2. Len(longer) - 1 = n
      BY <2>2
    <3> QED BY <2>1, <2>2, <3>1, <3>2 DEF longer
  <2> QED BY <2>3, <2>4
<1>2. CASE file # <<>> /\ ~file[n].ended
  <2> DEFINE torn == [line EXCEPT !.whole = FALSE, !.decodes = line.decodes /\ file[n].decodes]
             before == SubSeq(file, 1, n - 1)
  <2>1. longer = [file EXCEPT ![n] = torn] /\ Ended(file) = before
    BY <1>2 DEF AppendLine, Ended
  <2>2. torn \in PackageLine /\ torn.ended = line.ended
    BY DEF PackageLine
  <2>3. n \in Nat /\ n >= 1
    BY <1>2
  <2>9. before \in Seq(PackageLine) /\ Len(before) = n - 1 /\ \A i \in 1..n - 1 : before[i] = file[i]
    <3>1. n - 1 \in Int /\ 1 \in Int /\ \A i \in 1..n - 1 : file[i] \in PackageLine
      BY <2>3
    <3>2. /\ before \in Seq(PackageLine)
          /\ Len(before) = (IF 1 <= n - 1 THEN n - 1 - 1 + 1 ELSE 0)
          /\ \A i \in 1..n - 1 - 1 + 1 : before[i] = file[1 + i - 1]
      BY <3>1, SubSeqProperties
    <3> HIDE DEF n
    <3>3. n - 1 - 1 + 1 = n - 1 /\ (1 <= n - 1 \/ n - 1 = 0)
      BY <2>3
    <3>4. \A i \in 1..n - 1 : 1 + i - 1 = i
      OBVIOUS
    <3> QED BY <3>2, <3>3, <3>4
  <2> HIDE DEF torn
  <2>4. /\ longer \in Seq(PackageLine) /\ Len(longer) = n /\ longer # <<>>
        /\ longer[n] = torn /\ \A i \in 1..n - 1 : longer[i] = file[i]
    BY <2>1, <2>2, <2>3
  <2> HIDE DEF longer
  <2>5. SubSeq(longer, 1, n - 1) = before
    BY <2>3, <2>4, <2>9
  <2>6. longer = Append(before, torn)
    BY <2>2, <2>3, <2>4, <2>9
  <2>7. CASE line.ended
    BY <2>1, <2>2, <2>3, <2>4, <2>6, <2>7, <2>9 DEF Ended, longer
  <2>8. CASE ~line.ended
    BY <2>1, <2>2, <2>3, <2>4, <2>5, <2>8, <2>9 DEF Ended, longer
  <2> QED BY <2>7, <2>8
<1> QED BY <1>1, <1>2

\* A file can be decoded after an append if it could before and the line can.
LEMMA AppendDecodes ==
  ASSUME NEW file \in Seq(PackageLine), NEW line \in PackageLine
  PROVE  Decodes(AppendLine(file, line)) <=> Decodes(file) /\ line.decodes
<1> DEFINE n == Len(file)
<1>1. CASE file = <<>> \/ file[n].ended
  <2> DEFINE longer == Append(file, line)
  <2>1. /\ Len(longer) = n + 1 /\ longer[n + 1] = line /\ \A i \in 1..n : longer[i] = file[i]
        /\ 1..(n + 1) = 1..n \union {n + 1}
    OBVIOUS
  <2>2. AppendLine(file, line) = longer
    BY <1>1 DEF AppendLine
  <2> HIDE DEF longer
  <2> QED BY <2>1, <2>2 DEF Decodes
<1>2. CASE file # <<>> /\ ~file[n].ended
  <2> DEFINE torn == [line EXCEPT !.whole = FALSE, !.decodes = line.decodes /\ file[n].decodes]
             longer == [file EXCEPT ![n] = torn]
  <2>1. AppendLine(file, line) = longer
    BY <1>2 DEF AppendLine
  <2>2. n \in 1..n /\ file[n] \in PackageLine
    BY <1>2
  <2>3. torn.decodes <=> line.decodes /\ file[n].decodes
    BY <2>2 DEF PackageLine
  <2> HIDE DEF torn
  <2>4. /\ Len(longer) = n /\ longer[n] = torn
        /\ \A i \in 1..n : i # n => longer[i] = file[i]
    BY <2>2
  <2> HIDE DEF longer
  <2> QED BY <2>1, <2>2, <2>3, <2>4 DEF Decodes
<1> QED BY <1>1, <1>2

-----------------------------------------------------------------------------
\* The package that answers each key if the file can be decoded.
Found == [k \in Keys |-> PackageFor(Ended(packages), k)]

\* An append lets a line be found for the key of that line, or for none.
LEMMA AppendFinds ==
  ASSUME packages \in Seq(PackageLine), NEW line \in PackageLine,
         packages' = AppendLine(packages, line)
  PROVE  \/ Found' = Found
         \/ \E k \in Keys, w \in Works : Found[k] = NoPackage /\ Found' = [Found EXCEPT ![k] = w]
<1>1. /\ packages' \in Seq(PackageLine) /\ Ended(packages) \in Seq(PackageLine)
      /\ \/ Ended(packages') = Ended(packages)
         \/ \E l \in PackageLine : Ended(packages') = Append(Ended(packages), l)
  BY AppendEnds
<1>2. CASE Ended(packages') = Ended(packages)
  BY <1>2 DEF Found
<1>3. ASSUME NEW l \in PackageLine, Ended(packages') = Append(Ended(packages), l)
      PROVE  \/ Found' = Found
             \/ \E k \in Keys, w \in Works : Found[k] = NoPackage /\ Found' = [Found EXCEPT ![k] = w]
  <2>1. \A k \in Keys :
          Found'[k] = IF Found[k] = NoPackage /\ Parses(l) /\ l.text.key = k
                      THEN l.text.work ELSE Found[k]
    BY <1>1, <1>3, AppendAnswers DEF Found
  <2>2. Found' = [k \in Keys |-> Found'[k]] /\ Found = [k \in Keys |-> Found[k]]
    BY DEF Found
  <2>3. l.text.key \in Keys /\ l.text.work \in Works
    BY DEF PackageLine
  <2>4. CASE Found[l.text.key] = NoPackage /\ Parses(l)
    <3>1. Found' = [Found EXCEPT ![l.text.key] = l.text.work]
      BY <2>1, <2>2, <2>3, <2>4
    <3> QED BY <2>3, <2>4, <3>1
  <2>5. CASE ~(Found[l.text.key] = NoPackage /\ Parses(l))
    <3>1. \A k \in Keys : Found'[k] = Found[k]
      BY <2>1, <2>5
    <3> QED BY <2>2, <3>1
  <2> QED BY <2>4, <2>5
<1> QED BY <1>1, <1>2, <1>3

\* What answers each key changes as HandoffPackages says, if at all: a file that can be
\* decoded before and after finds a line more or none, one that cannot any more has lost
\* its packages, and one that could not be decoded stays so.
LEMMA AppendStores ==
  ASSUME packages \in Seq(PackageLine), NEW line \in PackageLine,
         packages' = AppendLine(packages, line)
  PROVE  packages' \in Seq(PackageLine) /\ [Packages!Next]_(Packages!vars)
<1>1. packages' \in Seq(PackageLine)
  BY AppendEnds
<1>2. Decodes(packages') <=> Decodes(packages) /\ line.decodes
  BY AppendDecodes
<1> DEFINE Nothing == [k \in Keys |-> NoPackage]
           lost == ~Decodes(packages)
<1>3. CASE Decodes(packages) /\ line.decodes
  <2>1. Answering = Found /\ Answering' = Found' /\ ~lost /\ lost' = lost
    BY <1>2, <1>3 DEF Answering, Found
  <2>2. CASE Found' = Found
    BY <1>1, <2>1, <2>2 DEF Packages!vars
  <2>3. CASE \E k \in Keys, w \in Works : Found[k] = NoPackage /\ Found' = [Found EXCEPT ![k] = w]
    BY <1>1, <2>1, <2>3 DEF Packages!Next, Packages!Store
  <2> QED BY <2>2, <2>3, AppendFinds
<1>4. CASE Decodes(packages) /\ ~line.decodes
  <2>1. ~lost /\ lost' = TRUE /\ Answering' = Nothing
    BY <1>2, <1>4 DEF Answering
  <2> QED BY <1>1, <2>1 DEF Packages!Next, Packages!Lose
<1>5. CASE ~Decodes(packages)
  <2>1. lost' = lost /\ Answering' = Nothing /\ Answering = Nothing
    BY <1>2, <1>5 DEF Answering
  <2> QED BY <1>1, <2>1 DEF Packages!vars
<1> QED BY <1>1, <1>3, <1>4, <1>5

\* A request becomes a line of the file, whole or cut.
LEMMA RequestLines ==
  ASSUME NEW q \in Requests
  PROVE  /\ Line(PackageText(q)) \in PackageLine
         /\ \A place \in Places : Cut(PackageText(q), place) \in PackageLine
<1>1. q.work \in Works /\ q.splits \in BOOLEAN /\ EffectiveKey(q) \in Keys
  BY HandoffAssumption DEF EffectiveKey
<1> QED BY <1>1 DEF PackageText, Line, Cut, PackageLine

\* An empty file holds no package.
LEMMA InitStore == Init => StoreInv /\ Packages!Init
<1> SUFFICES ASSUME Init PROVE StoreInv /\ Packages!Init
  OBVIOUS
<1>1. StoreInv
  BY DEF Init, StoreInv, KnowsItsRequest, At, NoAttempt
<1>2. packages = <<>> /\ Ended(packages) = <<>>
  BY DEF Init, Ended
<1>3. \A k \in Keys : Matches(<<>>, k) = {}
  BY DEF Matches
<1>4. Decodes(packages)
  BY <1>2 DEF Decodes
<1> QED BY <1>1, <1>2, <1>3, <1>4 DEF Packages!Init, Answering, PackageFor

\* A step of one process leaves what the others know.
LEMMA OthersKnow ==
  ASSUME StoreInv, NEW w \in Workers, NEW a, Go(w, a),
         a.step \in {"tool", "append"} =>
           {"step", "request"} \subseteq DOMAIN a /\ a.request \in Requests
  PROVE  /\ DOMAIN attempt' = Workers
         /\ attempt' = [v \in Workers |-> attempt'[v]]
         /\ \A v \in Workers : KnowsItsRequest(v)'
<1>1. attempt'[w] = a /\ \A v \in Workers : v # w => attempt'[v] = attempt[v]
  BY DEF StoreInv, Go
<1>2. DOMAIN attempt' = Workers /\ attempt' = [v \in Workers |-> attempt'[v]]
  BY DEF StoreInv, Go
<1>3. KnowsItsRequest(w)'
  BY <1>1 DEF KnowsItsRequest, At
<1>4. ASSUME NEW v \in Workers, v # w
      PROVE  KnowsItsRequest(v)'
  BY <1>1, <1>4 DEF StoreInv, KnowsItsRequest, At
<1> QED BY <1>2, <1>3, <1>4

\* Every step keeps the invariant and is one of HandoffPackages, or none of its concern.
LEMMA NextStores == StoreInv /\ [Next]_vars => StoreInv' /\ [Packages!Next]_(Packages!vars)
<1> SUFFICES ASSUME StoreInv, [Next]_vars
             PROVE  StoreInv' /\ [Packages!Next]_(Packages!vars)
  OBVIOUS
<1>0. UNCHANGED packages => packages' \in Seq(PackageLine) /\ UNCHANGED Packages!vars
  BY DEF StoreInv, Answering, Packages!vars
<1>1. ASSUME NEW w \in Workers, NEW q \in Requests, Begin(w, q)
      PROVE  StoreInv' /\ [Packages!Next]_(Packages!vars)
  <2>1. PICK a : /\ Go(w, a) /\ UNCHANGED packages
                 /\ {"step", "request"} \subseteq DOMAIN a /\ a.request = q
    BY <1>1 DEF Begin
  <2> QED BY <1>0, <2>1, OthersKnow DEF StoreInv
<1>2. ASSUME NEW w \in Workers, NEW mode \in FailureModes, Fail(w, mode)
      PROVE  StoreInv' /\ [Packages!Next]_(Packages!vars)
  <2>1. "step" \in DOMAIN attempt[w]
    BY <1>2 DEF Fail, StoreInv, KnowsItsRequest
  <2>2. PICK a : Go(w, a) /\ a.step = "record" /\ UNCHANGED packages
    BY <1>2, <2>1 DEF Fail
  <2> QED BY <1>0, <2>2, OthersKnow DEF StoreInv
<1>3. ASSUME NEW w \in Workers, Find(w)
      PROVE  StoreInv' /\ [Packages!Next]_(Packages!vars)
  <2>1. {"step", "request"} \subseteq DOMAIN attempt[w] /\ attempt[w].request \in Requests
    BY <1>3 DEF Find, StoreInv, KnowsItsRequest
  <2> DEFINE found == PackageFor(packages, EffectiveKey(attempt[w].request))
             missed == [attempt[w] EXCEPT !.step = "append"]
             hit == [attempt[w] EXCEPT !.step = "record", !.work = found, !.status = "duplicate_replayed"]
             a == IF found = NoPackage THEN missed ELSE hit
  <2>3. Go(w, a) /\ UNCHANGED packages
    BY <1>3 DEF Find
  <2>4. DOMAIN missed = DOMAIN attempt[w] /\ missed.request = attempt[w].request
    BY <2>1
  <2>5. DOMAIN hit = DOMAIN attempt[w] /\ hit.request = attempt[w].request
    BY <2>1
  <2> HIDE DEF missed, hit, found
  <2>2. {"step", "request"} \subseteq DOMAIN a /\ a.request \in Requests
    BY <2>1, <2>4, <2>5
  <2> HIDE DEF a
  <2> QED BY <1>0, <2>2, <2>3, OthersKnow DEF StoreInv
<1>4. ASSUME NEW w \in Workers, StorePackage(w)
      PROVE  StoreInv' /\ [Packages!Next]_(Packages!vars)
  <2>1. "step" \in DOMAIN attempt[w] /\ attempt[w].request \in Requests
    BY <1>4 DEF StorePackage, StoreInv, KnowsItsRequest
  <2>2. packages' = AppendLine(packages, Line(PackageText(attempt[w].request)))
    BY <1>4 DEF StorePackage
  <2>3. packages' \in Seq(PackageLine) /\ [Packages!Next]_(Packages!vars)
    BY <2>1, <2>2, RequestLines, AppendStores DEF StoreInv
  <2> DEFINE a == [attempt[w] EXCEPT !.step = "record", !.status = "created",
                                     !.work = attempt[w].request.work]
  <2>4. Go(w, a)
    BY <1>4 DEF StorePackage
  <2>5. a.step = "record"
    BY <2>1
  <2> HIDE DEF a
  <2> QED BY <2>3, <2>4, <2>5, OthersKnow DEF StoreInv
<1>8. ASSUME NEW w \in Workers, NEW q \in Requests, BeginRaises(w, q)
      PROVE  StoreInv' /\ [Packages!Next]_(Packages!vars)
  <2>1. Go(w, NoAttempt) /\ UNCHANGED packages /\ NoAttempt.step = "idle"
    BY <1>8 DEF BeginRaises, NoAttempt
  <2> QED BY <1>0, <2>1, OthersKnow DEF StoreInv
<1>5. ASSUME NEW w \in Workers, FindRaises(w) \/ Record(w) \/ Stop(w)
      PROVE  StoreInv' /\ [Packages!Next]_(Packages!vars)
  <2>1. PICK a \in {NoAttempt, Stopped} : Go(w, a) /\ UNCHANGED packages
    BY <1>5 DEF FindRaises, Record, Stop
  <2>2. a.step \in {"idle", "stopped"}
    BY DEF NoAttempt, Stopped
  <2> QED BY <1>0, <2>1, <2>2, OthersKnow DEF StoreInv
<1>6. ASSUME NEW w \in Workers, NEW place \in Places, StopInLine(w, place)
      PROVE  StoreInv' /\ [Packages!Next]_(Packages!vars)
  <2>1. Go(w, Stopped) /\ Stopped.step = "stopped"
    BY <1>6 DEF StopInLine, Stopped
  <2>2. CASE At(w, "append") /\ packages' = AppendLine(packages, Cut(PackageText(attempt[w].request), place))
    <3>1. attempt[w].request \in Requests
      BY <2>2 DEF StoreInv, KnowsItsRequest
    <3>2. packages' \in Seq(PackageLine) /\ [Packages!Next]_(Packages!vars)
      BY <2>2, <3>1, RequestLines, AppendStores DEF StoreInv
    <3> QED BY <2>1, <3>2, OthersKnow DEF StoreInv
  <2>3. CASE UNCHANGED packages
    BY <1>0, <2>1, <2>3, OthersKnow DEF StoreInv
  <2> QED BY <1>6, <2>2, <2>3 DEF StopInLine
<1>7. CASE UNCHANGED vars
  BY <1>0, <1>7 DEF vars, StoreInv, KnowsItsRequest, At
<1> QED BY <1>1, <1>2, <1>3, <1>4, <1>5, <1>6, <1>7, <1>8 DEF Next

\* The first package whose line was ended answers its key for good, however many
\* processes look, write and are stopped, and wherever.
THEOREM FileImplementsPackages == Spec => StoreKeepsAnswers
<1>1. Init => Packages!Init /\ StoreInv
  BY InitStore
<1>2. StoreInv /\ [Next]_vars => StoreInv' /\ [Packages!Next]_(Packages!vars)
  BY NextStores
<1> QED BY <1>1, <1>2, PTL DEF Spec, StoreKeepsAnswers, Packages!Spec

-----------------------------------------------------------------------------
\* The processes that have looked for a package of a key and are about to write one.
Appending(k) ==
  {w \in Workers : At(w, "append") /\ EffectiveKey(attempt[w].request) = k}

\* What is known of an attempt under way.
KnowsItsAttempt(w) ==
  ~ Free(w) => /\ {"step", "request", "status", "work"} \subseteq DOMAIN attempt[w]
                     /\ attempt[w].request \in Requests

\* The packages of a key, and those that are about to be written: together no more than
\* there are processes, as none looks for a package in vain once there is one.
RaceInv ==
  /\ StoreInv
  /\ setting \in Settings /\ tears \in Nat
  /\ \A i \in DOMAIN packages : \E q \in Requests : packages[i].text = PackageText(q)
  /\ \A w \in Workers : KnowsItsAttempt(w) /\ (Free(w) \/ w \in setting.workers)
  /\ \A k \in Keys :
       Readable(k) =>
         Cardinality(WrittenFor(k)) + Cardinality(Appending(k)) <= Cardinality(setting.workers)

\* The answer to a key that an attempt or a reply names.
Stands(request, work) ==
  /\ work # NoPackage
  /\ PackageFor(packages, EffectiveKey(request)) = work

\* Whether what it names has to be the answer.
Binding(status, request) ==
  \/ status = "duplicate_replayed"
  \/ status = "created" /\ Alone /\ ~ request.splits

\* Where no line is torn an answer found stays, and one process alone writes only where
\* there is none.
AnswerInv ==
  setting.tears = 0 =>
    /\ \A i \in DOMAIN packages : packages[i].ended
    /\ \A w \in Workers :
         /\ At(w, "record") /\ Binding(attempt[w].status, attempt[w].request) =>
              Stands(attempt[w].request, attempt[w].work)
         /\ At(w, "append") /\ Alone =>
              PackageFor(packages, EffectiveKey(attempt[w].request)) = NoPackage
    /\ \A r \in replies : Binding(r.status, r.request) =>
                            Stands(r.request, r.work) /\ r.request \in Requests

HandoffInv == RaceInv /\ AnswerInv

-----------------------------------------------------------------------------
\* The processes that run, and any of them, are finitely many, and so are the lines.
LEMMA FiniteParts ==
  ASSUME setting \in Settings, packages \in Seq(PackageLine), NEW k \in Keys
  PROVE  /\ IsFiniteSet(setting.workers) /\ Cardinality(setting.workers) \in Nat
         /\ IsFiniteSet(Appending(k)) /\ Cardinality(Appending(k)) \in Nat
         /\ IsFiniteSet(WrittenFor(k)) /\ Cardinality(WrittenFor(k)) \in Nat
<1>1. IsFiniteSet(Workers) /\ setting.workers \in SUBSET Workers
  BY HandoffAssumption
<1>2. Appending(k) \in SUBSET Workers
  BY DEF Appending
<1>3. IsFiniteSet(1..Len(packages)) /\ WrittenFor(k) \in SUBSET (1..Len(packages))
  BY FS_Interval DEF WrittenFor
<1>4. IsFiniteSet(setting.workers) /\ IsFiniteSet(Appending(k)) /\ IsFiniteSet(WrittenFor(k))
  BY <1>1, <1>2, <1>3, FS_Subset
<1> QED
  BY <1>4, FS_CardinalityType

\* An append adds at most its own line to those written for a key.
LEMMA AppendWrites ==
  ASSUME NEW file \in Seq(PackageLine), NEW line \in PackageLine
  PROVE  LET longer == AppendLine(file, line)
         IN  /\ Len(longer) \in {Len(file), Len(file) + 1}
             /\ \A i \in 1..Len(longer) :
                  \/ i \in 1..Len(file) /\ longer[i] = file[i]
                  \/ i = Len(file) + 1 /\ longer[i] = line
                  \/ i \in 1..Len(file) /\ ~ longer[i].whole /\ longer[i].text = line.text
<1> DEFINE n == Len(file)
<1>1. CASE file = <<>> \/ file[n].ended
  <2> DEFINE longer == Append(file, line)
  <2>1. AppendLine(file, line) = longer
    BY <1>1 DEF AppendLine
  <2>2. /\ Len(longer) = n + 1 /\ longer[n + 1] = line /\ \A i \in 1..n : longer[i] = file[i]
    OBVIOUS
  <2>3. 1..(n + 1) = 1..n \union {n + 1}
    OBVIOUS
  <2> HIDE DEF longer, n
  <2> QED
    BY <2>1, <2>2, <2>3 DEF n
<1>2. CASE file # <<>> /\ ~ file[n].ended
  <2> DEFINE torn == [line EXCEPT !.whole = FALSE, !.decodes = line.decodes /\ file[n].decodes]
             longer == [file EXCEPT ![n] = torn]
  <2>1. AppendLine(file, line) = longer
    BY <1>2 DEF AppendLine
  <2>2. torn \in PackageLine /\ ~ torn.whole /\ torn.text = line.text
    BY DEF PackageLine
  <2>3. n \in Nat /\ n >= 1
    BY <1>2
  <2> HIDE DEF torn
  <2>4. /\ Len(longer) = n /\ longer[n] = torn
        /\ \A i \in 1..n : i # n => longer[i] = file[i]
    BY <2>2, <2>3
  <2> HIDE DEF longer, n
  <2> QED
    BY <2>1, <2>2, <2>3, <2>4 DEF n
<1> QED
  BY <1>1, <1>2

\* Where the lines of a key can be read, one that is written answers it.
LEMMA WrittenIsFound ==
  ASSUME RaceInv, NEW k \in Keys, Readable(k), Matches(packages, k) = {}
  PROVE  WrittenFor(k) = {}
<1> SUFFICES ASSUME NEW i \in WrittenFor(k) PROVE FALSE
  OBVIOUS
<1>1. i \in 1..Len(packages) /\ packages[i].whole /\ packages[i].text.key = k
  BY DEF WrittenFor
<1>2. PICK q \in Requests : packages[i].text = PackageText(q)
  BY <1>1 DEF RaceInv, StoreInv
<1>3. ~ packages[i].text.splits
  BY <1>1, <1>2 DEF PackageText, Readable
<1> QED
  BY <1>1, <1>3 DEF Matches, Parses

\* A step that leaves the package file lets only those prepare to write who found no
\* package.
LEMMA QuietRace ==
  ASSUME RaceInv, StoreInv', NEW w \in setting.workers, NEW a, Go(w, a),
         UNCHANGED <<setting, packages>>, tears' \in Nat,
         a.step \notin {"idle", "stopped"} => /\ {"step", "request", "status", "work"} \subseteq DOMAIN a
                            /\ a.request \in Requests,
         a.step = "append" => Matches(packages, EffectiveKey(a.request)) = {}
  PROVE  RaceInv'
<1>1. /\ w \in Workers /\ attempt'[w] = a
      /\ \A v \in Workers : v # w => attempt'[v] = attempt[v]
  BY HandoffAssumption DEF Go, RaceInv, StoreInv
<1>2. \A v \in Workers : (KnowsItsAttempt(v) /\ (Free(v) \/ v \in setting.workers))'
  BY <1>1 DEF RaceInv, KnowsItsAttempt, At, Free
<1>3. ASSUME NEW k \in Keys, Readable(k)
      PROVE  Cardinality(WrittenFor(k)') + Cardinality(Appending(k)')
               <= Cardinality(setting.workers)
  <2>1. WrittenFor(k)' = WrittenFor(k)
    BY DEF WrittenFor
  <2>2. /\ setting \in Settings /\ packages \in Seq(PackageLine)
        /\ Cardinality(WrittenFor(k)) + Cardinality(Appending(k)) <= Cardinality(setting.workers)
    BY <1>3 DEF RaceInv, StoreInv
  <2>3. CASE WrittenFor(k) = {}
    <3>1. Appending(k)' \in SUBSET setting.workers
      BY <1>2 DEF Appending, At, Free
    <3>2. Cardinality(Appending(k)') <= Cardinality(setting.workers)
      BY <2>2, <3>1, FiniteParts, FS_Subset
    <3>3. Cardinality(Appending(k)') \in Nat
      BY <2>2, <3>1, FiniteParts, FS_Subset, FS_CardinalityType
    <3>4. Cardinality(WrittenFor(k)') = 0
      BY <2>1, <2>3, FS_EmptySet
    <3>5. Cardinality(setting.workers) \in Nat
      BY <2>2, FiniteParts
    <3> QED
      BY <3>2, <3>3, <3>4, <3>5
  <2>4. CASE WrittenFor(k) # {}
    <3>1. ~ (a.step = "append" /\ EffectiveKey(a.request) = k)
      BY <1>3, <2>4, WrittenIsFound
    <3>2. Appending(k)' \in SUBSET Appending(k)
      BY <1>1, <3>1 DEF Appending, At
    <3>3. /\ Cardinality(Appending(k)') <= Cardinality(Appending(k))
          /\ Cardinality(Appending(k)') \in Nat
      BY <2>2, <3>2, FiniteParts, FS_Subset, FS_CardinalityType
    <3>4. /\ Cardinality(Appending(k)) \in Nat /\ Cardinality(WrittenFor(k)) \in Nat
          /\ Cardinality(setting.workers) \in Nat
      BY <2>2, FiniteParts
    <3> QED
      BY <2>1, <2>2, <3>3, <3>4
  <2> QED
    BY <2>3, <2>4
<1> QED
  BY <1>2, <1>3 DEF RaceInv, Readable

\* A writer is done with its line when it has written it.
LEMMA WritingRace ==
  ASSUME RaceInv, StoreInv', NEW w \in setting.workers, NEW a, Go(w, a), At(w, "append"),
         UNCHANGED setting, tears' \in Nat,
         a.step \notin {"idle", "stopped"} => /\ {"step", "request", "status", "work"} \subseteq DOMAIN a
                            /\ a.request \in Requests,
         a.step # "append",
         NEW line \in PackageLine, line.text = PackageText(attempt[w].request),
         packages' = AppendLine(packages, line)
  PROVE  RaceInv'
<1>1. /\ w \in Workers /\ attempt'[w] = a
      /\ \A v \in Workers : v # w => attempt'[v] = attempt[v]
  BY HandoffAssumption DEF Go, RaceInv, StoreInv
<1>2. \A v \in Workers : (KnowsItsAttempt(v) /\ (Free(v) \/ v \in setting.workers))'
  BY <1>1 DEF RaceInv, KnowsItsAttempt, At, Free
<1> DEFINE own == EffectiveKey(attempt[w].request)
           last == Len(packages) + 1
<1>3. /\ setting \in Settings /\ packages \in Seq(PackageLine) /\ packages' \in Seq(PackageLine)
      /\ attempt[w].request \in Requests /\ line.text.key = own
  BY <1>1 DEF RaceInv, StoreInv, KnowsItsAttempt, At, Free, PackageText
<1>4. \A i \in 1..Len(packages') :
        \/ i \in 1..Len(packages) /\ packages'[i] = packages[i]
        \/ i = last /\ packages'[i] = line
        \/ i \in 1..Len(packages) /\ ~ packages'[i].whole /\ packages'[i].text = line.text
  BY <1>3, AppendWrites
<1>5. \A i \in DOMAIN packages' : \E q \in Requests : packages'[i].text = PackageText(q)
  BY <1>3, <1>4 DEF RaceInv
<1>6. ASSUME NEW k \in Keys, Readable(k)
      PROVE  Cardinality(WrittenFor(k)') + Cardinality(Appending(k)')
               <= Cardinality(setting.workers)
  <2>1. /\ Cardinality(WrittenFor(k)) + Cardinality(Appending(k)) <= Cardinality(setting.workers)
        /\ Cardinality(Appending(k)) \in Nat /\ Cardinality(WrittenFor(k)) \in Nat
        /\ Cardinality(setting.workers) \in Nat
        /\ IsFiniteSet(Appending(k)) /\ IsFiniteSet(WrittenFor(k))
    BY <1>3, <1>6, FiniteParts DEF RaceInv
  <2>2. Appending(k)' = Appending(k) \ {w}
    BY <1>1 DEF Appending, At
  <2>3. CASE own = k
    <3>1. w \in Appending(k)
      BY <1>1, <2>3 DEF Appending
    <3>2. Cardinality(Appending(k)') = Cardinality(Appending(k)) - 1
      BY <2>1, <2>2, <3>1, FS_RemoveElement
    <3>3. WrittenFor(k)' \in SUBSET (WrittenFor(k) \union {last})
      BY <1>4 DEF WrittenFor
    <3>4. /\ IsFiniteSet(WrittenFor(k) \union {last})
          /\ Cardinality(WrittenFor(k) \union {last}) \in Nat
          /\ Cardinality(WrittenFor(k) \union {last}) <= Cardinality(WrittenFor(k)) + 1
      <4> DEFINE written == WrittenFor(k)
      <4>1. /\ IsFiniteSet(written \union {last})
            /\ Cardinality(written \union {last})
                 = IF last \in written THEN Cardinality(written) ELSE Cardinality(written) + 1
        <5> HIDE DEF written, last
        <5> QED
          BY <2>1, FS_AddElement DEF written
      <4>2. Cardinality(written) \in Nat
        BY <2>1
      <4> HIDE DEF written, last
      <4> QED
        BY <4>1, <4>2 DEF written
    <3>5. /\ Cardinality(WrittenFor(k)') <= Cardinality(WrittenFor(k) \union {last})
          /\ Cardinality(WrittenFor(k)') \in Nat
      BY <3>3, <3>4, FS_Subset, FS_CardinalityType
    <3> QED
      BY <2>1, <3>2, <3>4, <3>5
  <2>4. CASE own # k
    <3>1. w \notin Appending(k)
      BY <2>4 DEF Appending
    <3>2. WrittenFor(k)' \in SUBSET WrittenFor(k)
      BY <1>3, <1>4, <2>4 DEF WrittenFor
    <3>3. /\ Cardinality(WrittenFor(k)') <= Cardinality(WrittenFor(k))
          /\ Cardinality(WrittenFor(k)') \in Nat
      BY <2>1, <3>2, FS_Subset, FS_CardinalityType
    <3>4. Appending(k)' = Appending(k)
      BY <2>2, <3>1
    <3> QED
      BY <2>1, <3>3, <3>4
  <2> QED
    BY <2>3, <2>4
<1> QED
  BY <1>2, <1>5, <1>6 DEF RaceInv, Readable

-----------------------------------------------------------------------------
\* A request has a key.
LEMMA RequestKey ==
  ASSUME NEW q \in Requests
  PROVE  EffectiveKey(q) \in Keys /\ q.work \in Works /\ q.work # NoPackage
BY HandoffAssumption DEF EffectiveKey

\* One process that works alone is the only one that is busy.
LEMMA AloneIsOne ==
  ASSUME RaceInv, Alone, NEW w \in setting.workers, NEW v \in Workers, ~ Free(v)
  PROVE  v = w
<1>1. IsFiniteSet(setting.workers)
  BY HandoffAssumption, FS_Subset DEF RaceInv
<1>2. \E x : setting.workers = {x}
  BY <1>1, FS_Singleton DEF Alone
<1>3. v \in setting.workers
  BY DEF RaceInv
<1> QED
  BY <1>2, <1>3

\* A step that leaves the package file names only what answers by now.
LEMMA QuietAnswers ==
  ASSUME RaceInv, AnswerInv, NEW w \in setting.workers, NEW a, Go(w, a),
         UNCHANGED <<setting, packages>>,
         setting.tears = 0 /\ a.step = "record" /\ Binding(a.status, a.request) =>
           Stands(a.request, a.work),
         a.step = "append" => PackageFor(packages, EffectiveKey(a.request)) = NoPackage,
         setting.tears = 0 => \A r \in replies' \ replies :
           Binding(r.status, r.request) => Stands(r.request, r.work) /\ r.request \in Requests
  PROVE  AnswerInv'
<1>1. /\ w \in Workers /\ attempt'[w] = a
      /\ \A v \in Workers : v # w => attempt'[v] = attempt[v]
  BY HandoffAssumption DEF Go, RaceInv, StoreInv
<1>2. /\ \A status, request : Binding(status, request)' <=> Binding(status, request)
      /\ \A request, work : Stands(request, work)' <=> Stands(request, work)
      /\ Alone' <=> Alone
  BY DEF Binding, Stands, Alone
<1> SUFFICES ASSUME setting.tears = 0
             PROVE  /\ \A i \in DOMAIN packages : packages[i].ended
                    /\ \A v \in Workers :
                         /\ attempt'[v].step = "record"
                              /\ Binding(attempt'[v].status, attempt'[v].request) =>
                              Stands(attempt'[v].request, attempt'[v].work)
                         /\ attempt'[v].step = "append" /\ Alone =>
                              PackageFor(packages, EffectiveKey(attempt'[v].request)) = NoPackage
                    /\ \A r \in replies' : Binding(r.status, r.request) =>
                                             Stands(r.request, r.work) /\ r.request \in Requests
  BY <1>2 DEF AnswerInv, At, Binding, Stands, Alone
<1>3. ASSUME NEW v \in Workers
      PROVE  /\ attempt'[v].step = "record"
                  /\ Binding(attempt'[v].status, attempt'[v].request) =>
                  Stands(attempt'[v].request, attempt'[v].work)
             /\ attempt'[v].step = "append" /\ Alone =>
                  PackageFor(packages, EffectiveKey(attempt'[v].request)) = NoPackage
  BY <1>1, <1>3 DEF AnswerInv, At
<1> QED
  BY <1>3 DEF AnswerInv

\* An answer that stands is not displaced by another line, and the line of the only
\* process answers its key.
LEMMA WritingAnswers ==
  ASSUME RaceInv, AnswerInv, NEW w \in setting.workers, At(w, "append"), NEW a, Go(w, a),
         UNCHANGED <<setting, replies>>,
         NEW line \in PackageLine, packages' = AppendLine(packages, line),
         setting.tears = 0 => /\ line = Line(PackageText(attempt[w].request))
                              /\ a.step = "record" /\ a.request = attempt[w].request
                              /\ a.status = "created" /\ a.work = attempt[w].request.work
  PROVE  AnswerInv'
<1>1. /\ w \in Workers /\ attempt'[w] = a
      /\ \A v \in Workers : v # w => attempt'[v] = attempt[v]
  BY HandoffAssumption DEF Go, RaceInv, StoreInv
<1> DEFINE q == attempt[w].request
           own == EffectiveKey(q)
           Later(request, work) ==
             work # NoPackage /\ PackageFor(packages', EffectiveKey(request)) = work
<1>2. /\ packages \in Seq(PackageLine) /\ q \in Requests /\ own \in Keys
      /\ q.work \in Works /\ q.work # NoPackage
  <2>1. q \in Requests /\ packages \in Seq(PackageLine)
    BY <1>1 DEF RaceInv, StoreInv, KnowsItsAttempt, At, Free
  <2> QED
    BY <2>1, RequestKey
<1> SUFFICES ASSUME setting.tears = 0
             PROVE  /\ \A i \in DOMAIN packages' : packages'[i].ended
                    /\ \A v \in Workers :
                         /\ attempt'[v].step = "record"
                              /\ Binding(attempt'[v].status, attempt'[v].request) =>
                              Later(attempt'[v].request, attempt'[v].work)
                         /\ attempt'[v].step = "append" /\ Alone =>
                              PackageFor(packages', EffectiveKey(attempt'[v].request)) = NoPackage
                    /\ \A r \in replies : Binding(r.status, r.request) =>
                                            Later(r.request, r.work) /\ r.request \in Requests
  BY DEF AnswerInv, At, Binding, Stands, Alone
<1>3. /\ \A i \in DOMAIN packages : packages[i].ended
      /\ \A v \in Workers :
           /\ At(v, "record") /\ Binding(attempt[v].status, attempt[v].request) =>
                Stands(attempt[v].request, attempt[v].work)
           /\ At(v, "append") /\ Alone =>
                PackageFor(packages, EffectiveKey(attempt[v].request)) = NoPackage
      /\ \A r \in replies : Binding(r.status, r.request) =>
                              Stands(r.request, r.work) /\ r.request \in Requests
  BY DEF AnswerInv
<1>4. packages' = Append(packages, line)
  BY <1>2, <1>3 DEF AppendLine
<1>5. line.ended /\ line.whole /\ line.text.key = own /\ line.text.work = q.work
      /\ line.text.splits = q.splits
  BY DEF Line, PackageText
<1>6. \A i \in DOMAIN packages' : packages'[i].ended
  BY <1>2, <1>3, <1>4, <1>5
<1>7. \A k \in Keys :
        PackageFor(packages', k) =
          IF PackageFor(packages, k) = NoPackage /\ Parses(line) /\ line.text.key = k
          THEN line.text.work ELSE PackageFor(packages, k)
  BY <1>2, <1>4, AppendAnswers
<1>8. ASSUME NEW request \in Requests, NEW work, Stands(request, work)
      PROVE  Later(request, work)
  <2>1. EffectiveKey(request) \in Keys
    BY RequestKey
  <2> QED
    BY <1>7, <1>8, <2>1 DEF Stands
<1>9. ASSUME NEW v \in Workers
      PROVE  /\ attempt'[v].step = "record"
                  /\ Binding(attempt'[v].status, attempt'[v].request) =>
                  Later(attempt'[v].request, attempt'[v].work)
             /\ attempt'[v].step = "append" /\ Alone =>
                  PackageFor(packages', EffectiveKey(attempt'[v].request)) = NoPackage
  <2>1. CASE v = w
    <3>1. ASSUME Binding(a.status, a.request)
          PROVE  Later(a.request, a.work)
      <4>1. Alone /\ ~ q.splits
        BY <3>1 DEF Binding
      <4>2. PackageFor(packages, own) = NoPackage
        BY <1>1, <1>3, <4>1
      <4>3. Parses(line)
        BY <1>5, <4>1 DEF Parses
      <4>4. PackageFor(packages', own) = q.work
        BY <1>2, <1>5, <1>7, <4>2, <4>3
      <4> QED
        BY <1>2, <4>4 DEF Stands
    <3> QED
      BY <1>1, <2>1, <3>1
  <2>2. CASE v # w
    <3>1. attempt'[v] = attempt[v]
      BY <1>1, <2>2
    <3>2. ~ Free(v) => attempt[v].request \in Requests
      BY DEF RaceInv, KnowsItsAttempt
    <3>3. attempt[v].step = "append" => ~ Alone
      BY <2>2, AloneIsOne DEF At, Free
    <3>4. attempt[v].step = "record" => attempt[v].request \in Requests
      BY <3>2 DEF At, Free
    <3> QED
      BY <1>3, <1>8, <3>1, <3>3, <3>4 DEF At, Free
  <2> QED
    BY <2>1, <2>2
<1>10. \A r \in replies : Binding(r.status, r.request) =>
                            Later(r.request, r.work) /\ r.request \in Requests
  BY <1>3, <1>8
<1> QED
  BY <1>6, <1>9, <1>10

-----------------------------------------------------------------------------
\* No process has written or said anything at first.
LEMMA HandoffInvInit == Init => HandoffInv
<1> SUFFICES ASSUME Init PROVE HandoffInv
  OBVIOUS
<1>1. StoreInv /\ packages = <<>> /\ replies = {} /\ setting \in Settings /\ tears = 0
  BY InitStore DEF Init
<1>2. \A w \in Workers : Free(w)
  BY DEF Init, At, Free, NoAttempt
<1>3. ASSUME NEW k \in Keys
      PROVE  Cardinality(WrittenFor(k)) + Cardinality(Appending(k)) <= Cardinality(setting.workers)
  <2>1. WrittenFor(k) = {} /\ Appending(k) = {}
    BY <1>1, <1>2 DEF WrittenFor, Appending, At, Free
  <2>2. Cardinality(setting.workers) \in Nat
    BY <1>1, <1>3, FiniteParts DEF StoreInv
  <2> QED
    BY <2>1, <2>2, FS_EmptySet
<1> QED
  BY <1>1, <1>2, <1>3 DEF HandoffInv, RaceInv, AnswerInv, KnowsItsAttempt, At, Free

\* Every step keeps it.
LEMMA HandoffInvStep == HandoffInv /\ [Next]_vars => HandoffInv'
<1> SUFFICES ASSUME HandoffInv, [Next]_vars PROVE HandoffInv'
  OBVIOUS
<1>0. RaceInv /\ AnswerInv /\ StoreInv' /\ tears \in Nat
  BY NextStores DEF HandoffInv, RaceInv
<1>1. CASE UNCHANGED vars
  BY <1>0, <1>1
     DEF vars, HandoffInv, RaceInv, AnswerInv, KnowsItsAttempt, At, Free, Readable, WrittenFor,
         Appending, Binding, Stands, Alone
<1>2. ASSUME NEW w \in Workers, NEW q \in Requests, Begin(w, q)
      PROVE  HandoffInv'
  <2>1. PICK a : /\ Go(w, a) /\ UNCHANGED <<setting, packages, replies, tears>>
                 /\ {"step", "request", "status", "work"} \subseteq DOMAIN a /\ a.request = q
                 /\ a.step \in {"tool", "record"} /\ a.status \in {"none", "blocked_by_governance"}
    BY <1>2 DEF Begin
  <2>2. w \in setting.workers
    BY <1>2 DEF Begin
  <2>3. ~ Binding(a.status, a.request)
    BY <2>1 DEF Binding
  <2> QED
    BY <1>0, <2>1, <2>2, <2>3, QuietRace, QuietAnswers DEF HandoffInv
<1>3. ASSUME NEW w \in Workers, ~ Free(w)
      PROVE  /\ w \in setting.workers /\ attempt[w].request \in Requests
             /\ {"step", "request", "status", "work"} \subseteq DOMAIN attempt[w]
  BY <1>0, <1>3 DEF RaceInv, KnowsItsAttempt
<1>4. ASSUME NEW w \in Workers, NEW mode \in FailureModes, Fail(w, mode)
      PROVE  HandoffInv'
  <2> DEFINE status == IF mode = "other" THEN "tool_error" ELSE mode
             a == [attempt[w] EXCEPT !.step = "record", !.status = status]
  <2>1. ~ Free(w) /\ Go(w, a) /\ UNCHANGED <<setting, packages, replies, tears>>
    BY <1>4 DEF Fail, At, Free
  <2>2. /\ w \in setting.workers /\ attempt[w].request \in Requests
        /\ {"step", "request", "status", "work"} \subseteq DOMAIN attempt[w]
    BY <1>3, <2>1
  <2>3. ~ Binding(status, attempt[w].request)
    BY DEF Binding, FailureModes
  <2> HIDE DEF status
  <2>4. /\ DOMAIN a = DOMAIN attempt[w] /\ a.step = "record" /\ a.status = status
        /\ a.request = attempt[w].request
    BY <2>2
  <2> HIDE DEF a
  <2> QED
    BY <1>0, <2>1, <2>2, <2>3, <2>4, QuietRace, QuietAnswers DEF HandoffInv
<1>5. ASSUME NEW w \in Workers, Find(w)
      PROVE  HandoffInv'
  <2> DEFINE found  == PackageFor(packages, EffectiveKey(attempt[w].request))
             missed == [attempt[w] EXCEPT !.step = "append"]
             hit    == [attempt[w] EXCEPT !.step = "record", !.work = found,
                                          !.status = "duplicate_replayed"]
  <2>1. /\ ~ Free(w) /\ UNCHANGED <<setting, packages, replies, tears>>
        /\ Go(w, IF found = NoPackage THEN missed ELSE hit)
    BY <1>5 DEF Find, At, Free
  <2>2. /\ w \in setting.workers /\ attempt[w].request \in Requests
        /\ {"step", "request", "status", "work"} \subseteq DOMAIN attempt[w]
    BY <1>3, <2>1
  <2>3. /\ DOMAIN missed = DOMAIN attempt[w] /\ missed.step = "append"
        /\ missed.request = attempt[w].request
    BY <2>2
  <2>4. /\ DOMAIN hit = DOMAIN attempt[w] /\ hit.step = "record" /\ hit.work = found
        /\ hit.request = attempt[w].request
    BY <2>2
  <2>5. CASE found = NoPackage
    <3>1. Matches(packages, EffectiveKey(attempt[w].request)) = {}
      <4> SUFFICES ASSUME Matches(packages, EffectiveKey(attempt[w].request)) # {} PROVE FALSE
        OBVIOUS
      <4> DEFINE k == EffectiveKey(attempt[w].request)
      <4>1. k \in Keys /\ packages \in Seq(PackageLine)
        BY <1>0, <2>2, RequestKey DEF RaceInv, StoreInv
      <4>2. FirstFor(packages, k) \in Matches(packages, k)
        BY <4>1, FirstExists
      <4>3. packages[FirstFor(packages, k)] \in PackageLine
        BY <4>1, <4>2 DEF Matches
      <4>4. found = packages[FirstFor(packages, k)].text.work
        BY DEF PackageFor
      <4> HIDE DEF found, k
      <4> QED
        BY <2>5, <4>3, <4>4, HandoffAssumption DEF PackageLine
    <3>2. Go(w, missed)
      BY <2>1, <2>5
    <3> HIDE DEF missed
    <3> QED
      BY <1>0, <2>1, <2>2, <2>3, <2>5, <3>1, <3>2, QuietRace, QuietAnswers DEF HandoffInv
  <2>6. CASE found # NoPackage
    <3>1. Go(w, hit)
      BY <2>1, <2>6
    <3> HIDE DEF hit
    <3>2. Stands(hit.request, hit.work)
      BY <2>4, <2>6 DEF Stands
    <3> QED
      BY <1>0, <2>1, <2>2, <2>4, <3>1, <3>2, QuietRace, QuietAnswers DEF HandoffInv
  <2> QED
    BY <2>5, <2>6
<1>6. ASSUME NEW w \in Workers, StorePackage(w)
      PROVE  HandoffInv'
  <2> DEFINE q    == attempt[w].request
             line == Line(PackageText(q))
             a    == [attempt[w] EXCEPT !.step = "record", !.status = "created", !.work = q.work]
  <2>1. /\ At(w, "append") /\ ~ Free(w) /\ UNCHANGED <<setting, replies, tears>>
        /\ Go(w, a) /\ packages' = AppendLine(packages, line)
    BY <1>6 DEF StorePackage, At, Free
  <2>2. /\ w \in setting.workers /\ q \in Requests
        /\ {"step", "request", "status", "work"} \subseteq DOMAIN attempt[w]
    BY <1>3, <2>1
  <2>3. line \in PackageLine /\ line.text = PackageText(q)
    BY <2>2, RequestLines DEF Line
  <2>4. /\ DOMAIN a = DOMAIN attempt[w] /\ a.step = "record" /\ a.request = q
        /\ a.status = "created" /\ a.work = q.work
    BY <2>2
  <2>5. line = Line(PackageText(attempt[w].request))
    OBVIOUS
  <2> HIDE DEF a, line
  <2> QED
    BY <1>0, <2>1, <2>2, <2>3, <2>4, <2>5, WritingRace, WritingAnswers DEF HandoffInv
<1>7. ASSUME NEW w \in Workers, Record(w)
      PROVE  HandoffInv'
  <2> DEFINE reply == [request |-> attempt[w].request, status |-> attempt[w].status,
                       work |-> attempt[w].work]
  <2>1. /\ At(w, "record") /\ ~ Free(w) /\ UNCHANGED <<setting, packages, tears>>
        /\ Go(w, NoAttempt) /\ NoAttempt.step = "idle" /\ replies' = replies \union {reply}
    BY <1>7 DEF Record, At, Free, NoAttempt
  <2>2. /\ w \in setting.workers /\ attempt[w].request \in Requests
    BY <1>3, <2>1
  <2>3. setting.tears = 0 => \A r \in replies' \ replies :
          Binding(r.status, r.request) => Stands(r.request, r.work) /\ r.request \in Requests
    BY <1>0, <2>1, <2>2 DEF AnswerInv
  <2> QED
    BY <1>0, <2>1, <2>2, <2>3, QuietRace, QuietAnswers DEF HandoffInv
<1>8. ASSUME NEW w \in Workers, FindRaises(w) \/ Stop(w)
      PROVE  HandoffInv'
  <2>1. PICK a \in {NoAttempt, Stopped} :
          ~ Free(w) /\ UNCHANGED <<setting, packages, replies, tears>> /\ Go(w, a)
    BY <1>8 DEF FindRaises, Stop, At, Free
  <2>2. w \in setting.workers
    BY <1>3, <2>1
  <2>3. a.step \in {"idle", "stopped"}
    BY DEF NoAttempt, Stopped
  <2> QED
    BY <1>0, <2>1, <2>2, <2>3, QuietRace, QuietAnswers DEF HandoffInv
<1>10. ASSUME NEW w \in Workers, NEW q \in Requests, BeginRaises(w, q)
      PROVE  HandoffInv'
  <2>1. /\ w \in setting.workers /\ UNCHANGED <<setting, packages, replies, tears>>
        /\ Go(w, NoAttempt) /\ NoAttempt.step = "idle"
    BY <1>10 DEF BeginRaises, NoAttempt
  <2> QED
    BY <1>0, <2>1, QuietRace, QuietAnswers DEF HandoffInv
<1>9. ASSUME NEW w \in Workers, NEW place \in Places, StopInLine(w, place)
      PROVE  HandoffInv'
  <2>1. /\ ~ Free(w) /\ UNCHANGED <<setting, replies>> /\ tears' = tears + 1
        /\ Go(w, Stopped) /\ Stopped.step = "stopped" /\ tears < setting.tears
    BY <1>9 DEF StopInLine, Stopped, At, Free
  <2>2. /\ w \in setting.workers /\ attempt[w].request \in Requests
    BY <1>3, <2>1
  <2>3. tears' \in Nat /\ setting.tears # 0
    BY <1>0, <2>1
  <2>4. CASE UNCHANGED packages
    BY <1>0, <2>1, <2>2, <2>3, <2>4, QuietRace, QuietAnswers DEF HandoffInv
  <2>5. CASE /\ At(w, "append")
             /\ packages' = AppendLine(packages, Cut(PackageText(attempt[w].request), place))
    <3> DEFINE line == Cut(PackageText(attempt[w].request), place)
    <3>1. line \in PackageLine /\ line.text = PackageText(attempt[w].request)
      BY <2>2, RequestLines DEF Cut
    <3>2. packages' = AppendLine(packages, line)
      BY <2>5
    <3> HIDE DEF line
    <3> QED
      BY <1>0, <2>1, <2>2, <2>3, <2>5, <3>1, <3>2, WritingRace, WritingAnswers DEF HandoffInv
  <2> QED
    BY <1>9, <2>4, <2>5 DEF StopInLine
<1> QED
  BY <1>1, <1>2, <1>4, <1>5, <1>6, <1>7, <1>8, <1>9, <1>10 DEF Next

\* However many processes race for a key, and wherever they are stopped, they leave no
\* more packages of it than there are processes.
THEOREM RacesAlwaysBounded == Spec => []RacesBounded
<1>1. HandoffInv => RacesBounded
  <2> SUFFICES ASSUME HandoffInv, NEW k \in Keys, Readable(k)
               PROVE  Cardinality(WrittenFor(k)) <= Cardinality(setting.workers)
    BY DEF RacesBounded
  <2>1. /\ Cardinality(WrittenFor(k)) + Cardinality(Appending(k)) <= Cardinality(setting.workers)
        /\ setting \in Settings /\ packages \in Seq(PackageLine)
    BY DEF HandoffInv, RaceInv, StoreInv
  <2> QED
    BY <2>1, FiniteParts
<1> QED
  BY <1>1, HandoffInvInit, HandoffInvStep, PTL DEF Spec

\* What a reply names answers its key for good: always when one process works alone,
\* and of a race for those that came second.
THEOREM AnswersAlwaysStand == Spec => []AnswersStand
<1>1. HandoffInv => AnswersStand
  BY DEF HandoffInv, AnswerInv, Binding, Stands, AnswersStand
<1> QED
  BY <1>1, HandoffInvInit, HandoffInvStep, PTL DEF Spec
=============================================================================
