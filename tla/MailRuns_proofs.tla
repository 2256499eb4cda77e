------------------------------ MODULE MailRuns_proofs ------------------------------
(***************************************************************************)
(* Proofs about the mail runs for every set of runs, addresses and lists:  *)
(* who is reached by a mail, how often, and what its sender is told.       *)
(***************************************************************************)
EXTENDS MailRuns, FiniteSetTheorems, TLAPS

Quiet == {"idle", "prepared", "submit", "probe", "record"}
Places == Quiet \cup {"archive", "fallback", "report", "done"}

Shape == /\ place \in [Runs -> Places]
         /\ DOMAIN job = Runs /\ DOMAIN accepted = Runs /\ DOMAIN saved = Runs
         /\ DOMAIN copied = Runs /\ DOMAIN outcome = Runs /\ DOMAIN filed = Runs
         /\ copies \in [Runs -> [Boxes -> Nat]]

Recipients(a) == job[a].recipients

\* What was prepared: no two recipients share a mailbox.
Reviewed(a) ==
    Kind(a) = "send" =>
        /\ Recipients(a) \subseteq Addresses
        /\ \A x, y \in Recipients(a) : Box[x] = Box[y] => x = y
        /\ job[a].fallback \in Addresses \cup {None}

Unsent(a) == \A b \in Boxes : copies[a][b] = 0

\* Until the server was asked nobody is reached; then, who accepted the mail.
Asked(a) ==
    /\ place[a] \in Quiet => Unsent(a) /\ accepted[a] = {} /\ ~saved[a] /\ ~copied[a]
    /\ place[a] = "submit" => Kind(a) = "send"
    /\ place[a] \in {"probe", "record"} => Kind(a) = "detect"
    /\ place[a] \in {"archive", "fallback", "report"} =>
          Kind(a) = "send" /\ accepted[a] # {} /\ accepted[a] \subseteq Recipients(a)
    /\ place[a] \in {"archive", "fallback"} =>
          /\ \A b \in Boxes : copies[a][b] = IF b \in BoxesOf(accepted[a]) THEN 1 ELSE 0
          /\ ~saved[a] /\ ~copied[a]
    /\ place[a] = "fallback" => job[a].fallback # None
    /\ place[a] = "report" =>
          /\ \A b \in BoxesOf(accepted[a]) : copies[a][b] = 1
          /\ saved[a] => filed[a]
          /\ copied[a] => job[a].fallback # None /\ copies[a][FallbackBox(a)] = 1
    /\ place[a] # "done" => outcome[a] = None

\* The properties, of one run.
Single(a) == \A b \in Boxes : copies[a][b] <= 1
Undelivered(a) == outcome[a] = "not_applied" => Unsent(a)
Archived(a) ==
    \A b \in Boxes : copies[a][b] > 0 /\ b \notin BoxesOf(Recipients(a)) =>
        /\ job[a].fallback # None /\ b = FallbackBox(a)
        /\ accepted[a] # {} /\ ~saved[a]
CompleteIfVerified(a) ==
    Sends(a) /\ outcome[a] = "applied_verified" =>
        /\ \A r \in Recipients(a) : copies[a][Box[r]] = 1
        /\ filed[a] \/ copies[a][FallbackBox(a)] = 1

Good(a) == /\ Reviewed(a) /\ Asked(a)
           /\ Single(a) /\ Undelivered(a) /\ Archived(a) /\ CompleteIfVerified(a)

\* What a settings change will write is a set of options, too.
OptionsOK == /\ options \in Options
             /\ \A a \in Runs : Kind(a) = "settings" => job[a].options \in Options

IInv == Shape /\ OptionsOK /\ \A a \in Runs : Good(a)
--------------------------------------------------------------------------------
\* Deduplicated recipients have a mailbox each: as many mailboxes as spellings.
LEMMA OneMailboxEach ==
    ASSUME NEW wanted \in Lists, NEW recipients \in SUBSET wanted,
           Deduplicated(wanted, recipients)
    PROVE  /\ recipients \subseteq Addresses
           /\ \A x, y \in recipients : Box[x] = Box[y] => x = y
<1> USE BoxAssumption
<1>1. recipients \subseteq Addresses /\ IsFiniteSet(recipients)
  BY FS_Subset
<1> DEFINE f == [x \in recipients |-> Box[x]]
<1>2. f \in Surjection(recipients, BoxesOf(recipients))
  BY DEF Surjection, BoxesOf
<1>3. Cardinality(BoxesOf(recipients)) = Cardinality(recipients)
  BY DEF Deduplicated
<1>4. f \in Injection(recipients, BoxesOf(recipients))
  BY <1>1, <1>2, <1>3, FS_Surjection
<1>5. \A x, y \in recipients : f[x] = f[y] => x = y
  BY <1>4 DEF Injection, IsInjective
<1> QED  BY <1>1, <1>5

\* A delivery adds one message to the mailbox of each address.
LEMMA OneMessageEach ==
    ASSUME NEW a \in Runs, Shape, NEW addresses \in SUBSET Addresses,
           \A x, y \in addresses : Box[x] = Box[y] => x = y,
           Delivers(a, addresses)
    PROVE  /\ \A c \in Runs : c # a => copies'[c] = copies[c]
           /\ \A b \in Boxes :
                copies'[a][b] = IF b \in BoxesOf(addresses) THEN copies[a][b] + 1
                                                           ELSE copies[a][b]
           /\ copies' \in [Runs -> [Boxes -> Nat]]
<1> USE BoxAssumption
<1> DEFINE In(b) == {x \in addresses : Box[x] = b}
<1>1. \A b \in Boxes : Cardinality(In(b)) = IF b \in BoxesOf(addresses) THEN 1 ELSE 0
  <2> SUFFICES ASSUME NEW b \in Boxes
               PROVE  Cardinality(In(b)) = IF b \in BoxesOf(addresses) THEN 1 ELSE 0
    OBVIOUS
  <2>1. CASE b \in BoxesOf(addresses)
    <3>1. PICK x \in addresses : Box[x] = b  BY <2>1 DEF BoxesOf
    <3>2. In(b) = {x}  BY <3>1
    <3> QED  BY <2>1, <3>2, FS_Singleton
  <2>2. CASE b \notin BoxesOf(addresses)
    <3>1. In(b) = {}  BY <2>2 DEF BoxesOf
    <3> QED  BY <2>2, <3>1, FS_EmptySet
  <2> QED  BY <2>1, <2>2
<1>2. copies \in [Runs -> [Boxes -> Nat]]  BY DEF Shape
<1>3. copies' = [copies EXCEPT ![a] = [b \in Boxes |-> copies[a][b] + Cardinality(In(b))]]
  BY <1>2 DEF Delivers
<1> HIDE DEF In
<1>4. \A b \in Boxes : copies'[a][b] = copies[a][b] + Cardinality(In(b))
  BY <1>2, <1>3
<1>5. \A b \in Boxes : copies'[a][b] = IF b \in BoxesOf(addresses) THEN copies[a][b] + 1
                                                                ELSE copies[a][b]
  BY <1>1, <1>2, <1>4
<1>6. [b \in Boxes |-> copies[a][b] + Cardinality(In(b))] \in [Boxes -> Nat]
  BY <1>1, <1>2
<1> QED  BY <1>2, <1>3, <1>5, <1>6

Same(a) == /\ place'[a] = place[a] /\ job'[a] = job[a] /\ accepted'[a] = accepted[a]
           /\ saved'[a] = saved[a] /\ copied'[a] = copied[a] /\ outcome'[a] = outcome[a]
           /\ copies'[a] = copies[a] /\ filed'[a] = filed[a]

LEMMA SameIsGood == ASSUME NEW a \in Runs, Good(a), Same(a)  PROVE Good(a)'
  BY DEF Good, Same, Reviewed, Asked, Single, Undelivered, Archived, CompleteIfVerified,
         Unsent, Sends, Kind, Recipients, FallbackBox

\* A run that has sent nothing goes on, or ends and says so.
LEMMA QuietStep ==
    ASSUME NEW a \in Runs, Shape, Good(a), place[a] \in Quiet, place[a] # "idle",
           job' = job, UNCHANGED send,
           \/ /\ outcome' = outcome
              /\ \/ place' = [place EXCEPT ![a] = "submit"] /\ Kind(a) = "send"
                 \/ place' = [place EXCEPT ![a] = "probe"] /\ Kind(a) = "detect"
                 \/ place' = [place EXCEPT ![a] = "record"] /\ Kind(a) = "detect"
           \/ \E o \in {"not_applied", "applied_verified", "applied_unverified"} :
                 Closes(a, o) /\ (o = "applied_verified" => Kind(a) # "send")
    PROVE  Good(a)'
<1> USE DEF send
<1>1. Unsent(a) /\ Reviewed(a) /\ outcome[a] = None
  BY DEF Good, Asked, Quiet
<1>2. Reviewed(a)' /\ Single(a)' /\ Archived(a)' /\ Undelivered(a)'
  BY <1>1 DEF Reviewed, Kind, Recipients, Single, Archived, Undelivered, Unsent, FallbackBox
<1>3. Asked(a)'
  BY DEF Good, Asked, Quiet, Shape, Closes, Kind, Unsent, Recipients, FallbackBox
<1>4. CompleteIfVerified(a)'
  <2>1. CASE outcome' = outcome
    BY <1>1, <2>1 DEF CompleteIfVerified, None
  <2>2. ASSUME NEW o, Closes(a, o), o = "applied_verified" => Kind(a) # "send"
        PROVE  CompleteIfVerified(a)'
    BY <2>2 DEF CompleteIfVerified, Sends, Kind, Closes, Shape
  <2> QED  BY <2>1, <2>2
<1> QED  BY <1>2, <1>3, <1>4 DEF Good

LEMMA ArchiveStep ==
    ASSUME NEW a \in Runs, Shape, Good(a), Archive(a)
    PROVE  Good(a)'
<1>1. /\ place[a] = "archive" /\ Kind(a) = "send" /\ outcome[a] = None
      /\ accepted[a] # {} /\ accepted[a] \subseteq Recipients(a)
      /\ \A b \in Boxes : copies[a][b] = IF b \in BoxesOf(accepted[a]) THEN 1 ELSE 0
      /\ ~saved[a] /\ ~copied[a] /\ Reviewed(a)
  BY DEF Archive, Good, Asked
<1>2. UNCHANGED <<job, accepted, copied, copies>>
  BY DEF Archive
<1>3. \/ place'[a] = "report" /\ outcome' = outcome /\ (saved'[a] => filed'[a])
      \/ place'[a] = "fallback" /\ job[a].fallback # None /\ outcome' = outcome /\ ~saved'[a]
      \/ place'[a] = "done" /\ outcome'[a] = "unknown"
  BY <1>1 DEF Archive, Closes, Shape
<1>4. \A b \in BoxesOf(accepted[a]) : b \in BoxesOf(Recipients(a)) /\ b \in Boxes
  BY <1>1, BoxAssumption DEF BoxesOf, Reviewed
<1>5. Reviewed(a)' /\ Single(a)' /\ Archived(a)'
  BY <1>1, <1>2, <1>4 DEF Reviewed, Kind, Recipients, Single, Archived
<1>6. Undelivered(a)' /\ CompleteIfVerified(a)'
  BY <1>1, <1>3 DEF Undelivered, CompleteIfVerified, None
<1>7. Asked(a)'
  BY <1>1, <1>2, <1>3, <1>4 DEF Asked, Quiet, Kind, Recipients
<1> QED  BY <1>5, <1>6, <1>7 DEF Good

\* Asking the server: for the reviewed recipients, or some of them.
LEMMA SubmitStep ==
    ASSUME NEW a \in Runs, Shape, Good(a), SubmitAccepted(a) \/ SubmitLost(a)
    PROVE  /\ Good(a)' /\ copies' \in [Runs -> [Boxes -> Nat]]
           /\ \A c \in Runs : c # a => copies'[c] = copies[c]
<1>1. /\ place[a] = "submit" /\ Kind(a) = "send" /\ outcome[a] = None /\ Unsent(a)
      /\ accepted[a] = {} /\ ~saved[a] /\ ~copied[a] /\ Reviewed(a)
  BY DEF SubmitAccepted, SubmitLost, Moves, Good, Asked, Quiet
<1>2. PICK some \in SUBSET Recipients(a) :
         /\ Delivers(a, some)
         /\ \/ /\ place'[a] = "archive" /\ some # {} /\ accepted'[a] = some
               /\ outcome' = outcome
            \/ place'[a] = "done" /\ outcome'[a] = "unknown"
  BY DEF SubmitAccepted, SubmitLost, Moves, Closes, Shape, Recipients
<1>3. UNCHANGED <<job, saved, copied, filed>>
  BY DEF SubmitAccepted, SubmitLost
<1>4. some \in SUBSET Addresses /\ \A x, y \in some : Box[x] = Box[y] => x = y
  BY <1>1 DEF Reviewed
<1>5. /\ \A c \in Runs : c # a => copies'[c] = copies[c]
      /\ copies' \in [Runs -> [Boxes -> Nat]]
      /\ \A b \in Boxes : copies'[a][b] = IF b \in BoxesOf(some) THEN 1 ELSE 0
  BY <1>1, <1>2, <1>4, OneMessageEach DEF Unsent
<1>6. BoxesOf(some) \subseteq BoxesOf(Recipients(a))
  BY DEF BoxesOf
<1>7. Reviewed(a)' /\ Single(a)' /\ Archived(a)'
  BY <1>1, <1>3, <1>5, <1>6 DEF Reviewed, Kind, Recipients, Single, Archived
<1>8. Undelivered(a)' /\ CompleteIfVerified(a)'
  BY <1>1, <1>2 DEF Undelivered, CompleteIfVerified, None
<1>9. Asked(a)'
  BY <1>1, <1>2, <1>3, <1>5 DEF Asked, Quiet, Kind, Recipients
<1> QED  BY <1>5, <1>7, <1>8, <1>9 DEF Good

\* The archive of last resort: its mailbox is nobody's who was asked.
LEMMA FallbackStep ==
    ASSUME NEW a \in Runs, Shape, Good(a), SkipFallback(a) \/ SendFallback(a)
    PROVE  /\ Good(a)' /\ copies' \in [Runs -> [Boxes -> Nat]]
           /\ \A c \in Runs : c # a => copies'[c] = copies[c]
<1> DEFINE fb == FallbackBox(a)
<1>1. /\ place[a] = "fallback" /\ Kind(a) = "send" /\ outcome[a] = None
      /\ accepted[a] # {} /\ accepted[a] \subseteq Recipients(a)
      /\ \A b \in Boxes : copies[a][b] = IF b \in BoxesOf(accepted[a]) THEN 1 ELSE 0
      /\ ~saved[a] /\ ~copied[a] /\ Reviewed(a) /\ job[a].fallback # None
      /\ copies \in [Runs -> [Boxes -> Nat]]
  BY DEF SkipFallback, SendFallback, Moves, Good, Asked, Shape
<1>2. /\ place'[a] = "report" /\ UNCHANGED <<job, outcome, accepted, saved, filed>>
  BY DEF SkipFallback, SendFallback, Moves, Shape
<1>3. job[a].fallback \in Addresses /\ fb \in Boxes
  BY <1>1, BoxAssumption DEF Reviewed, FallbackBox
<1>4. \A b \in BoxesOf(accepted[a]) : b \in BoxesOf(Recipients(a)) /\ b \in Boxes
  BY <1>1, BoxAssumption DEF BoxesOf, Reviewed
<1>5. \/ copies' = copies /\ (copied'[a] => fb \in BoxesOf(accepted[a]))
      \/ fb \notin BoxesOf(Recipients(a)) /\ Delivers(a, {job[a].fallback})
  BY <1>1 DEF SkipFallback, SendFallback, NeedsCopy, Shape, Recipients
<1> HIDE DEF fb
<1>6. CASE copies' = copies /\ (copied'[a] => fb \in BoxesOf(accepted[a]))
  <2>1. Reviewed(a)' /\ Single(a)' /\ Archived(a)'
    BY <1>1, <1>2, <1>4, <1>6 DEF Reviewed, Kind, Recipients, Single, Archived
  <2>2. Undelivered(a)' /\ CompleteIfVerified(a)'
    BY <1>1, <1>2 DEF Undelivered, CompleteIfVerified, None
  <2>3. copied'[a] => copies'[a][FallbackBox(a)'] = 1
    BY <1>1, <1>2, <1>3, <1>6 DEF fb, FallbackBox
  <2>4. Asked(a)'
    BY <1>1, <1>2, <1>4, <1>6, <2>3 DEF Asked, Quiet, Kind, Recipients
  <2> QED  BY <1>1, <1>6, <2>1, <2>2, <2>4 DEF Good
<1>7. CASE fb \notin BoxesOf(Recipients(a)) /\ Delivers(a, {job[a].fallback})
  <2>1. BoxesOf({job[a].fallback}) = {fb}
    BY DEF BoxesOf, fb, FallbackBox
  <2>2. /\ \A c \in Runs : c # a => copies'[c] = copies[c]
        /\ copies' \in [Runs -> [Boxes -> Nat]]
        /\ \A b \in Boxes : copies'[a][b] = IF b = fb THEN copies[a][b] + 1
                                                      ELSE copies[a][b]
    BY <1>3, <1>7, <2>1, OneMessageEach
  <2>3. copies'[a][fb] = 1 /\ \A b \in Boxes : b # fb => copies'[a][b] = copies[a][b]
    BY <1>1, <1>3, <1>4, <1>7, <2>2
  <2>4. FallbackBox(a)' = fb
    BY <1>2 DEF fb, FallbackBox
  <2>5. Reviewed(a)' /\ Single(a)' /\ Archived(a)'
    BY <1>1, <1>2, <1>3, <1>4, <2>3, <2>4
    DEF Reviewed, Kind, Recipients, Single, Archived
  <2>6. Undelivered(a)' /\ CompleteIfVerified(a)'
    BY <1>1, <1>2 DEF Undelivered, CompleteIfVerified, None
  <2>7. \A b \in BoxesOf(accepted[a]) : copies'[a][b] = 1
    BY <1>1, <1>4, <1>7, <2>3
  <2>8. Asked(a)'
    BY <1>1, <1>2, <2>3, <2>4, <2>7 DEF Asked, Quiet, Kind, Recipients
  <2> QED  BY <2>2, <2>5, <2>6, <2>8 DEF Good
<1> QED  BY <1>5, <1>6, <1>7

LEMMA ReportStep ==
    ASSUME NEW a \in Runs, Shape, Good(a), Report(a)
    PROVE  Good(a)'
<1>1. /\ place[a] = "report" /\ Kind(a) = "send" /\ Reviewed(a)
      /\ Single(a) /\ Archived(a)
      /\ \A b \in BoxesOf(accepted[a]) : copies[a][b] = 1
      /\ saved[a] => filed[a]
      /\ copied[a] => copies[a][FallbackBox(a)] = 1
  BY DEF Report, Good, Asked
<1>2. /\ place'[a] = "done" /\ UNCHANGED <<job, accepted, saved, copied, copies, filed>>
      /\ \/ outcome'[a] = "applied_verified" /\ Complete(a)
         \/ outcome'[a] = "applied_unverified"
  BY DEF Report, Closes, Shape, send
<1>3. Reviewed(a)' /\ Single(a)' /\ Archived(a)' /\ Undelivered(a)'
  BY <1>1, <1>2
  DEF Reviewed, Kind, Recipients, Single, Archived, Undelivered, FallbackBox
<1>4. CompleteIfVerified(a)'
  BY <1>1, <1>2
  DEF CompleteIfVerified, Complete, Recipients, BoxesOf, FallbackBox
<1>5. Asked(a)'  BY <1>2 DEF Asked, Quiet
<1> QED  BY <1>3, <1>4, <1>5 DEF Good

\* Preparing sends nothing; the recipients of a send are deduplicated.
LEMMA PrepareStep ==
    ASSUME NEW a \in Runs, Shape, Good(a), Prepare(a), options.fallback \in Fallbacks
    PROVE  Good(a)'
<1>1. /\ place[a] = "idle" /\ place' = [place EXCEPT ![a] = "prepared"]
      /\ UNCHANGED <<outcome, send>>
  BY DEF Prepare, PrepareSend, PrepareDetect, PrepareSettings, Moves
<1>2. /\ Unsent(a) /\ accepted[a] = {} /\ ~saved[a] /\ ~copied[a] /\ outcome[a] = None
  BY <1>1 DEF Good, Asked, Quiet
<1>3. /\ place'[a] = "prepared" /\ Unsent(a)' /\ accepted'[a] = {} /\ ~saved'[a] /\ ~copied'[a]
      /\ outcome'[a] = None
  BY <1>1, <1>2 DEF send, Shape, Unsent
<1>4. Reviewed(a)'
  <2>1. ASSUME NEW wanted \in Lists, NEW recipients \in SUBSET wanted,
               PrepareSend(a, wanted, recipients)
        PROVE  Reviewed(a)'
    <3>1. job'[a] = [kind |-> "send", mail |-> a,
                     sender |-> sender, recipients |-> recipients,
                     fallback |-> options.fallback, folder |-> options.folder]
      BY <2>1 DEF PrepareSend, Shape
    <3>2. /\ recipients \subseteq Addresses
          /\ \A x, y \in recipients : Box[x] = Box[y] => x = y
      BY <2>1, OneMailboxEach DEF PrepareSend
    <3>3. options.fallback \in Addresses \cup {None}
      BY BoxAssumption DEF Fallbacks
    <3> QED  BY <3>1, <3>2, <3>3 DEF Reviewed, Kind, Recipients
  <2>2. CASE PrepareDetect(a)
    BY <2>2 DEF PrepareDetect, Reviewed, Kind, Shape
  <2>3. ASSUME NEW fallback \in Fallbacks, PrepareSettings(a, fallback)
        PROVE  Reviewed(a)'
    BY <2>3 DEF PrepareSettings, Reviewed, Kind, Shape
  <2> QED  BY <2>1, <2>2, <2>3 DEF Prepare
<1>5. Single(a)' /\ Archived(a)' /\ Undelivered(a)' /\ CompleteIfVerified(a)'
  BY <1>3 DEF Single, Archived, Undelivered, CompleteIfVerified, Unsent, None
<1>6. Asked(a)'  BY <1>3 DEF Asked, Quiet
<1> QED  BY <1>4, <1>5, <1>6 DEF Good

\* A further call takes over what was reviewed, and has sent nothing yet.
LEMMA CallStep ==
    ASSUME NEW a \in Runs, NEW b \in Runs, Shape, Good(a), Good(b), CallAgain(b, a)
    PROVE  Good(b)'
<1> USE DEF send
<1>1. /\ place[b] = "idle" /\ Unsent(b) /\ outcome[b] = None
      /\ accepted[b] = {} /\ ~saved[b] /\ ~copied[b]
  BY DEF CallAgain, Good, Asked, Quiet
<1>2. job'[b] = job[a] /\ UNCHANGED send
  BY DEF CallAgain, Shape
<1>3. \/ place'[b] = "submit" /\ Kind(a) = "send" /\ outcome' = outcome
      \/ place'[b] = "probe" /\ Kind(a) = "detect" /\ outcome' = outcome
      \/ place'[b] = "done" /\ outcome'[b] = "not_applied"
  BY DEF CallAgain, BeginsSend, BeginsDetect, Begins, Closes, Shape
<1>4. Reviewed(b)'
  BY <1>2 DEF Good, Reviewed, Kind, Recipients
<1>5. Single(b)' /\ Archived(b)' /\ Undelivered(b)'
  BY <1>1, <1>2 DEF Single, Archived, Undelivered, Unsent
<1>6. CompleteIfVerified(b)'
  BY <1>1, <1>3 DEF CompleteIfVerified, None
<1>7. Asked(b)'
  BY <1>1, <1>2, <1>3 DEF Asked, Quiet, Kind, Unsent
<1> QED  BY <1>4, <1>5, <1>6, <1>7 DEF Good
--------------------------------------------------------------------------------
LEMMA InitInvariant == MailInit => IInv
<1> SUFFICES ASSUME MailInit  PROVE IInv
  OBVIOUS
<1> USE DEF MailInit
<1>1. Shape  BY DEF Shape, Places, Quiet
<1>2. OptionsOK
  BY DEF OptionsOK, Options, Records, Kind, None
<1>3. ASSUME NEW a \in Runs  PROVE Good(a)
  <2>1. /\ place[a] = "idle" /\ Kind(a) = None /\ accepted[a] = {} /\ ~saved[a] /\ ~copied[a]
        /\ outcome[a] = None /\ Unsent(a)
    BY DEF Kind, Unsent
  <2>2. Reviewed(a) /\ Asked(a)
    BY <2>1 DEF Reviewed, Asked, Quiet, None
  <2>3. Single(a) /\ Undelivered(a) /\ Archived(a) /\ CompleteIfVerified(a)
    BY <2>1 DEF Single, Undelivered, Archived, CompleteIfVerified, Unsent, None
  <2> QED  BY <2>2, <2>3 DEF Good
<1> QED  BY <1>1, <1>2, <1>3 DEF IInv

\* A step of run a leaves the other runs alone.
Alone(a) == \A c \in Runs : c # a => Same(c)

Calls(a) == \E c \in Runs : CallAgain(a, c)

LEMMA RunStep ==
    ASSUME IInv, NEW a \in Runs, Prepare(a) \/ Step(a) \/ Calls(a)
    PROVE  Shape' /\ Good(a)' /\ Alone(a)
<1>1. Shape /\ Good(a) /\ options \in Options  BY DEF IInv, OptionsOK
<1>2. CASE Prepare(a)
  <2>1. options.fallback \in Fallbacks  BY <1>1 DEF Options
  <2>2. Good(a)'  BY <1>1, <1>2, <2>1, PrepareStep
  <2>3. /\ place' = [place EXCEPT ![a] = "prepared"] /\ UNCHANGED <<outcome, send>>
        /\ \E j : job' = [job EXCEPT ![a] = j]
    BY <1>2 DEF Prepare, PrepareSend, PrepareDetect, PrepareSettings, Moves
  <2> QED  BY <1>1, <2>2, <2>3 DEF Shape, Places, Quiet, Alone, Same, send
<1>3. CASE \/ StartSend(a) \/ SubmitRejected(a) \/ StartDetect(a) \/ Probe(a)
           \/ RecordFolder(a) \/ ApplySettings(a)
  <2>1. place[a] \in Quiet /\ place[a] # "idle" /\ job' = job /\ UNCHANGED send
    BY <1>3 DEF StartSend, SubmitRejected, StartDetect, Probe, RecordFolder, ApplySettings, Quiet
  <2>2. \/ /\ outcome' = outcome
           /\ \/ place' = [place EXCEPT ![a] = "submit"] /\ Kind(a) = "send"
              \/ place' = [place EXCEPT ![a] = "probe"] /\ Kind(a) = "detect"
              \/ place' = [place EXCEPT ![a] = "record"] /\ Kind(a) = "detect"
        \/ \E o \in {"not_applied", "applied_verified", "applied_unverified"} :
              Closes(a, o) /\ (o = "applied_verified" => Kind(a) # "send")
    <3>1. place[a] \in {"probe", "record"} => Kind(a) = "detect"
      BY <1>1 DEF Good, Asked
    <3>2. CASE StartSend(a) \/ SubmitRejected(a)
      BY <3>2 DEF StartSend, BeginsSend, Begins, SubmitRejected
    <3>3. CASE StartDetect(a) \/ Probe(a)
      BY <3>1, <3>3 DEF StartDetect, BeginsDetect, Begins, Probe
    <3>4. CASE RecordFolder(a) \/ ApplySettings(a)
      BY <3>1, <3>4 DEF RecordFolder, ApplySettings
    <3> QED  BY <1>3, <3>2, <3>3, <3>4
  <2>3. Good(a)'  BY <1>1, <2>1, <2>2, QuietStep
  <2>4. /\ \E p \in Places : place' = [place EXCEPT ![a] = p]
        /\ outcome' = outcome \/ \E o : outcome' = [outcome EXCEPT ![a] = o]
    BY <2>2 DEF Closes, Places, Quiet
  <2> QED  BY <1>1, <2>1, <2>3, <2>4 DEF Shape, Alone, Same, send
<1>4. CASE SubmitAccepted(a) \/ SubmitLost(a)
  <2>1. /\ Good(a)' /\ copies' \in [Runs -> [Boxes -> Nat]]
        /\ \A c \in Runs : c # a => copies'[c] = copies[c]
    BY <1>1, <1>4, SubmitStep
  <2>2. /\ \E p \in Places : place' = [place EXCEPT ![a] = p]
        /\ outcome' = outcome \/ \E o : outcome' = [outcome EXCEPT ![a] = o]
        /\ accepted' = accepted \/ \E s : accepted' = [accepted EXCEPT ![a] = s]
        /\ UNCHANGED <<job, saved, copied, filed>>
    BY <1>4 DEF SubmitAccepted, SubmitLost, Moves, Closes, Places, Quiet
  <2> QED  BY <1>1, <2>1, <2>2 DEF Shape, Alone, Same
<1>5. CASE Archive(a)
  <2>1. Good(a)'  BY <1>1, <1>5, ArchiveStep
  <2>2. /\ \E p \in Places : place' = [place EXCEPT ![a] = p]
        /\ outcome' = outcome \/ \E o : outcome' = [outcome EXCEPT ![a] = o]
        /\ saved' = saved \/ \E s : saved' = [saved EXCEPT ![a] = s]
        /\ \E f : filed' = [filed EXCEPT ![a] = f]
        /\ UNCHANGED <<job, accepted, copied, copies>>
    BY <1>5 DEF Archive, Closes, Places, Quiet
  <2> QED  BY <1>1, <2>1, <2>2 DEF Shape, Alone, Same
<1>6. CASE SkipFallback(a) \/ SendFallback(a)
  <2>1. /\ Good(a)' /\ copies' \in [Runs -> [Boxes -> Nat]]
        /\ \A c \in Runs : c # a => copies'[c] = copies[c]
    BY <1>1, <1>6, FallbackStep
  <2>2. /\ place' = [place EXCEPT ![a] = "report"]
        /\ copied' = copied \/ \E s : copied' = [copied EXCEPT ![a] = s]
        /\ UNCHANGED <<job, outcome, accepted, saved, filed>>
    BY <1>6 DEF SkipFallback, SendFallback, Moves
  <2> QED  BY <1>1, <2>1, <2>2 DEF Shape, Alone, Same, Places
<1>7. CASE Report(a)
  <2>1. Good(a)'  BY <1>1, <1>7, ReportStep
  <2>2. /\ place' = [place EXCEPT ![a] = "done"] /\ \E o : outcome' = [outcome EXCEPT ![a] = o]
        /\ UNCHANGED <<job, send>>
    BY <1>7 DEF Report, Closes
  <2> QED  BY <1>1, <2>1, <2>2 DEF Shape, Alone, Same, Places, send
<1>8. CASE Calls(a)
  <2>1. PICK c \in Runs : CallAgain(a, c)  BY <1>8 DEF Calls
  <2>2. Good(a)'  BY <1>1, <2>1, CallStep DEF IInv
  <2>3. /\ \E p \in Places : place' = [place EXCEPT ![a] = p]
        /\ outcome' = outcome \/ \E o : outcome' = [outcome EXCEPT ![a] = o]
        /\ job' = [job EXCEPT ![a] = job[c]] /\ UNCHANGED send
    BY <2>1 DEF CallAgain, BeginsSend, BeginsDetect, Begins, Closes, Places, Quiet
  <2> QED  BY <1>1, <2>2, <2>3 DEF Shape, Alone, Same, send
<1> QED  BY <1>2, <1>3, <1>4, <1>5, <1>6, <1>7, <1>8 DEF Step

\* Options stay options, whoever writes them.
LEMMA OptionsStep == IInv /\ [MailNext]_mailVars => OptionsOK'
<1> SUFFICES ASSUME IInv, [MailNext]_mailVars  PROVE OptionsOK'
  OBVIOUS
<1>1. OptionsOK /\ Shape  BY DEF IInv
<1>2. /\ \A fallback \in Fallbacks : [options EXCEPT !.fallback = fallback] \in Options
      /\ \A folder \in Records : [options EXCEPT !.folder = folder] \in Options
  BY <1>1 DEF OptionsOK, Options
<1>3. ASSUME NEW a \in Runs, Prepare(a)  PROVE OptionsOK'
  <2>1. options' = options
    BY <1>3 DEF Prepare, PrepareSend, PrepareDetect, PrepareSettings, Elsewhere
  <2>2. ASSUME NEW c \in Runs, job'[c].kind = "settings"  PROVE job'[c].options \in Options
    <3>1. CASE c # a
      <4>1. job'[c] = job[c]
        BY <1>1, <1>3, <3>1 DEF Prepare, PrepareSend, PrepareDetect, PrepareSettings, Shape
      <4> QED  BY <1>1, <2>2, <4>1 DEF OptionsOK, Kind
    <3>2. CASE c = a
      <4>1. ASSUME NEW fallback \in Fallbacks, PrepareSettings(a, fallback)
            PROVE  job'[a].options \in Options
        <5>1. job'[a].options = [options EXCEPT !.fallback = fallback]
          BY <1>1, <4>1 DEF PrepareSettings, Shape
        <5> QED  BY <1>2, <5>1
      <4>2. ~PrepareDetect(a)
        BY <1>1, <2>2, <3>2 DEF PrepareDetect, Shape
      <4>3. \A wanted \in Lists : \A recipients \in SUBSET wanted :
               ~PrepareSend(a, wanted, recipients)
        BY <1>1, <2>2, <3>2 DEF PrepareSend, Shape
      <4> QED  BY <1>3, <3>2, <4>1, <4>2, <4>3 DEF Prepare
    <3> QED  BY <3>1, <3>2
  <2> QED  BY <1>1, <2>1, <2>2 DEF OptionsOK, Kind
<1>4. ASSUME NEW a \in Runs, RecordFolder(a) \/ ApplySettings(a)  PROVE OptionsOK'
  <2>1. a \in Records  BY DEF Records
  <2>2. job' = job  BY <1>4 DEF RecordFolder, ApplySettings
  <2>3. options' \in Options
    BY <1>1, <1>2, <1>4, <2>1 DEF RecordFolder, ApplySettings, OptionsOK
  <2> QED  BY <1>1, <2>2, <2>3 DEF OptionsOK, Kind
<1>5. ASSUME NEW a \in Runs, Step(a), ~RecordFolder(a), ~ApplySettings(a)
      PROVE  OptionsOK'
  <2>1. options' = options /\ job' = job
    BY <1>5 DEF Step, StartSend, SubmitAccepted, SubmitRejected, SubmitLost, Archive,
                SkipFallback, SendFallback, Report, StartDetect, Probe, Elsewhere
  <2> QED  BY <1>1, <2>1 DEF OptionsOK, Kind
<1>6. ASSUME NEW fallback \in Fallbacks, UserSetsFallback(fallback)  PROVE OptionsOK'
  BY <1>1, <1>2, <1>6 DEF UserSetsFallback, OptionsOK, Kind
<1>7. ASSUME NEW s \in Senders, SenderChanges(s)  PROVE OptionsOK'
  BY <1>1, <1>7 DEF SenderChanges, OptionsOK, Kind
<1>8. CASE UNCHANGED mailVars
  BY <1>1, <1>8 DEF mailVars, OptionsOK, Kind
<1>9. ASSUME NEW a \in Runs, NEW b \in Runs, CallAgain(b, a)  PROVE OptionsOK'
  <2>1. options' = options /\ job' = [job EXCEPT ![b] = job[a]]
    BY <1>9 DEF CallAgain, Elsewhere
  <2> QED  BY <1>1, <2>1 DEF OptionsOK, Kind, Shape
<1> QED  BY <1>3, <1>4, <1>5, <1>6, <1>7, <1>8, <1>9 DEF MailNext

THEOREM Invariant == MailSpec => []IInv
<1>1. IInv /\ [MailNext]_mailVars => IInv'
  <2> SUFFICES ASSUME IInv, [MailNext]_mailVars  PROVE IInv'
    OBVIOUS
  <2>1. OptionsOK'  BY OptionsStep
  <2>2. ASSUME NEW a \in Runs, Prepare(a) \/ Step(a) \/ Calls(a)
        PROVE  Shape' /\ \A c \in Runs : Good(c)'
    <3>1. Shape' /\ Good(a)' /\ Alone(a)  BY <2>2, RunStep
    <3>2. \A c \in Runs : c # a => Good(c)'  BY <3>1, SameIsGood DEF Alone, IInv
    <3> QED  BY <3>1, <3>2
  <2>3. CASE UNCHANGED <<place, job, outcome, send>>
    <3>1. \A c \in Runs : Same(c)  BY <2>3 DEF Same, send
    <3> QED  BY <2>1, <2>3, <3>1, SameIsGood DEF IInv, Shape, send
  <2>4. ASSUME \/ \E fallback \in Fallbacks : UserSetsFallback(fallback)
               \/ \E s \in Senders : SenderChanges(s)
               \/ UNCHANGED mailVars
        PROVE  UNCHANGED <<place, job, outcome, send>>
    BY <2>4 DEF UserSetsFallback, SenderChanges, mailVars
  <2> QED  BY <2>1, <2>2, <2>3, <2>4 DEF IInv, MailNext, Calls
<1> QED  BY InitInvariant, <1>1, PTL DEF MailSpec

(* One call of the send service brings no mailbox the mail twice.          *)
THEOREM NobodyTwice == MailSpec => []NoSecondCopy
<1>1. IInv => NoSecondCopy  BY DEF IInv, Good, Single, NoSecondCopy
<1> QED  BY Invariant, <1>1, PTL

(* A call that reports not_applied has itself reached nobody.              *)
THEOREM NotAppliedIsUndelivered == MailSpec => []NotAppliedUndelivered
<1>1. IInv => NotAppliedUndelivered
  BY DEF IInv, Good, Undelivered, Unsent, NotAppliedUndelivered
<1> QED  BY Invariant, <1>1, PTL

(* A verified call has reached all recipients and an archive by itself.    *)
THEOREM VerifiedIsComplete == MailSpec => []VerifiedComplete
<1>1. IInv => VerifiedComplete
  BY DEF IInv, Good, CompleteIfVerified, Recipients, VerifiedComplete
<1> QED  BY Invariant, <1>1, PTL

(* Besides its recipients a mail reaches only the reviewed fallback.       *)
THEOREM OnlyReviewedReached == MailSpec => []OnlyReviewed
<1>1. IInv => OnlyReviewed
  BY DEF IInv, Good, Archived, Recipients, OnlyReviewed
<1> QED  BY Invariant, <1>1, PTL

(* A detection replaces only the record that was reviewed.                 *)
THEOREM DetectionsKeepOthers == MailSpec => DetectKeepsOthers
<1>1. ASSUME IInv, MailNext, NEW a \in Runs,
             Finishes(a), Kind(a) = "detect", outcome'[a] = "applied_verified"
      PROVE  options.folder = job[a].folder /\ options'.fallback = options.fallback
  <2>1. Shape /\ OptionsOK /\ Good(a)  BY <1>1 DEF IInv
  <2>2. RecordFolder(a)
    <3>1. place'[a] # place[a] /\ place'[a] = "done"  BY <1>1 DEF Finishes
    <3>2. ASSUME NEW c \in Runs, Prepare(c) \/ Step(c) \/ Calls(c)
          PROVE  c = a /\ Step(a)
      <4>1. c = a  BY <1>1, <3>1, <3>2, RunStep DEF Alone, Same
      <4>2. ~Prepare(a)
        BY <2>1, <3>1 DEF Prepare, PrepareSend, PrepareDetect, PrepareSettings, Moves, Shape
      <4>3. ~Calls(a)
        BY <1>1, <2>1
        DEF Calls, CallAgain, BeginsSend, BeginsDetect, Begins, Closes, Shape, Good, Asked, None
      <4> QED  BY <3>2, <4>1, <4>2, <4>3
    <3>3. Step(a)
      BY <1>1, <3>1, <3>2 DEF MailNext, Calls, UserSetsFallback, SenderChanges
    <3>4. ~StartSend(a) /\ ~SubmitAccepted(a) /\ ~SubmitRejected(a) /\ ~SubmitLost(a)
      BY <1>1, <2>1
      DEF StartSend, SubmitAccepted, SubmitRejected, SubmitLost, Good, Asked, Moves
    <3>5. ~Archive(a) /\ ~SkipFallback(a) /\ ~SendFallback(a) /\ ~Report(a)
      BY <1>1, <2>1 DEF Archive, SkipFallback, SendFallback, Report, Good, Asked, Moves
    <3>6. ~StartDetect(a) /\ ~Probe(a) /\ ~ApplySettings(a)
      BY <1>1, <2>1, <3>1
      DEF StartDetect, BeginsDetect, Begins, Probe, ApplySettings, Closes, Shape
    <3> QED  BY <3>3, <3>4, <3>5, <3>6 DEF Step
  <2>3. /\ FolderUnchanged(a) /\ options' = [options EXCEPT !.folder = a]
    BY <1>1, <2>1, <2>2 DEF RecordFolder, Closes, Shape
  <2> QED  BY <2>1, <2>3 DEF FolderUnchanged, OptionsOK, Options
<1>2. IInv /\ [MailNext]_mailVars =>
        [\A a \in Runs :
           Finishes(a) /\ Kind(a) = "detect" /\ outcome'[a] = "applied_verified" =>
              options.folder = job[a].folder /\ options'.fallback = options.fallback]_mailVars
  BY <1>1
<1> QED  BY Invariant, <1>2, PTL DEF MailSpec, DetectKeepsOthers
================================================================================
